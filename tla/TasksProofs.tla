----------------------------- MODULE TasksProofs -----------------------------
(***************************************************************************)
(* The event loops, the active object and the boss, for any number of      *)
(* clients, events, requests and workers.                                  *)
(***************************************************************************)
EXTENDS Tasks, FiniteSetTheorems, SequenceTheorems, NaturalsInduction,
        WellFoundedInduction, TLAPS

(***************************************************************************)
(* What was enqueued is what has run, followed by what waits in the two    *)
(* buffers.                                                                *)
(***************************************************************************)
LEMMA SwapBuffers ==
  ASSUME NEW T, NEW r \in Seq(T), NEW w \in Seq(T)
  PROVE  (r \o w) \o <<>> = (r \o <<>>) \o w /\ w \o <<>> = w /\ <<>> \o w = w
  OBVIOUS

LEMMA PushOne ==
  ASSUME NEW T, NEW r \in Seq(T), NEW b \in Seq(T), NEW w \in Seq(T), NEW x \in T
  PROVE  /\ Append(w, x) \in Seq(T)
         /\ (r \o b) \o Append(w, x) = Append((r \o b) \o w, x)
         /\ b \o Append(w, x) = Append(b \o w, x)
  OBVIOUS

-----------------------------------------------------------------------------
(***************************************************************************)
(* The boss.                                                               *)
(***************************************************************************)
BossInv ==
  /\ Boss!TypeOK
  /\ \A w \in 1 .. Crew : w <= waited => w \in prepared
  /\ startWork => waited >= Crew
  /\ started # {} => startWork

LEMMA BossStep ==
  ASSUME BossInv, (\E w \in 1 .. Crew : Boss!Worker(w)) \/ Boss!Boss
  PROVE  BossInv'
<1> USE CountsAssumption DEF BossInv, Boss!TypeOK
<1>1. ASSUME NEW w \in 1 .. Crew, Boss!Prepare(w) PROVE BossInv'
  BY <1>1 DEF Boss!Prepare
<1>2. ASSUME NEW w \in 1 .. Crew, Boss!Start(w) PROVE BossInv'
  BY <1>2 DEF Boss!Start
<1>3. CASE Boss!WaitForWorker
  BY <1>3 DEF Boss!WaitForWorker
<1>4. CASE Boss!StartWork
  BY <1>4 DEF Boss!StartWork
<1>5. CASE Boss!JoinWorkers
  BY <1>5 DEF Boss!JoinWorkers
<1> QED BY <1>1, <1>2, <1>3, <1>4, <1>5 DEF Boss!Worker, Boss!Boss

-----------------------------------------------------------------------------
(***************************************************************************)
(* The event loops.                                                        *)
(***************************************************************************)
Ops == Loop!Posted \cup Loop!Waited \cup {"get", "join", "read"}

LEMMA CallsAre ==
  ASSUME program \in Loops, NEW c
  PROVE  Loop!Calls(c) \in Seq(Ops) /\ Len(Loop!Calls(c)) <= Loop!MaxCalls
<1> USE CountsAssumption DEF Ops, Loop!Posted, Loop!Waited, Loop!MaxCalls
<1>1. ASSUME NEW op \in Ops PROVE Loop!Times(op) \in Seq(Ops) /\ Len(Loop!Times(op)) = Events
  BY <1>1 DEF Loop!Times
<1>2. CASE program = "basic"
  <2>1. Loop!Calls(c) = Loop!BasicCalls(c)
    BY <1>2 DEF Loop!Calls
  <2>2. CASE c = Main
    BY <2>1, <2>2 DEF Loop!BasicCalls
  <2>3. CASE c # Main
    BY <2>1, <2>3 DEF Loop!BasicCalls
  <2> QED BY <2>2, <2>3
<1>3. CASE program = "handlers"
  <2>1. Loop!Calls(c) = Loop!EmitCalls(c)
    BY <1>3 DEF Loop!Calls
  <2>2. Loop!Times("enqueue") \in Seq(Ops) /\ Len(Loop!Times("enqueue")) = Events
    BY <1>1
  <2>3. <<"join", "enqueue", "destroy">> \in Seq(Ops) /\ Len(<<"join", "enqueue",
                                                               "destroy">>) = 3
    OBVIOUS
  <2>4. CASE c = Main
    BY <2>1, <2>2, <2>3, <2>4 DEF Loop!EmitCalls
  <2>5. CASE c # Main
    BY <2>1, <2>2, <2>5 DEF Loop!EmitCalls
  <2> QED BY <2>4, <2>5
<1>4. CASE program = "account"
  <2>1. Loop!Calls(c) = Loop!AccountCalls(c)
    BY <1>4 DEF Loop!Calls
  <2>2. /\ Loop!Times("pay") \in Seq(Ops) /\ Len(Loop!Times("pay")) = Events
        /\ Loop!Times("acquire") \in Seq(Ops) /\ Len(Loop!Times("acquire")) = Events
    BY <1>1
  <2>3. CASE c = Main
    BY <2>1, <2>3 DEF Loop!AccountCalls
  <2>4. CASE c # Main
    BY <2>1, <2>2, <2>4 DEF Loop!AccountCalls
  <2> QED BY <2>3, <2>4
<1>5. CASE program = "library"
  <2>1. Loop!Calls(c) = Loop!LibraryCalls(c)
    BY <1>5 DEF Loop!Calls
  <2>2. CASE c = Main
    BY <2>1, <2>2 DEF Loop!LibraryCalls
  <2>3. CASE c # Main /\ c = Buyer
    BY <2>1, <2>3 DEF Loop!LibraryCalls
  <2>4. CASE c # Main /\ c # Buyer
    BY <2>1, <2>4 DEF Loop!LibraryCalls
  <2> QED BY <2>2, <2>3, <2>4
<1> QED BY <1>2, <1>3, <1>4, <1>5 DEF Loops

Enqueued == (ran \o readBuffer) \o m_writeBuffer

\* The call whose task a thread has enqueued, up to the one it is in
Pushed(c, k) == k < at[c] \/ (k = at[c] /\ pc[c] # "call")

\* Where the threads are in their calls, and the loop in its batch
LoopPlaces ==
  /\ at \in [Loop!Threads -> Nat]
  /\ \A c \in Loop!Threads : pc[c] # "call" => Loop!Is(c, Loop!Posted \cup Loop!Waited)
  /\ \A c \in Loop!Threads : pc[c] = "join" => Loop!Is(c, {"destroy"})
  /\ loop \notin {"run", "update"} => readBuffer = <<>>
  /\ loop = "update" => readBuffer # <<>> /\ loaded = m_balance

\* The tasks of each thread were enqueued in the order of its calls, and all of them.
LoopOrder ==
  /\ \A i \in 1 .. Len(Enqueued) : Pushed(Enqueued[i][1], Enqueued[i][2])
  /\ \A i, j \in 1 .. Len(Enqueued) :
       i < j /\ Enqueued[i][1] = Enqueued[j][1] => Enqueued[i][2] < Enqueued[j][2]
  /\ \A c \in Loop!Threads : \A k \in 1 .. Len(Loop!Calls(c)) :
       Pushed(c, k) /\ Loop!Calls(c)[k] \in Loop!Posted \cup Loop!Waited =>
         \E i \in 1 .. Len(Enqueued) : Enqueued[i] = <<c, k>>

LEMMA CallsStay ==
  ASSUME program \in Loops, program' = program
  PROVE  /\ \A c : Loop!Calls(c)' = Loop!Calls(c)
         /\ Loop!Tasks' = Loop!Tasks
  BY DEF Loop!Calls, Loop!Tasks

LEMMA PushIsTask ==
  ASSUME program \in Loops, Loop!TypeOK, at \in [Loop!Threads -> Nat], NEW c \in Loop!Threads,
         Loop!Push(c)
  PROVE  <<c, at[c]>> \in Loop!Tasks
<1>1. Len(Loop!Calls(c)) <= Loop!MaxCalls /\ Loop!MaxCalls \in Nat /\ Len(Loop!Calls(c)) \in Nat
  BY CallsAre, CountsAssumption DEF Loop!MaxCalls
<1>2. at[c] \in 1 .. Loop!MaxCalls /\ at[c] <= Len(Loop!Calls(c))
  BY <1>1 DEF Loop!Push, Loop!Is, Loop!Finished, Loop!TypeOK
<1>3. Loop!Calls(c)[at[c]] \in Loop!Posted \cup Loop!Waited
  BY DEF Loop!Push, Loop!Is
<1> QED BY <1>2, <1>3 DEF Loop!Tasks

LEMMA LoopType ==
  ASSUME program \in Loops, Loop!TypeOK, LoopPlaces,
         (\E c \in Loop!Threads : Loop!Client(c)) \/ Loop!Loop \/ Loop!Spurious
  PROVE  program' = program /\ Loop!TypeOK' /\ LoopPlaces'
<1>0. \A c : /\ Loop!Calls(c) \in Seq(Ops) /\ Len(Loop!Calls(c)) \in Nat
            /\ Len(Loop!Calls(c)) <= Loop!MaxCalls /\ Loop!MaxCalls \in Nat
  BY CallsAre, CountsAssumption DEF Loop!MaxCalls
<1>00. program' = program => (\A c : Loop!Calls(c)' = Loop!Calls(c)) /\ Loop!Tasks' = Loop!Tasks
  BY CallsStay
<1> USE <1>0, <1>00
    DEF Loop!TypeOK, LoopPlaces, Loop!Is, Loop!Finished, Loop!Goto, Loop!Return, Loop!queues,
        Loop!account
<1>1. ASSUME NEW c \in Loop!Threads, Loop!Push(c)
      PROVE  program' = program /\ Loop!TypeOK' /\ LoopPlaces'
  <2>1. <<c, at[c]>> \in Loop!Tasks
    BY <1>1, PushIsTask
  <2>2. m_writeBuffer' \in Seq(Loop!Tasks)
    BY <1>1, <2>1 DEF Loop!Push
  <2> QED BY <1>1, <2>2 DEF Loop!Push
<1>2. ASSUME NEW c \in Loop!Threads, ~Loop!Finished(c), Loop!Return(c), asleep' \in BOOLEAN,
             UNCHANGED <<program, Loop!queues, m_running, loop, Loop!account>>
      PROVE  program' = program /\ Loop!TypeOK' /\ LoopPlaces'
  <2>1. /\ at' \in [Loop!Threads -> Nat] /\ at'[c] = at[c] + 1 /\ at[c] \in 1 .. Len(Loop!Calls(c))
        /\ \A d \in Loop!Threads : d # c => at'[d] = at[d] /\ pc'[d] = pc[d]
        /\ pc'[c] = "call" /\ pc' \in [Loop!Threads -> {"call", "notify", "future", "join"}]
    BY <1>2
  <2>2. Loop!TypeOK'
    BY <1>2, <2>1
  <2>3. LoopPlaces'
    BY <1>2, <2>1
  <2> QED BY <1>2, <2>2, <2>3
<1>3. ASSUME NEW c \in Loop!Threads, Loop!NotifyOne(c)
      PROVE  program' = program /\ Loop!TypeOK' /\ LoopPlaces'
  <2>1. CASE Loop!Return(c)
    <3>1. ~Loop!Finished(c)
      BY <1>3 DEF Loop!NotifyOne
    <3> QED BY <1>2, <1>3, <2>1, <3>1 DEF Loop!NotifyOne
  <2>2. CASE Loop!Goto(c, "future")
    BY <1>3, <2>2 DEF Loop!NotifyOne
  <2>3. CASE Loop!Goto(c, "join") /\ Loop!Is(c, {"destroy"})
    <3>1. /\ at' = at /\ pc'[c] = "join" /\ \A d \in Loop!Threads : d # c => pc'[d] = pc[d]
          /\ pc' \in [Loop!Threads -> {"call", "notify", "future", "join"}]
          /\ program' = program /\ UNCHANGED <<Loop!queues, m_running, loop, Loop!account>>
          /\ asleep' \in BOOLEAN /\ pc[c] = "notify"
      BY <1>3, <2>3 DEF Loop!NotifyOne
    <3>2. Loop!TypeOK'
      BY <3>1
    <3>3. LoopPlaces'
      BY <2>3, <3>1
    <3> QED BY <3>1, <3>2, <3>3
  <2> QED BY <1>3, <2>1, <2>2, <2>3 DEF Loop!NotifyOne
<1>4. ASSUME NEW c \in Loop!Threads,
             Loop!SyncReturn(c) \/ Loop!GetFuture(c) \/ Loop!JoinClients(c) \/ Loop!JoinLoop(c)
      PROVE  program' = program /\ Loop!TypeOK' /\ LoopPlaces'
  <2>1. ~Loop!Finished(c)
    BY <1>4 DEF Loop!SyncReturn, Loop!GetFuture, Loop!JoinClients, Loop!JoinLoop
  <2> QED BY <1>2, <1>4, <2>1
    DEF Loop!SyncReturn, Loop!GetFuture, Loop!JoinClients, Loop!JoinLoop
<1>5. CASE Loop!Test \/ Loop!Sleep \/ Loop!Spurious \/ Loop!Clear
  BY <1>5 DEF Loop!Test, Loop!Sleep, Loop!Spurious, Loop!Clear
<1>6. CASE Loop!Swap
  BY <1>6 DEF Loop!Swap
<1>7. CASE Loop!LoadBalance
  BY <1>7 DEF Loop!LoadBalance, Loop!NextIs
<1>8. CASE Loop!RunTask \/ Loop!RunNested \/ Loop!StoreBalance
  <2>1. readBuffer # <<>>
    BY <1>8 DEF Loop!RunTask, Loop!RunNested, Loop!StoreBalance, Loop!NextIs
  <2>2. readBuffer' \in Seq(Loop!Tasks) /\ ran' \in Seq(Loop!Tasks) /\ m_writeBuffer' = m_writeBuffer
    <3>1. Loop!TaskDone
      BY <1>8 DEF Loop!RunTask, Loop!RunNested, Loop!StoreBalance
    <3> QED BY <2>1, <3>1 DEF Loop!TaskDone
  <2>3. m_running' \in BOOLEAN
    BY <1>8 DEF Loop!RunTask, Loop!RunNested, Loop!StoreBalance
  <2>4. m_balance' \in Int
    <3>1. Head(readBuffer)[2] \in Int
      BY <2>1 DEF Loop!Tasks
    <3> QED BY <1>8, <3>1 DEF Loop!RunTask, Loop!RunNested, Loop!StoreBalance, Loop!Amount
  <2>5. CASE Loop!RunTask \/ Loop!RunNested
    BY <2>2, <2>3, <2>4, <2>5 DEF Loop!RunTask, Loop!RunNested, Loop!NextIs
  <2>6. CASE Loop!StoreBalance
    BY <2>2, <2>3, <2>4, <2>6 DEF Loop!StoreBalance
  <2> QED BY <1>8, <2>5, <2>6
<1> QED BY <1>1, <1>2, <1>3, <1>4, <1>5, <1>6, <1>7, <1>8 DEF Loop!Client, Loop!Loop

\* What a step does to the tasks: a client enqueues the one it is at, the loop runs the
\* first one, or swaps, or nothing.
LoopMoves(c) ==
  \/ /\ pc[c] = "call" /\ pc'[c] # "call" /\ at' = at /\ <<c, at[c]>> \in Loop!Tasks
     /\ \A d \in Loop!Threads : d # c => pc'[d] = pc[d]
     /\ Enqueued' = Append(Enqueued, <<c, at[c]>>) /\ ran' = ran
     /\ readBuffer' \o m_writeBuffer' = Append(readBuffer \o m_writeBuffer, <<c, at[c]>>)
  \/ /\ Enqueued' = Enqueued /\ readBuffer # <<>>
     /\ ran' = Append(ran, Head(readBuffer \o m_writeBuffer))
     /\ readBuffer \o m_writeBuffer # <<>>
     /\ readBuffer' \o m_writeBuffer' = Tail(readBuffer \o m_writeBuffer)
     /\ UNCHANGED <<at, pc>>
  \/ /\ Enqueued' = Enqueued /\ ran' = ran
     /\ readBuffer' \o m_writeBuffer' = readBuffer \o m_writeBuffer
     /\ \/ UNCHANGED <<at, pc>>
        \/ /\ at' = at /\ pc[c] # "call" /\ pc'[c] # "call"
           /\ \A d \in Loop!Threads : d # c => pc'[d] = pc[d]
        \/ /\ Loop!Return(c)
           /\ pc[c] = "call" => ~Loop!Is(c, Loop!Posted \cup Loop!Waited)
           /\ Loop!Is(c, Loop!Waited) => Loop!HasRun(<<c, at[c]>>)

LEMMA LoopBuffers ==
  ASSUME Loop!TypeOK
  PROVE  /\ \A x \in Loop!Tasks :
              /\ (ran \o readBuffer) \o Append(m_writeBuffer, x) =
                   Append((ran \o readBuffer) \o m_writeBuffer, x)
              /\ readBuffer \o Append(m_writeBuffer, x) = Append(readBuffer \o m_writeBuffer, x)
         /\ readBuffer # <<>> =>
              /\ (Append(ran, Head(readBuffer)) \o Tail(readBuffer)) \o m_writeBuffer =
                   (ran \o readBuffer) \o m_writeBuffer
              /\ Tail(readBuffer) \o m_writeBuffer = Tail(readBuffer \o m_writeBuffer)
              /\ Head(readBuffer) = Head(readBuffer \o m_writeBuffer)
              /\ readBuffer \o m_writeBuffer # <<>>
<1> DEFINE T == Loop!Tasks
<1>1. ran \in Seq(T) /\ readBuffer \in Seq(T) /\ m_writeBuffer \in Seq(T)
  BY DEF Loop!TypeOK
<1> HIDE DEF T
<1>2. \A x \in T : /\ (ran \o readBuffer) \o Append(m_writeBuffer, x) =
                        Append((ran \o readBuffer) \o m_writeBuffer, x)
                   /\ readBuffer \o Append(m_writeBuffer, x) = Append(readBuffer \o m_writeBuffer, x)
  BY <1>1, PushOne
<1>3. readBuffer # <<>> =>
        /\ (Append(ran, Head(readBuffer)) \o Tail(readBuffer)) \o m_writeBuffer =
             (ran \o readBuffer) \o m_writeBuffer
        /\ Tail(readBuffer) \o m_writeBuffer = Tail(readBuffer \o m_writeBuffer)
        /\ Head(readBuffer) = Head(readBuffer \o m_writeBuffer)
        /\ readBuffer \o m_writeBuffer # <<>>
  <2> SUFFICES ASSUME readBuffer # <<>>
               PROVE  /\ (Append(ran, Head(readBuffer)) \o Tail(readBuffer)) \o m_writeBuffer =
                           (ran \o readBuffer) \o m_writeBuffer
                      /\ Tail(readBuffer) \o m_writeBuffer = Tail(readBuffer \o m_writeBuffer)
                      /\ Head(readBuffer) = Head(readBuffer \o m_writeBuffer)
                      /\ readBuffer \o m_writeBuffer # <<>>
    OBVIOUS
  <2>1. Append(ran, Head(readBuffer)) \o Tail(readBuffer) = ran \o readBuffer
    BY <1>1
  <2>2. Tail(readBuffer) \o m_writeBuffer = Tail(readBuffer \o m_writeBuffer)
    BY <1>1
  <2>3. Head(readBuffer) = Head(readBuffer \o m_writeBuffer) /\ readBuffer \o m_writeBuffer # <<>>
    BY <1>1
  <2> QED BY <2>1, <2>2, <2>3
<1> QED BY <1>2, <1>3 DEF T

LEMMA LoopMove ==
  ASSUME program \in Loops, Loop!TypeOK, LoopPlaces,
         (\E c \in Loop!Threads : Loop!Client(c)) \/ Loop!Loop \/ Loop!Spurious
  PROVE  \E c \in Loop!Threads : LoopMoves(c)
<1> USE DEF Loop!TypeOK, LoopPlaces, Loop!Goto, Loop!queues, Loop!account, LoopMoves, Enqueued
<1>0. Main \in Loop!Threads
  BY DEF Loop!Threads
<1>1. ASSUME NEW c \in Loop!Threads, Loop!Push(c) PROVE LoopMoves(c)
  <2>1. <<c, at[c]>> \in Loop!Tasks
    BY <1>1, PushIsTask
  <2>2. /\ Enqueued' = Append(Enqueued, <<c, at[c]>>)
        /\ readBuffer' \o m_writeBuffer' = Append(readBuffer \o m_writeBuffer, <<c, at[c]>>)
    <3>1. /\ (ran \o readBuffer) \o Append(m_writeBuffer, <<c, at[c]>>) =
               Append((ran \o readBuffer) \o m_writeBuffer, <<c, at[c]>>)
          /\ readBuffer \o Append(m_writeBuffer, <<c, at[c]>>) =
               Append(readBuffer \o m_writeBuffer, <<c, at[c]>>)
      BY <2>1, LoopBuffers
    <3>2. /\ ran' = ran /\ readBuffer' = readBuffer
          /\ m_writeBuffer' = Append(m_writeBuffer, <<c, at[c]>>)
      BY <1>1 DEF Loop!Push
    <3> QED BY <3>1, <3>2
  <2> QED BY <1>1, <2>1, <2>2 DEF Loop!Push
<1>2. ASSUME NEW c \in Loop!Threads, Loop!NotifyOne(c) PROVE LoopMoves(c)
  BY <1>2 DEF Loop!NotifyOne
<1>3. ASSUME NEW c \in Loop!Threads, Loop!SyncReturn(c) PROVE LoopMoves(c)
  BY <1>3 DEF Loop!SyncReturn
<1>4. ASSUME NEW c \in Loop!Threads, Loop!GetFuture(c) \/ Loop!JoinClients(c) PROVE LoopMoves(c)
  BY <1>4 DEF Loop!GetFuture, Loop!JoinClients, Loop!Is, Loop!Posted, Loop!Waited
<1>5. ASSUME NEW c \in Loop!Threads, Loop!JoinLoop(c) PROVE LoopMoves(c)
  BY <1>5 DEF Loop!JoinLoop, Loop!Is, Loop!Waited
<1>6. CASE Loop!Test \/ Loop!Sleep \/ Loop!Spurious \/ Loop!Clear \/ Loop!LoadBalance
  BY <1>0, <1>6 DEF Loop!Test, Loop!Sleep, Loop!Spurious, Loop!Clear, Loop!LoadBalance
<1>7. CASE Loop!Swap
  <2>1. readBuffer = <<>> /\ readBuffer' = m_writeBuffer /\ m_writeBuffer' = <<>> /\ ran' = ran
        /\ UNCHANGED <<at, pc>>
    BY <1>7 DEF Loop!Swap
  <2>2. /\ (ran \o m_writeBuffer) \o <<>> = (ran \o <<>>) \o m_writeBuffer
        /\ m_writeBuffer \o <<>> = <<>> \o m_writeBuffer
    BY SwapBuffers
  <2>3. LoopMoves(Main)
    BY <2>1, <2>2
  <2> QED BY <1>0, <2>3
<1>8. CASE Loop!RunTask \/ Loop!RunNested \/ Loop!StoreBalance
  <2>1. readBuffer # <<>> /\ Loop!TaskDone /\ UNCHANGED <<at, pc>>
    BY <1>8 DEF Loop!RunTask, Loop!RunNested, Loop!StoreBalance, Loop!NextIs
  <2>2. LoopMoves(Main)
    <3>1. /\ (Append(ran, Head(readBuffer)) \o Tail(readBuffer)) \o m_writeBuffer =
               (ran \o readBuffer) \o m_writeBuffer
          /\ Tail(readBuffer) \o m_writeBuffer = Tail(readBuffer \o m_writeBuffer)
          /\ Head(readBuffer) = Head(readBuffer \o m_writeBuffer)
          /\ readBuffer \o m_writeBuffer # <<>>
      BY <2>1, LoopBuffers
    <3>2. /\ ran' = Append(ran, Head(readBuffer)) /\ readBuffer' = Tail(readBuffer)
          /\ m_writeBuffer' = m_writeBuffer
      BY <2>1 DEF Loop!TaskDone
    <3> QED BY <2>1, <3>1, <3>2
  <2> QED BY <1>0, <2>2
<1> QED BY <1>1, <1>2, <1>3, <1>4, <1>5, <1>6, <1>7, <1>8 DEF Loop!Client, Loop!Loop

LEMMA EnqueuedTasks ==
  ASSUME Loop!TypeOK
  PROVE  /\ Enqueued \in Seq(Loop!Tasks)
         /\ \A i \in 1 .. Len(ran) : i \in 1 .. Len(Enqueued) /\ Enqueued[i] = ran[i]
         /\ \A i \in 1 .. Len(Enqueued) :
              /\ Enqueued[i][1] \in Loop!Threads /\ Enqueued[i][2] \in Nat
              /\ Enqueued[i] = <<Enqueued[i][1], Enqueued[i][2]>>
<1>1. Enqueued \in Seq(Loop!Tasks)
  BY DEF Enqueued, Loop!TypeOK
<1>2. \A i \in 1 .. Len(ran) : i \in 1 .. Len(Enqueued) /\ Enqueued[i] = ran[i]
  BY DEF Enqueued, Loop!TypeOK
<1>3. \A t \in Loop!Tasks : t[1] \in Loop!Threads /\ t[2] \in Nat /\ t = <<t[1], t[2]>>
  BY DEF Loop!Tasks
<1>4. \A i \in 1 .. Len(Enqueued) : Enqueued[i] \in Loop!Tasks
  BY <1>1
<1> QED BY <1>1, <1>2, <1>3, <1>4

LEMMA LoopOrdered ==
  ASSUME program \in Loops, program' = program, Loop!TypeOK, LoopPlaces, LoopOrder,
         NEW c \in Loop!Threads, LoopMoves(c)
  PROVE  LoopOrder'
<1> DEFINE N == Len(Enqueued)
           x == <<c, at[c]>>
<1>0. /\ \A d : Loop!Calls(d)' = Loop!Calls(d) /\ Len(Loop!Calls(d)) \in Nat
      /\ at \in [Loop!Threads -> Nat] /\ N \in Nat
      /\ pc \in [Loop!Threads -> {"call", "notify", "future", "join"}]
  BY CallsStay, CallsAre, EnqueuedTasks DEF LoopPlaces, Loop!TypeOK
<1>1. CASE /\ pc[c] = "call" /\ pc'[c] # "call" /\ at' = at /\ x \in Loop!Tasks
           /\ \A d \in Loop!Threads : d # c => pc'[d] = pc[d]
           /\ Enqueued' = Append(Enqueued, x)
  <2>1. /\ Len(Enqueued') = N + 1 /\ Enqueued'[N + 1] = x
        /\ \A i \in 1 .. N : Enqueued'[i] = Enqueued[i]
    BY <1>1, EnqueuedTasks, AppendProperties
  <2>2. x[1] = c /\ x[2] = at[c]
    OBVIOUS
  <2>3. \A i \in 1 .. N + 1 : i = N + 1 \/ i \in 1 .. N
    BY <1>0
  <2>4. \A d \in Loop!Threads, k \in Nat :
          Pushed(d, k)' <=> Pushed(d, k) \/ (d = c /\ k = at[c])
    BY <1>0, <1>1 DEF Pushed
  <2>5. \A i \in 1 .. N : /\ Enqueued[i][1] \in Loop!Threads /\ Enqueued[i][2] \in Nat
                          /\ Pushed(Enqueued[i][1], Enqueued[i][2])
    BY EnqueuedTasks DEF LoopOrder
  <2>6. \A i \in 1 .. N : Enqueued[i][1] = c => Enqueued[i][2] < at[c]
    BY <1>0, <1>1, <2>5 DEF Pushed
  <2> HIDE DEF N, x
  <2>7. \A i \in 1 .. N + 1 : Pushed(Enqueued[i][1], Enqueued[i][2])'
    BY <1>0, <2>1, <2>2, <2>3, <2>4, <2>5
  <2>8. \A i, j \in 1 .. N + 1 : i < j /\ Enqueued'[i][1] = Enqueued'[j][1] =>
                                   Enqueued'[i][2] < Enqueued'[j][2]
    BY <1>0, <2>1, <2>2, <2>3, <2>5, <2>6 DEF LoopOrder, N
  <2>9. ASSUME NEW d \in Loop!Threads, NEW k \in 1 .. Len(Loop!Calls(d)), Pushed(d, k)',
               Loop!Calls(d)[k] \in Loop!Posted \cup Loop!Waited
        PROVE  \E i \in 1 .. N + 1 : Enqueued'[i] = <<d, k>>
    <3>1. CASE d = c /\ k = at[c]
      <4>1. N + 1 \in 1 .. N + 1 /\ Enqueued'[N + 1] = <<d, k>>
        BY <1>0, <2>1, <3>1 DEF x
      <4> QED BY <4>1
    <3>2. CASE Pushed(d, k)
      <4>1. PICK i \in 1 .. N : Enqueued[i] = <<d, k>>
        BY <2>9, <3>2 DEF LoopOrder, N
      <4>2. i \in 1 .. N + 1 /\ Enqueued'[i] = <<d, k>>
        BY <1>0, <2>1, <4>1
      <4> QED BY <4>2
    <3>3. k \in Nat
      BY <1>0
    <3> QED BY <2>4, <2>9, <3>1, <3>2, <3>3
  <2> QED BY <1>0, <2>1, <2>7, <2>8, <2>9 DEF LoopOrder
<1>2. CASE Enqueued' = Enqueued /\ at' = at /\ \A d \in Loop!Threads : pc'[d] = "call" <=> pc[d] = "call"
  <2>1. \A d \in Loop!Threads, k \in Nat : Pushed(d, k)' <=> Pushed(d, k)
    BY <1>0, <1>2 DEF Pushed
  <2>2. \A i \in 1 .. Len(Enqueued) : Pushed(Enqueued[i][1], Enqueued[i][2])'
    BY <1>2, <2>1, EnqueuedTasks DEF LoopOrder
  <2>3. ASSUME NEW d \in Loop!Threads, NEW k \in 1 .. Len(Loop!Calls(d)), Pushed(d, k)'
        PROVE  Pushed(d, k)
    BY <1>0, <2>1, <2>3
  <2> QED BY <1>0, <1>2, <2>2, <2>3 DEF LoopOrder
<1>3. CASE /\ Enqueued' = Enqueued /\ Loop!Return(c)
           /\ pc[c] = "call" => ~Loop!Is(c, Loop!Posted \cup Loop!Waited)
  <2>1. /\ at'[c] = at[c] + 1 /\ pc'[c] = "call"
        /\ \A d \in Loop!Threads : d # c => at'[d] = at[d] /\ pc'[d] = pc[d]
    BY <1>0, <1>3 DEF Loop!Return
  <2>2. \A d \in Loop!Threads, k \in Nat :
          Pushed(d, k)' <=> Pushed(d, k) \/ (d = c /\ k = at[c])
    BY <1>0, <2>1 DEF Pushed
  <2>3. ASSUME NEW k \in 1 .. Len(Loop!Calls(c)), k = at[c],
               Loop!Calls(c)[k] \in Loop!Posted \cup Loop!Waited
        PROVE  Pushed(c, k)
    BY <1>0, <1>3, <2>3 DEF Pushed, Loop!Is, Loop!Finished
  <2>4. \A i \in 1 .. Len(Enqueued) : Pushed(Enqueued[i][1], Enqueued[i][2])'
    BY <1>3, <2>2, EnqueuedTasks DEF LoopOrder
  <2>5. ASSUME NEW d \in Loop!Threads, NEW k \in 1 .. Len(Loop!Calls(d)), Pushed(d, k)',
               Loop!Calls(d)[k] \in Loop!Posted \cup Loop!Waited
        PROVE  \E i \in 1 .. Len(Enqueued) : Enqueued[i] = <<d, k>>
    <3>1. k \in Nat
      BY <1>0
    <3>2. Pushed(d, k)
      BY <2>2, <2>3, <2>5, <3>1
    <3> QED BY <2>5, <3>2 DEF LoopOrder
  <2> QED BY <1>0, <1>3, <2>4, <2>5 DEF LoopOrder
<1> QED BY <1>1, <1>2, <1>3 DEF LoopMoves

\* A thread whose call has run has had its earlier calls run.
LEMMA EarlierHaveRun ==
  ASSUME Loop!TypeOK, LoopOrder, NEW c \in Loop!Threads, NEW n \in Nat, Loop!HasRun(<<c, n>>),
         NEW k \in 1 .. Len(Loop!Calls(c)), k <= n, Pushed(c, k),
         Loop!Calls(c)[k] \in Loop!Posted \cup Loop!Waited
  PROVE  Loop!HasRun(<<c, k>>)
<1>1. PICK i \in DOMAIN ran : ran[i] = <<c, n>>
  BY DEF Loop!HasRun
<1>2. PICK j \in 1 .. Len(Enqueued) : Enqueued[j] = <<c, k>>
  BY DEF LoopOrder
<1>3. /\ ran \in Seq(Loop!Tasks) /\ DOMAIN ran = 1 .. Len(ran) /\ Len(ran) \in Nat
      /\ Len(Enqueued) \in Nat /\ k \in Nat
  <2>1. Enqueued \in Seq(Loop!Tasks)
    BY EnqueuedTasks
  <2>2. k \in Nat
    OBVIOUS
  <2> QED BY <2>1, <2>2 DEF Loop!TypeOK
<1>4. i \in 1 .. Len(Enqueued) /\ Enqueued[i] = <<c, n>>
  BY <1>1, <1>3, EnqueuedTasks
<1>5. ~ (i < j)
  <2>1. i < j /\ Enqueued[i][1] = Enqueued[j][1] => Enqueued[i][2] < Enqueued[j][2]
    BY <1>2, <1>4 DEF LoopOrder
  <2>2. Enqueued[i][1] = c /\ Enqueued[j][1] = c /\ Enqueued[i][2] = n /\ Enqueued[j][2] = k
    BY <1>2, <1>4
  <2>3. ~ (n < k)
    BY <1>3
  <2> QED BY <2>1, <2>2, <2>3
<1>6. j \in 1 .. Len(ran)
  BY <1>1, <1>2, <1>3, <1>5
<1>7. ran[j] = <<c, k>>
  BY <1>2, <1>6, EnqueuedTasks
<1> QED BY <1>3, <1>6, <1>7 DEF Loop!HasRun

LEMMA OwnCallsStep ==
  ASSUME program \in Loops, program' = program, Loop!TypeOK, Loop!TypeOK', LoopPlaces, LoopOrder,
         Loop!OwnCallsFirst, NEW c \in Loop!Threads, LoopMoves(c)
  PROVE  Loop!OwnCallsFirst'
<1>0. /\ \A d : Loop!Calls(d)' = Loop!Calls(d) /\ Len(Loop!Calls(d)) \in Nat
      /\ at \in [Loop!Threads -> Nat]
  BY CallsStay, CallsAre DEF LoopPlaces
<1>1. \A t : Loop!HasRun(t) => Loop!HasRun(t)'
  <2>1. ran \in Seq(Loop!Tasks)
    BY DEF Loop!TypeOK
  <2>2. CASE ran' = ran
    BY <2>2 DEF Loop!HasRun
  <2>3. CASE readBuffer # <<>> /\ ran' = Append(ran, Head(readBuffer \o m_writeBuffer))
    <3>1. \A i \in DOMAIN ran : i \in DOMAIN ran' /\ ran'[i] = ran[i]
      BY <2>1, <2>3
    <3> QED BY <3>1 DEF Loop!HasRun
  <2> QED BY <2>2, <2>3 DEF LoopMoves
<1>2. ASSUME NEW d \in Loop!Threads, NEW n \in 1 .. at'[d] - 1, Loop!Calls(d)[n] \in Loop!Waited,
             NEW k \in 1 .. n, Loop!Calls(d)[k] \in Loop!Posted \cup Loop!Waited
      PROVE  Loop!HasRun(<<d, k>>)'
  <2>1. CASE n \in 1 .. at[d] - 1
    BY <1>1, <1>2, <2>1 DEF Loop!OwnCallsFirst
  <2>2. CASE n \notin 1 .. at[d] - 1
    <3>1. /\ Loop!Return(c) /\ (Loop!Is(c, Loop!Waited) => Loop!HasRun(<<c, at[c]>>))
          /\ pc[c] = "call" => ~Loop!Is(c, Loop!Posted \cup Loop!Waited)
      BY <1>2, <2>2 DEF LoopMoves
    <3>2. d = c /\ n = at[c] /\ n \in Nat /\ k \in Nat /\ k <= n /\ at'[c] = at[c] + 1
      BY <1>0, <1>2, <2>2, <3>1 DEF Loop!Return
    <3>3. n <= Len(Loop!Calls(c))
      BY <1>0, <3>2 DEF Loop!TypeOK
    <3>4. Loop!HasRun(<<c, n>>)
      BY <1>0, <1>2, <3>1, <3>2, <3>3 DEF Loop!Is, Loop!Finished
    <3>5. k \in 1 .. Len(Loop!Calls(c))
      BY <1>0, <3>2, <3>3
    <3>6. pc[c] # "call"
      BY <1>0, <1>2, <3>1, <3>2, <3>3 DEF Loop!Is, Loop!Finished
    <3>7. Pushed(c, k)
      BY <1>0, <3>2, <3>6 DEF Pushed
    <3> QED BY <1>1, <1>2, <3>2, <3>4, <3>5, <3>7, EarlierHaveRun
  <2> QED BY <2>1, <2>2
<1> QED BY <1>0, <1>2 DEF Loop!OwnCallsFirst, Loop!Threads

-----------------------------------------------------------------------------
(***************************************************************************)
(* The balance is the sum of what the tasks that have run came to.         *)
(***************************************************************************)
LEMMA SmallestOf ==
  ASSUME NEW R, IsWellFoundedOn(R, Nat), \A x, y \in Nat : y < x => <<y, x>> \in R
  PROVE  \A T \in SUBSET Nat : T # {} => \E x \in T : \A y \in T : x <= y
<1> SUFFICES ASSUME NEW T \in SUBSET Nat, T # {} PROVE \E x \in T : \A y \in T : x <= y
  OBVIOUS
<1>1. PICK x \in T : \A y \in T : ~ (<<y, x>> \in R)
  BY WFMin
<1>2. ASSUME NEW y \in T PROVE x <= y
  <2>1. x \in Nat /\ y \in Nat /\ ~ (<<y, x>> \in R)
    BY <1>1
  <2>2. ~ (y < x)
    BY <2>1, Zenon
  <2> QED BY <2>1, <2>2
<1> QED BY <1>2

LEMMA LessThanIsRelation == \A x, y \in Nat : y < x => <<y, x>> \in OpToRel(<, Nat)
  BY DEF OpToRel

LEMMA Smallest == \A T \in SUBSET Nat : T # {} => \E x \in T : \A y \in T : x <= y
  BY NatLessThanWellFounded, LessThanIsRelation, SmallestOf, Zenon


\* The partial sums of a
IsTotal(g, N, a) == g = [n \in 0 .. N |-> IF n = 0 THEN 0 ELSE g[n - 1] + a[n]]

LEMMA TotalSteps ==
  ASSUME NEW N \in Nat, NEW a, NEW g
  PROVE  IsTotal(g, N, a) <=> /\ g = [n \in 0 .. N |-> g[n]] /\ g[0] = 0
                              /\ \A n \in 1 .. N : g[n] = g[n - 1] + a[n]
  BY DEF IsTotal

LEMMA TotalExists ==
  ASSUME NEW N \in Nat, NEW a
  PROVE  \E g : IsTotal(g, N, a)
<1> DEFINE T == {n \in 0 .. N : ~\E g : IsTotal(g, n, a)}
<1>1. SUFFICES ASSUME T # {} PROVE FALSE
  OBVIOUS
<1>2. PICK m \in T : \A y \in T : m <= y
  <2>1. T \in SUBSET Nat
    OBVIOUS
  <2> HIDE DEF T
  <2> QED BY <1>1, <2>1, Smallest
<1>3. m \in Nat /\ ~\E g : IsTotal(g, m, a)
  OBVIOUS
<1>4. m # 0
  <2>1. IsTotal([n \in 0 .. 0 |-> 0], 0, a)
    BY DEF IsTotal
  <2> QED BY <1>3, <2>1
<1>5. PICK f : IsTotal(f, m - 1, a)
  BY <1>2, <1>3, <1>4
<1> DEFINE g == [n \in 0 .. m |-> IF n = m THEN f[m - 1] + a[m] ELSE f[n]]
<1>6. /\ f[0] = 0 /\ \A n \in 1 .. m - 1 : f[n] = f[n - 1] + a[n]
  BY <1>3, <1>4, <1>5, TotalSteps
<1>7. g = [n \in 0 .. m |-> g[n]] /\ g[0] = 0
  BY <1>3, <1>4, <1>6
<1>8. ASSUME NEW n \in 1 .. m PROVE g[n] = g[n - 1] + a[n]
  BY <1>3, <1>4, <1>6
<1> HIDE DEF g
<1>9. IsTotal(g, m, a)
  BY <1>3, <1>7, <1>8, TotalSteps
<1> QED BY <1>3, <1>9

\* The sums of a sequence that goes on are the same as far as they go.
LEMMA TotalAgrees ==
  ASSUME NEW N \in Nat, NEW M \in Nat, N <= M, NEW a, NEW b, NEW g, NEW h,
         IsTotal(g, N, a), IsTotal(h, M, b), \A n \in 1 .. N : a[n] = b[n]
  PROVE  g[N] = h[N]
<1> DEFINE T == {n \in 0 .. N : g[n] # h[n]}
<1>1. SUFFICES ASSUME T # {} PROVE FALSE
  OBVIOUS
<1>2. PICK m \in T : \A y \in T : m <= y
  <2>1. T \in SUBSET Nat
    OBVIOUS
  <2> HIDE DEF T
  <2> QED BY <1>1, <2>1, Smallest
<1>3. /\ g[0] = 0 /\ h[0] = 0 /\ \A n \in 1 .. N : g[n] = g[n - 1] + a[n]
      /\ \A n \in 1 .. M : h[n] = h[n - 1] + b[n]
  BY TotalSteps
<1>4. m # 0 /\ m \in 1 .. N /\ m \in 1 .. M /\ g[m] # h[m]
  BY <1>3
<1>5. m - 1 \in 0 .. N /\ m - 1 \notin T
  BY <1>2, <1>4
<1>6. g[m - 1] = h[m - 1]
  BY <1>5
<1> QED BY <1>3, <1>4, <1>6

Amounts == [i \in 1 .. Len(ran) |-> Loop!Amount(ran[i])]

LEMMA TotalIs ==
  ASSUME Loop!TypeOK, Loop!TypeOK'
  PROVE  /\ IsTotal(Loop!Total, Len(ran), Amounts)
         /\ IsTotal(Loop!Total', Len(ran'), Amounts')
<1>1. Len(ran) \in Nat /\ Len(ran') \in Nat
  BY DEF Loop!TypeOK
<1>2. \A g : IsTotal(g, Len(ran), Amounts) <=>
        g = [n \in 0 .. Len(ran) |-> IF n = 0 THEN 0 ELSE g[n - 1] + Loop!Amount(ran[n])]
  <2> SUFFICES ASSUME NEW g PROVE
        [n \in 0 .. Len(ran) |-> IF n = 0 THEN 0 ELSE g[n - 1] + Amounts[n]] =
        [n \in 0 .. Len(ran) |-> IF n = 0 THEN 0 ELSE g[n - 1] + Loop!Amount(ran[n])]
    BY DEF IsTotal
  <2>1. \A n \in 1 .. Len(ran) : Amounts[n] = Loop!Amount(ran[n])
    BY DEF Amounts
  <2> QED BY <1>1, <2>1
<1>3. \A g : IsTotal(g, Len(ran'), Amounts') <=>
        g = [n \in 0 .. Len(ran') |-> IF n = 0 THEN 0 ELSE g[n - 1] + Loop!Amount(ran[n])']
  <2> SUFFICES ASSUME NEW g PROVE
        [n \in 0 .. Len(ran') |-> IF n = 0 THEN 0 ELSE g[n - 1] + Amounts'[n]] =
        [n \in 0 .. Len(ran') |-> IF n = 0 THEN 0 ELSE g[n - 1] + Loop!Amount(ran[n])']
    BY DEF IsTotal
  <2>1. \A n \in 1 .. Len(ran') : Amounts'[n] = Loop!Amount(ran[n])'
    BY DEF Amounts
  <2> QED BY <1>1, <2>1
<1>4. \E g : IsTotal(g, Len(ran), Amounts)
  BY <1>1, TotalExists
<1>5. \E g : IsTotal(g, Len(ran'), Amounts')
  BY <1>1, TotalExists
<1>6. Loop!Total = [n \in 0 .. Len(ran) |->
                      IF n = 0 THEN 0 ELSE Loop!Total[n - 1] + Loop!Amount(ran[n])]
  BY <1>2, <1>4, Zenon DEF Loop!Total
<1>7. Loop!Total' = [n \in 0 .. Len(ran') |->
                      IF n = 0 THEN 0 ELSE Loop!Total'[n - 1] + Loop!Amount(ran[n])']
  BY <1>3, <1>5, Zenon DEF Loop!Total
<1> QED BY <1>2, <1>3, <1>6, <1>7

LEMMA NothingRan ==
  ASSUME program \in Loops, program' = program, Loop!TypeOK, Loop!TypeOK', Loop!NoUpdateLost,
         ran' = ran, m_balance' = m_balance
  PROVE  Loop!NoUpdateLost'
<1>1. Amounts' = Amounts
  BY CallsStay DEF Amounts, Loop!Amount
<1>2. Loop!Total[Len(ran)] = Loop!Total'[Len(ran)]
  <2>1. Len(ran) \in Nat
    BY DEF Loop!TypeOK
  <2>2. IsTotal(Loop!Total, Len(ran), Amounts) /\ IsTotal(Loop!Total', Len(ran), Amounts)
    BY <1>1, TotalIs
  <2> HIDE DEF Loop!Total
  <2> QED BY <2>1, <2>2, TotalAgrees
<1> QED BY <1>2 DEF Loop!NoUpdateLost

LEMMA OneRan ==
  ASSUME program \in Loops, program' = program, Loop!TypeOK, Loop!TypeOK', Loop!NoUpdateLost,
         NEW t \in Loop!Tasks, ran' = Append(ran, t), m_balance' = m_balance + Loop!Amount(t)
  PROVE  Loop!NoUpdateLost'
<1> DEFINE N == Len(ran)
<1>1. /\ N \in Nat /\ Len(ran') = N + 1 /\ ran'[N + 1] = t
      /\ \A n \in 1 .. N : ran'[n] = ran[n]
  BY DEF Loop!TypeOK
<1>2. \A n \in 1 .. N : Amounts[n] = Amounts'[n]
  BY <1>1, CallsStay DEF Amounts, Loop!Amount
<1>3. Amounts'[N + 1] = Loop!Amount(t)
  BY <1>1, CallsStay DEF Amounts, Loop!Amount
<1>4. IsTotal(Loop!Total, N, Amounts) /\ IsTotal(Loop!Total', N + 1, Amounts')
  BY <1>1, TotalIs
<1>5. Loop!Total[N] = Loop!Total'[N]
  BY <1>1, <1>2, <1>4, TotalAgrees
<1>6. Loop!Total'[N + 1] = Loop!Total'[N] + Loop!Amount(t)
  <2>1. \A n \in 1 .. N + 1 : Loop!Total'[n] = Loop!Total'[n - 1] + Amounts'[n]
    BY <1>1, <1>4, TotalSteps
  <2>2. N + 1 \in 1 .. N + 1 /\ (N + 1) - 1 = N
    BY <1>1
  <2> QED BY <1>3, <2>1, <2>2
<1> QED BY <1>1, <1>5, <1>6 DEF Loop!NoUpdateLost

LEMMA NoUpdateLostStep ==
  ASSUME program \in Loops, program' = program, Loop!TypeOK, Loop!TypeOK', LoopPlaces,
         Loop!NoUpdateLost,
         (\E c \in Loop!Threads : Loop!Client(c)) \/ Loop!Loop \/ Loop!Spurious
  PROVE  Loop!NoUpdateLost'
<1>1. CASE Loop!RunTask \/ Loop!RunNested
  <2>1. /\ readBuffer # <<>> /\ ran' = Append(ran, Head(readBuffer)) /\ m_balance' = m_balance
    BY <1>1 DEF Loop!RunTask, Loop!RunNested, Loop!NextIs, Loop!TaskDone, Loop!account
  <2>2. Loop!Amount(Head(readBuffer)) = 0
    BY <1>1 DEF Loop!RunTask, Loop!RunNested, Loop!NextIs, Loop!Amount
  <2>3. Head(readBuffer) \in Loop!Tasks /\ m_balance \in Int
    BY <2>1 DEF Loop!TypeOK
  <2> QED BY <2>1, <2>2, <2>3, OneRan
<1>2. CASE Loop!StoreBalance
  <2>1. /\ readBuffer # <<>> /\ ran' = Append(ran, Head(readBuffer))
        /\ m_balance' = m_balance + Loop!Amount(Head(readBuffer))
    BY <1>2 DEF Loop!StoreBalance, Loop!TaskDone, LoopPlaces
  <2>2. Head(readBuffer) \in Loop!Tasks
    BY <2>1 DEF Loop!TypeOK
  <2> QED BY <2>1, <2>2, OneRan
<1>3. CASE UNCHANGED <<ran, m_balance>>
  BY <1>3, NothingRan
<1> QED BY <1>1, <1>2, <1>3
  DEF Loop!Client, Loop!Loop, Loop!Push, Loop!NotifyOne, Loop!SyncReturn, Loop!GetFuture,
      Loop!JoinClients, Loop!JoinLoop, Loop!Test, Loop!Sleep, Loop!Swap, Loop!LoadBalance,
      Loop!Clear, Loop!Spurious, Loop!queues, Loop!account

-----------------------------------------------------------------------------
(***************************************************************************)
(* All tasks of an event loop.                                             *)
(***************************************************************************)
LoopInv ==
  /\ Loop!TypeOK /\ LoopPlaces /\ LoopOrder
  /\ Loop!NoUpdateLost /\ Loop!OwnCallsFirst

LEMMA LoopStarts ==
  ASSUME Loop!Init
  PROVE  program \in Loops /\ LoopInv
<1>1. program \in Loops
  BY DEF Loop!Init, Loops
<1>2. \A c : Loop!Calls(c) \in Seq(Ops) /\ Len(Loop!Calls(c)) \in Nat
  BY <1>1, CallsAre
<1>3. Loop!TypeOK
  <2>1. /\ m_writeBuffer = <<>> /\ readBuffer = <<>> /\ ran = <<>>
        /\ <<>> \in Seq(Loop!Tasks)
    BY DEF Loop!Init
  <2>2. m_running \in BOOLEAN /\ asleep \in BOOLEAN
    BY DEF Loop!Init
  <2>3. \A c \in Loop!Threads : at[c] \in 1 .. Len(Loop!Calls(c)) + 1
    BY <1>2 DEF Loop!Init
  <2>4. /\ loop \in {"test", "wait", "run", "update", "ended"}
        /\ m_balance \in Int /\ loaded \in Int
        /\ pc \in [Loop!Threads -> {"call", "notify", "future", "join"}]
    BY DEF Loop!Init
  <2> QED BY <2>1, <2>2, <2>3, <2>4 DEF Loop!TypeOK
<1>4. LoopPlaces
  BY DEF Loop!Init, LoopPlaces
<1>5. LoopOrder
  <2>1. Enqueued = <<>> /\ Len(Enqueued) = 0
    BY DEF Loop!Init, Enqueued
  <2>2. \A c \in Loop!Threads : \A k \in 1 .. Len(Loop!Calls(c)) : ~Pushed(c, k)
    BY <1>2 DEF Loop!Init, Pushed
  <2> QED BY <2>1, <2>2 DEF LoopOrder
<1>6. Loop!OwnCallsFirst
  BY DEF Loop!Init, Loop!OwnCallsFirst
<1>7. Loop!NoUpdateLost
  <2>1. ran = <<>> /\ Len(ran) = 0 /\ m_balance = 0
    BY DEF Loop!Init
  <2>2. \A g : IsTotal(g, Len(ran), <<>>) <=>
          g = [n \in 0 .. Len(ran) |-> IF n = 0 THEN 0 ELSE g[n - 1] + Loop!Amount(ran[n])]
    <3> SUFFICES ASSUME NEW g PROVE
          [n \in 0 .. Len(ran) |-> IF n = 0 THEN 0 ELSE g[n - 1] + <<>>[n]] =
          [n \in 0 .. Len(ran) |-> IF n = 0 THEN 0 ELSE g[n - 1] + Loop!Amount(ran[n])]
      BY DEF IsTotal
    <3> QED BY <2>1
  <2>3. \E g : IsTotal(g, Len(ran), <<>>)
    BY <2>1, TotalExists
  <2>4. Loop!Total = [n \in 0 .. Len(ran) |->
                        IF n = 0 THEN 0 ELSE Loop!Total[n - 1] + Loop!Amount(ran[n])]
    BY <2>2, <2>3, Zenon DEF Loop!Total
  <2>5. Loop!Total[0] = 0
    BY <2>1, <2>4
  <2> QED BY <2>1, <2>5 DEF Loop!NoUpdateLost
<1> QED BY <1>1, <1>3, <1>4, <1>5, <1>6, <1>7 DEF LoopInv

LEMMA LoopStep ==
  ASSUME program \in Loops, LoopInv,
         (\E c \in Loop!Threads : Loop!Client(c)) \/ Loop!Loop \/ Loop!Spurious
  PROVE  program' = program /\ LoopInv'
<1>1. program' = program /\ Loop!TypeOK' /\ LoopPlaces'
  BY LoopType DEF LoopInv
<1>2. PICK c \in Loop!Threads : LoopMoves(c)
  BY LoopMove DEF LoopInv
<1>3. LoopOrder'
  BY <1>1, <1>2, LoopOrdered DEF LoopInv
<1>4. Loop!OwnCallsFirst'
  BY <1>1, <1>2, OwnCallsStep DEF LoopInv
<1>5. Loop!NoUpdateLost'
  BY <1>1, NoUpdateLostStep DEF LoopInv
<1> QED BY <1>1, <1>3, <1>4, <1>5 DEF LoopInv

-----------------------------------------------------------------------------
(***************************************************************************)
(* The active object.  A client's tasks in the list have the numbers of    *)
(* calls it has made, each once.                                           *)
(***************************************************************************)
ActiveInv ==
  /\ Active!TypeOK /\ readBuffer = <<>>
  /\ \A i \in 1 .. Len(m_writeBuffer) : m_writeBuffer[i][2] <= at[m_writeBuffer[i][1]]
  /\ \A i, j \in 1 .. Len(m_writeBuffer) : i # j => m_writeBuffer[i] # m_writeBuffer[j]

LEMMA ResultsAreTyped ==
  ASSUME Active!TypeOK, Active!GetResults
  PROVE  futResults' \in Seq(BOOLEAN \X Numbers)
<1> DEFINE results == [k \in DOMAIN ran |-> <<Active!IsPrime(ran[k][3]), ran[k][3]>>]
<1>1. ran \in Seq(Active!Tasks) /\ DOMAIN ran = 1 .. Len(ran) /\ Len(ran) \in Nat
  BY DEF Active!TypeOK
<1>2. \A i : Active!IsPrime(i) \in BOOLEAN
  BY DEF Active!IsPrime
<1>3. \A t \in Active!Tasks : t[3] \in Numbers
  BY DEF Active!Tasks
<1>4. \A k \in DOMAIN ran : results[k] \in BOOLEAN \X Numbers
  BY <1>1, <1>2, <1>3
<1>5. PICK order \in [DOMAIN ran -> DOMAIN ran] :
        futResults' = [k \in DOMAIN ran |-> results[order[k]]]
  BY DEF Active!GetResults
<1> HIDE DEF results
<1>6. \A k \in 1 .. Len(ran) : results[order[k]] \in BOOLEAN \X Numbers
  BY <1>1, <1>4, <1>5
<1> QED BY <1>1, <1>5, <1>6

LEMMA ActiveStep ==
  ASSUME ActiveInv, readBuffer' = readBuffer,
         (\E c \in Clients : Active!Client(c)) \/ Active!RunNextTask \/ Active!Object
  PROVE  ActiveInv'
<1> DEFINE w == m_writeBuffer
<1>0. /\ w \in Seq(Active!Tasks) /\ Len(w) \in Nat /\ ran \in Seq(Active!Tasks)
      /\ at \in [Clients -> 0 .. Requests] /\ Requests \in Nat
      /\ \A t \in Active!Tasks : t[1] \in Clients /\ t[2] \in 1 .. Requests
  BY CountsAssumption DEF ActiveInv, Active!TypeOK, Active!Tasks
<1>1. ASSUME NEW c \in Clients, Active!EnqueueTask(c) PROVE ActiveInv'
  <2>1. PICK i \in Numbers : w' = Append(w, <<c, at[c] + 1, i>>)
    BY <1>1 DEF Active!EnqueueTask
  <2> DEFINE x == <<c, at[c] + 1, i>>
  <2>2. /\ at' = [at EXCEPT ![c] = at[c] + 1] /\ at[c] < Requests
        /\ UNCHANGED <<ran, loop, main, futResults>>
    BY <1>1 DEF Active!EnqueueTask, Active!RequestsLeft
  <2>3. x \in Active!Tasks
    BY <1>0, <2>2 DEF Active!Tasks
  <2>4. /\ at'[c] = at[c] + 1 /\ \A d \in Clients : d # c => at'[d] = at[d]
        /\ at' \in [Clients -> 0 .. Requests]
    BY <1>0, <2>2
  <2>5. /\ w' \in Seq(Active!Tasks) /\ Len(w') = Len(w) + 1 /\ w'[Len(w) + 1] = x
        /\ \A k \in 1 .. Len(w) : w'[k] = w[k]
    BY <1>0, <2>1, <2>3
  <2>6. Active!TypeOK'
    BY <2>2, <2>4, <2>5 DEF ActiveInv, Active!TypeOK
  <2>7. \A k \in 1 .. Len(w) : w[k] \in Active!Tasks /\ w[k][2] <= at[w[k][1]]
    BY <1>0 DEF ActiveInv
  <2>8. \A k \in 1 .. Len(w) : w[k] # x
    <3>1. x[1] = c /\ x[2] = at[c] + 1 /\ at[c] \in Nat
      BY <1>0
    <3> HIDE DEF x
    <3> QED BY <3>1, <2>7
  <2>9. \A k \in 1 .. Len(w') : k \in 1 .. Len(w) \/ k = Len(w) + 1
    BY <1>0, <2>5
  <2>10. \A k \in 1 .. Len(w') : w'[k][2] <= at'[w'[k][1]]
    <3>1. ASSUME NEW k \in 1 .. Len(w) PROVE w[k][2] <= at'[w[k][1]]
      <4>1. w[k][1] \in Clients /\ w[k][2] \in Nat /\ w[k][2] <= at[w[k][1]]
        BY <1>0, <2>7
      <4>2. at[w[k][1]] \in Nat /\ at'[w[k][1]] \in Nat /\ at[w[k][1]] <= at'[w[k][1]]
        <5>1. \A d \in Clients : at[d] \in Nat /\ at'[d] \in Nat /\ at[d] <= at'[d]
          BY <1>0, <2>4
        <5> QED BY <4>1, <5>1
      <4> HIDE DEF w
      <4> QED BY <4>1, <4>2
    <3>2. x[2] <= at'[x[1]]
      BY <1>0, <2>4
    <3> HIDE DEF x, w
    <3> QED BY <2>5, <2>9, <3>1, <3>2
  <2>11. \A k, j \in 1 .. Len(w') : k # j => w'[k] # w'[j]
    <3>1. \A k, j \in 1 .. Len(w) : k # j => w[k] # w[j]
      BY DEF ActiveInv
    <3> HIDE DEF x, w
    <3> QED BY <2>5, <2>8, <2>9, <3>1
  <2> QED BY <2>6, <2>10, <2>11 DEF ActiveInv
<1>2. CASE Active!RunNextTask
  <2>1. CASE w = <<>>
    BY <1>2, <2>1 DEF Active!RunNextTask, ActiveInv, Active!TypeOK
  <2>2. CASE w # <<>>
    <3>1. /\ w' = Tail(w) /\ ran' = Append(ran, Head(w))
          /\ UNCHANGED <<at, loop, main, futResults>>
      BY <1>2, <2>2 DEF Active!RunNextTask
    <3>2. /\ w' \in Seq(Active!Tasks) /\ Len(w') = Len(w) - 1
          /\ \A k \in 1 .. Len(w') : w'[k] = w[k + 1] /\ k + 1 \in 1 .. Len(w)
      BY <1>0, <2>2, <3>1
    <3>3. ran' \in Seq(Active!Tasks)
      BY <1>0, <2>2, <3>1
    <3>4. Active!TypeOK'
      BY <3>1, <3>2, <3>3 DEF ActiveInv, Active!TypeOK
    <3>5. \A k \in 1 .. Len(w') : w'[k][2] <= at'[w'[k][1]]
      BY <3>1, <3>2 DEF ActiveInv
    <3>6. \A k, j \in 1 .. Len(w') : k # j => w'[k] # w'[j]
      <4>1. \A k, j \in 1 .. Len(w) : k # j => w[k] # w[j]
        BY DEF ActiveInv
      <4>2. ASSUME NEW k \in 1 .. Len(w'), NEW j \in 1 .. Len(w'), k # j PROVE w'[k] # w'[j]
        <5>1. k + 1 \in 1 .. Len(w) /\ j + 1 \in 1 .. Len(w) /\ k + 1 # j + 1
          BY <1>0, <3>2, <4>2
        <5> HIDE DEF w
        <5> QED BY <3>2, <4>1, <5>1
      <4> QED BY <4>2
    <3> QED BY <3>4, <3>5, <3>6 DEF ActiveInv
  <2> QED BY <2>1, <2>2
<1>3. CASE Active!Run
  BY <1>3 DEF Active!Run, ActiveInv, Active!TypeOK
<1>4. CASE Active!GetResults
  <2>1. futResults' \in Seq(BOOLEAN \X Numbers)
    BY <1>4, ResultsAreTyped DEF ActiveInv
  <2>2. UNCHANGED <<m_writeBuffer, ran, at, loop>> /\ main' = "done"
    BY <1>4 DEF Active!GetResults
  <2> QED BY <2>1, <2>2 DEF ActiveInv, Active!TypeOK
<1> QED BY <1>1, <1>2, <1>3, <1>4 DEF Active!Client, Active!Object

-----------------------------------------------------------------------------
(***************************************************************************)
(* The three together.                                                     *)
(***************************************************************************)
TasksInv ==
  /\ program \in Loops \cup {"active", "boss"}
  /\ program \in Loops => LoopInv
  /\ program = "active" => ActiveInv
  /\ program = "boss" => BossInv

LEMMA TasksStart == Init => TasksInv
<1> SUFFICES ASSUME Init PROVE TasksInv
  OBVIOUS
<1>0. "active" \notin Loops /\ "boss" \notin Loops
  BY DEF Loops
<1>1. CASE InitLoop
  BY <1>0, <1>1, LoopStarts DEF InitLoop, TasksInv
<1>2. CASE InitActive
  <2>1. ActiveInv
    BY <1>2, CountsAssumption DEF InitActive, Active!Init, ActiveInv, Active!TypeOK
  <2> QED BY <1>0, <1>2, <2>1 DEF InitActive, TasksInv
<1>3. CASE InitBoss
  <2>1. prepared = {} /\ startWork = FALSE /\ started = {} /\ waited = 0
    BY <1>3 DEF InitBoss, Boss!Init
  <2>2. BossInv
    <3>1. startWork \in BOOLEAN
      BY <2>1
    <3>2. waited \in 0 .. Crew + 1 /\ prepared \subseteq 1 .. Crew /\ started \subseteq 1 .. Crew
      BY <2>1, CountsAssumption
    <3>3. Boss!TypeOK
      BY <3>1, <3>2 DEF Boss!TypeOK
    <3>4. \A w \in 1 .. Crew : ~(w <= waited)
      BY <2>1, CountsAssumption
    <3> QED BY <2>1, <3>3, <3>4 DEF BossInv
  <2> QED BY <1>0, <1>3, <2>2 DEF InitBoss, TasksInv
<1> QED BY <1>1, <1>2, <1>3 DEF Init

\* A step is one of the program that runs.
LEMMA TasksSteps ==
  ASSUME Next, ~UNCHANGED vars
  PROVE  \/ /\ program \in Loops
            /\ (\E c \in Loop!Threads : Loop!Client(c)) \/ Loop!Loop \/ Loop!Spurious
         \/ /\ program = "active" /\ UNCHANGED NotActive
            /\ (\E c \in Clients : Active!Client(c)) \/ Active!RunNextTask \/ Active!Object
         \/ /\ program = "boss" /\ UNCHANGED NotBoss
            /\ (\E w \in 1 .. Crew : Boss!Worker(w)) \/ Boss!Boss
  BY DEF Next, Client, Worker, Servant, Object, Spurious, Exit, Loop!Threads

LEMMA TasksStutter ==
  ASSUME TasksInv, UNCHANGED vars
  PROVE  TasksInv'
<1>0. UNCHANGED <<program, m_writeBuffer, readBuffer, m_running, asleep, loop, m_balance,
                  loaded,
                 ran, at, pc, main, futResults, prepared, startWork, started, waited>>
  BY DEF vars, loopOnly, taskState, activeOnly, bossOnly
<1>1. ASSUME program \in Loops, LoopInv PROVE LoopInv'
  <2>0. (\A c : Loop!Calls(c)' = Loop!Calls(c)) /\ Loop!Tasks' = Loop!Tasks
    BY <1>0, <1>1, CallsStay
  <2>1. Loop!TypeOK'
    BY <1>0, <1>1, <2>0 DEF LoopInv, Loop!TypeOK
  <2>2. LoopPlaces'
    BY <1>0, <1>1, <2>0 DEF LoopInv, LoopPlaces, Loop!Is, Loop!Finished
  <2>3. LoopMoves(Main) /\ Main \in Loop!Threads
    BY <1>0 DEF LoopMoves, Enqueued, Loop!Threads
  <2>4. LoopOrder' /\ Loop!OwnCallsFirst' /\ Loop!NoUpdateLost'
    BY <1>0, <1>1, <2>1, <2>3, LoopOrdered, OwnCallsStep, NothingRan DEF LoopInv
  <2> QED BY <2>1, <2>2, <2>4 DEF LoopInv
<1>2. ASSUME ActiveInv PROVE ActiveInv'
  BY <1>0, <1>2 DEF ActiveInv, Active!TypeOK
<1>3. ASSUME BossInv PROVE BossInv'
  BY <1>0, <1>3 DEF BossInv, Boss!TypeOK
<1> QED BY <1>0, <1>1, <1>2, <1>3 DEF TasksInv

LEMMA TasksStep ==
  ASSUME TasksInv, [Next]_vars
  PROVE  TasksInv' /\ program' = program
<1>0. "active" \notin Loops /\ "boss" \notin Loops
  BY DEF Loops
<1>1. CASE UNCHANGED vars
  BY <1>1, TasksStutter DEF vars
<1>2. CASE /\ program \in Loops
           /\ (\E c \in Loop!Threads : Loop!Client(c)) \/ Loop!Loop \/ Loop!Spurious
  BY <1>0, <1>2, LoopStep DEF TasksInv
<1>3. CASE /\ program = "active" /\ UNCHANGED NotActive
           /\ (\E c \in Clients : Active!Client(c)) \/ Active!RunNextTask \/ Active!Object
  <2>1. readBuffer' = readBuffer /\ program' = program
    BY <1>3 DEF NotActive, loopOnly
  <2> QED BY <1>0, <1>3, <2>1, ActiveStep DEF TasksInv
<1>4. CASE /\ program = "boss" /\ UNCHANGED NotBoss
           /\ (\E w \in 1 .. Crew : Boss!Worker(w)) \/ Boss!Boss
  <2>1. program' = program
    BY <1>4 DEF NotBoss
  <2> QED BY <1>0, <1>4, <2>1, BossStep DEF TasksInv
<1> QED BY <1>1, <1>2, <1>3, <1>4, TasksSteps

LEMMA TasksAlways == Spec => []TasksInv
<1>1. TasksInv /\ [Next]_vars => TasksInv'
  BY TasksStep
<1> QED BY <1>1, TasksStart, PTL DEF Spec

\* The state of every program keeps its type: each buffer holds tasks that some thread's
\* calls ask for, and each client is inside the list of its calls.
THEOREM TypesHold == Spec => []TypeOK
<1>1. TasksInv => TypeOK
  BY DEF TasksInv, TypeOK, LoopInv, ActiveInv, BossInv, Loops
<1> QED BY <1>1, TasksAlways, PTL

\* For any number of clients and events: the account holds the sum of all updates that
\* have run, and a thread that has the result of a synchronous call has had all its
\* earlier calls run.
THEOREM AccessIsSerialized == Spec => []Serialized
<1>1. TasksInv => Serialized
  BY DEF TasksInv, Serialized, LoopInv
<1> QED BY <1>1, TasksAlways, PTL

\* For any number of workers: nobody starts to work before everybody is prepared.
THEOREM NobodyStarts == Spec => []NobodyStartsEarly
<1>1. ASSUME BossInv, started # {} PROVE prepared = 1 .. Crew
  <2>1. waited >= Crew /\ waited \in Nat
    BY <1>1, CountsAssumption DEF BossInv, Boss!TypeOK
  <2>2. \A w \in 1 .. Crew : w \in prepared
    BY <1>1, <2>1, CountsAssumption DEF BossInv
  <2> QED BY <1>1, <2>2 DEF BossInv, Boss!TypeOK
<1>2. TasksInv => NobodyStartsEarly
  BY <1>1 DEF TasksInv, NobodyStartsEarly
<1> QED BY <1>2, TasksAlways, PTL

-----------------------------------------------------------------------------
(***************************************************************************)
(* Every program implements the bounded queue: what a step pushes is not   *)
(* in the queue yet, so that the queue is shorter than the set of tasks.   *)
(***************************************************************************)
LEMMA RoomLeft ==
  ASSUME NEW T, IsFiniteSet(T), NEW q \in Seq(T), NEW x \in T,
         \A i, j \in 1 .. Len(q) : i # j => q[i] # q[j], \A i \in 1 .. Len(q) : q[i] # x
  PROVE  Len(q) < Cardinality(T)
<1> DEFINE U == T \ {x}
<1>1. IsFiniteSet(U) /\ Cardinality(U) = Cardinality(T) - 1 /\ Cardinality(T) \in Nat
  BY FS_RemoveElement, FS_CardinalityType
<1>2. Len(q) \in Nat /\ q \in [1 .. Len(q) -> U]
  OBVIOUS
<1>3. IsFiniteSet(1 .. Len(q)) /\ Cardinality(1 .. Len(q)) = Len(q)
  BY <1>2, FS_Interval
<1>4. ~ (Cardinality(U) < Cardinality(1 .. Len(q)))
  BY <1>1, <1>2, <1>3, FS_PigeonHole
<1> HIDE DEF U
<1> QED BY <1>1, <1>2, <1>3, <1>4

LEMMA TriplesAreFinite ==
  ASSUME NEW A, NEW B, NEW C, IsFiniteSet(A), IsFiniteSet(B), IsFiniteSet(C)
  PROVE  IsFiniteSet(A \X B \X C)
<1> DEFINE P == A \X (B \X C)
           T == A \X B \X C
           f == [p \in P |-> <<p[1], p[2][1], p[2][2]>>]
<1>1. IsFiniteSet(P)
  BY FS_Product
<1>2. f \in [P -> T]
  OBVIOUS
<1>3. ASSUME NEW t \in T PROVE \E p \in P : f[p] = t
  <2>1. <<t[1], <<t[2], t[3]>>>> \in P /\ f[<<t[1], <<t[2], t[3]>>>>] = t
    OBVIOUS
  <2> QED BY <2>1
<1>4. f \in Surjection(P, T)
  BY <1>2, <1>3 DEF Surjection
<1> QED BY <1>1, <1>4, FS_Surjection

LEMMA TasksAreFinite == IsFiniteSet(Loop!Tasks) /\ IsFiniteSet(Active!Tasks)
<1>1. IsFiniteSet(1 .. Loop!MaxCalls) /\ IsFiniteSet(1 .. Requests)
  BY CountsAssumption, FS_Interval DEF Loop!MaxCalls
<1>2. IsFiniteSet(Loop!Threads)
  BY ClientsAssumption, FS_AddElement DEF Loop!Threads
<1>3. IsFiniteSet(Loop!Threads \X (1 .. Loop!MaxCalls))
  BY <1>1, <1>2, FS_Product
<1>4. IsFiniteSet(Loop!Tasks)
  BY <1>3, FS_Subset DEF Loop!Tasks
<1>5. IsFiniteSet(Active!Tasks)
  BY <1>1, ClientsAssumption, CountsAssumption, TriplesAreFinite DEF Active!Tasks
<1> QED BY <1>4, <1>5

Value == (Clients \cup {Main}) \X (1 .. Loop!MaxCalls) \cup Active!Tasks
Queue == readBuffer \o m_writeBuffer

LEMMA LoopRoom ==
  ASSUME program \in Loops, LoopInv, NEW c \in Loop!Threads, pc[c] = "call",
         <<c, at[c]>> \in Loop!Tasks
  PROVE  Len(Queue) < Cardinality(Loop!Tasks)
<1> DEFINE T == Loop!Tasks
           x == <<c, at[c]>>
<1>1. /\ ran \in Seq(T) /\ Queue \in Seq(T) /\ Enqueued = ran \o Queue
      /\ Len(ran) \in Nat /\ Len(Queue) \in Nat
  <2>1. ran \in Seq(T) /\ readBuffer \in Seq(T) /\ m_writeBuffer \in Seq(T)
    BY DEF LoopInv, Loop!TypeOK
  <2> HIDE DEF T
  <2> QED BY <2>1 DEF Queue, Enqueued
<1>2. \A i \in 1 .. Len(Queue) :
        Len(ran) + i \in 1 .. Len(Enqueued) /\ Enqueued[Len(ran) + i] = Queue[i]
  <2> HIDE DEF T
  <2> QED BY <1>1
<1>3. Enqueued \in Seq(T) /\ Len(Enqueued) \in Nat
  BY EnqueuedTasks DEF LoopInv
<1>4. \A i, j \in 1 .. Len(Enqueued) : i < j => Enqueued[i] # Enqueued[j]
  <2> SUFFICES ASSUME NEW i \in 1 .. Len(Enqueued), NEW j \in 1 .. Len(Enqueued), i < j,
                      Enqueued[i] = Enqueued[j]
               PROVE  FALSE
    OBVIOUS
  <2>1. Enqueued[i][2] < Enqueued[j][2]
    BY DEF LoopInv, LoopOrder
  <2>2. Enqueued[i][2] \in Nat
    BY EnqueuedTasks DEF LoopInv
  <2> QED BY <2>1, <2>2
<1>5. \A i \in 1 .. Len(Enqueued) : Enqueued[i] # x
  <2> SUFFICES ASSUME NEW i \in 1 .. Len(Enqueued), Enqueued[i] = x PROVE FALSE
    OBVIOUS
  <2>1. Pushed(Enqueued[i][1], Enqueued[i][2])
    BY DEF LoopInv, LoopOrder
  <2>2. Enqueued[i][1] = c /\ Enqueued[i][2] = at[c] /\ at[c] \in Nat
    BY DEF LoopInv, LoopPlaces
  <2> QED BY <2>1, <2>2 DEF Pushed
<1>6. \A i, j \in 1 .. Len(Queue) : i # j => Queue[i] # Queue[j]
  <2> SUFFICES ASSUME NEW i \in 1 .. Len(Queue), NEW j \in 1 .. Len(Queue), i < j
               PROVE  Queue[i] # Queue[j]
    BY <1>1
  <2>1. /\ Len(ran) + i \in 1 .. Len(Enqueued) /\ Len(ran) + j \in 1 .. Len(Enqueued)
        /\ Enqueued[Len(ran) + i] = Queue[i] /\ Enqueued[Len(ran) + j] = Queue[j]
    BY <1>2
  <2>2. Len(ran) + i < Len(ran) + j
    BY <1>1
  <2> QED BY <1>4, <2>1, <2>2
<1>7. \A i \in 1 .. Len(Queue) : Queue[i] # x
  BY <1>2, <1>5
<1> HIDE DEF T, x
<1>8. x \in T /\ IsFiniteSet(T)
  BY TasksAreFinite DEF T, x
<1>9. Len(Queue) < Cardinality(T)
  BY <1>1, <1>6, <1>7, <1>8, RoomLeft
<1> QED BY <1>9 DEF T

\* What a step of the loops does to the bounded queue
QueueMoves(bound) ==
  \/ \E v \in Value : /\ Len(Queue) < bound
                      /\ Queue' = Append(Queue, v) /\ ran' = ran
  \/ Queue # <<>> /\ ran' = Append(ran, Head(Queue)) /\ Queue' = Tail(Queue)
  \/ Queue' = Queue /\ ran' = ran

LEMMA LoopQueue ==
  ASSUME program \in Loops, LoopInv,
         (\E c \in Loop!Threads : Loop!Client(c)) \/ Loop!Loop \/ Loop!Spurious
  PROVE  QueueMoves(Cardinality(Loop!Tasks))
<1>1. PICK c \in Loop!Threads : LoopMoves(c)
  BY LoopMove DEF LoopInv
<1>2. CASE /\ pc[c] = "call" /\ <<c, at[c]>> \in Loop!Tasks /\ ran' = ran
           /\ Queue' = Append(Queue, <<c, at[c]>>)
  <2>1. <<c, at[c]>> \in Value
    BY <1>2 DEF Loop!Tasks, Value, Loop!Threads
  <2>2. Len(Queue) < Cardinality(Loop!Tasks)
    BY <1>2, LoopRoom
  <2> QED BY <1>2, <2>1, <2>2 DEF QueueMoves
<1> QED BY <1>1, <1>2 DEF LoopMoves, QueueMoves, Queue

LEMMA ActiveQueue ==
  ASSUME ActiveInv, readBuffer' = readBuffer,
         (\E c \in Clients : Active!Client(c)) \/ Active!RunNextTask \/ Active!Object
  PROVE  QueueMoves(Cardinality(Active!Tasks))
<1>0. /\ m_writeBuffer \in Seq(Active!Tasks) /\ readBuffer = <<>>
      /\ at \in [Clients -> 0 .. Requests] /\ Requests \in Nat
  BY CountsAssumption DEF ActiveInv, Active!TypeOK
<1>1. Queue = m_writeBuffer
  <2>1. \A T : \A w \in Seq(T) : <<>> \o w = w
    BY SwapBuffers, EmptySeq
  <2> QED BY <1>0, <2>1 DEF Queue
<1>2. Queue' = m_writeBuffer'
  <2>1. m_writeBuffer' \in Seq(Active!Tasks)
    BY ActiveStep DEF ActiveInv, Active!TypeOK
  <2>2. \A T : \A w \in Seq(T) : <<>> \o w = w
    BY SwapBuffers, EmptySeq
  <2> QED BY <1>0, <2>1, <2>2 DEF Queue
<1>3. ASSUME NEW c \in Clients, Active!EnqueueTask(c) PROVE QueueMoves(Cardinality(Active!Tasks))
  <2>1. PICK i \in Numbers : m_writeBuffer' = Append(m_writeBuffer, <<c, at[c] + 1, i>>)
    BY <1>3 DEF Active!EnqueueTask
  <2> DEFINE x == <<c, at[c] + 1, i>>
  <2>2. x \in Active!Tasks /\ ran' = ran
    BY <1>0, <1>3 DEF Active!EnqueueTask, Active!RequestsLeft, Active!Tasks
  <2>3. \A k \in 1 .. Len(m_writeBuffer) : m_writeBuffer[k] # x
    <3> SUFFICES ASSUME NEW k \in 1 .. Len(m_writeBuffer), m_writeBuffer[k] = x PROVE FALSE
      OBVIOUS
    <3>1. x[1] = c /\ x[2] = at[c] + 1 /\ at[c] \in Nat
      BY <1>0
    <3>2. x[2] <= at[x[1]]
      BY DEF ActiveInv
    <3> QED BY <3>1, <3>2
  <2>4. Len(m_writeBuffer) < Cardinality(Active!Tasks)
    <3>1. \A k, j \in 1 .. Len(m_writeBuffer) : k # j => m_writeBuffer[k] # m_writeBuffer[j]
      BY DEF ActiveInv
    <3> HIDE DEF x
    <3> QED BY <1>0, <2>2, <2>3, <3>1, TasksAreFinite, RoomLeft
  <2>5. x \in Value
    BY <2>2 DEF Value
  <2> QED BY <1>1, <1>2, <2>1, <2>2, <2>4, <2>5 DEF QueueMoves
<1>4. CASE Active!RunNextTask
  BY <1>1, <1>2, <1>4 DEF Active!RunNextTask, QueueMoves
<1>5. CASE Active!Run \/ Active!GetResults
  BY <1>1, <1>2, <1>5 DEF Active!Run, Active!GetResults, QueueMoves
<1> QED BY <1>3, <1>4, <1>5 DEF Active!Client, Active!Object

Bound == IF program \in Loops THEN Cardinality(Loop!Tasks) ELSE Cardinality(Active!Tasks)

\* Every program's tasks are run once each and in the order in which they were enqueued,
\* whatever batch they land in, for any number of clients and tasks.
THEOREM ImplementsFIFO == Spec => Implements
<1>1. Init => FIFO!Init
  <2> SUFFICES ASSUME Init PROVE FIFO!Init
    OBVIOUS
  <2>1. Bound \in Nat
    BY TasksAreFinite, FS_CardinalityType DEF Bound
  <2>2. readBuffer = <<>> /\ m_writeBuffer = <<>> /\ ran = <<>>
    BY DEF Init, InitLoop, InitActive, InitBoss, Loop!Init, Active!Init
  <2> QED BY <2>1, <2>2 DEF FIFO!Init, Bound
<1>2. TasksInv /\ [Next]_vars => [FIFO!Next]_FIFO!vars
  <2> SUFFICES ASSUME TasksInv, [Next]_vars PROVE [FIFO!Next]_FIFO!vars
    OBVIOUS
  <2>0. "active" \notin Loops /\ "boss" \notin Loops
    BY DEF Loops
  <2>1. Bound' = Bound
    <3>1. program' = program
      BY TasksStep
    <3>2. program \in Loops => Loop!Tasks' = Loop!Tasks
      BY <3>1, CallsStay
    <3> QED BY <3>1, <3>2 DEF Bound, Active!Tasks
  <2>2. QueueMoves(Bound)
    <3>1. CASE UNCHANGED vars
      BY <3>1 DEF vars, loopOnly, taskState, QueueMoves, Queue
    <3>2. CASE /\ program \in Loops
               /\ (\E c \in Loop!Threads : Loop!Client(c)) \/ Loop!Loop \/ Loop!Spurious
      BY <3>2, LoopQueue DEF TasksInv, Bound
    <3>3. CASE /\ program = "active" /\ UNCHANGED NotActive
               /\ (\E c \in Clients : Active!Client(c)) \/ Active!RunNextTask \/ Active!Object
      <4>1. readBuffer' = readBuffer
        BY <3>3 DEF NotActive, loopOnly
      <4> QED BY <2>0, <3>3, <4>1, ActiveQueue DEF TasksInv, Bound
    <3>4. CASE program = "boss" /\ UNCHANGED NotBoss
      BY <3>4 DEF NotBoss, loopOnly, taskState, QueueMoves, Queue
    <3> QED BY <3>1, <3>2, <3>3, <3>4, TasksSteps
  <2> HIDE DEF Bound, Queue, Value
  <2>3. (\E v \in Value : FIFO!Push(v)) \/ FIFO!Pop \/ UNCHANGED FIFO!vars
    <3> USE <2>1 DEF Bound, Queue, FIFO!Push, FIFO!Pop, FIFO!vars
    <3> QED BY <2>2 DEF QueueMoves
  <2> QED BY <2>3 DEF FIFO!Next, Value
<1> QED BY <1>1, <1>2, TasksAlways, PTL DEF Spec, Implements, FIFO!Spec
=============================================================================
