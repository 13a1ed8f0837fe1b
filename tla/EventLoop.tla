------------------------------ MODULE EventLoop ------------------------------
(***************************************************************************)
(* EventLoop/: a thread that runs, in order, the tasks other threads have  *)
(* put into m_writeBuffer, a batch at a time.  The programs differ in what *)
(* their threads call: Basic, EventHandlers, and AccessSerialization,      *)
(* whose ThreadSafeAccount turns an unprotected account into one that only *)
(* the loop touches.  "library" is a client of the rest of its interface.  *)
(*                                                                         *)
(* A task is the call that enqueued it: <<thread, number of the call>>.    *)
(* Pushing under m_mutex and the notification after it are two steps.      *)
(***************************************************************************)
EXTENDS Integers, Sequences

CONSTANTS Clients,   \* the threads that enqueue tasks
          Buyer,     \* one of them
          Main,
          Events     \* calls in each loop of a client

VARIABLES program,
          m_writeBuffer, readBuffer,
          m_running,
          asleep,      \* the loop sleeps on m_condVar
          loop,        \* next step of threadFunc
          m_balance, loaded,   \* the account, and the loop's copy of it
          ran,         \* history: the tasks that were run
          at,          \* the call each thread is at
          pc           \* and its next step in it

queues == <<m_writeBuffer, readBuffer, ran>>
account == <<m_balance, loaded>>
vars == <<program, queues, m_running, asleep, loop, account, at, pc>>

Threads == Clients \cup {Main}

Times(call) == [n \in 1 .. Events |-> call]

\* Basic/main.cpp
BasicCalls(c) ==
  IF c = Main THEN <<"enqueue", "async", "sync", "get", "destroy">> ELSE <<>>

\* EventHandlers/main.cpp: the handler is set before any event is emitted.
EmitCalls(c) ==
  IF c = Main THEN Times("enqueue") \o <<"join", "enqueue", "destroy">> ELSE Times("enqueue")

\* AccessSerialization/main.cpp: main reads the account past the loop.
AccountCalls(c) ==
  IF c = Main THEN <<"join", "read", "destroy">>
  ELSE IF c = Buyer THEN Times("pay") ELSE Times("acquire")

\* balance() from a client, and from a task of the loop
LibraryCalls(c) ==
  IF c = Main THEN <<"join", "destroy">>
  ELSE IF c = Buyer THEN <<"pay", "balance", "pay">> ELSE <<"acquire", "nested", "sync">>

Calls(c) == CASE program = "basic" -> BasicCalls(c)
              [] program = "handlers" -> EmitCalls(c)
              [] program = "account" -> AccountCalls(c)
              [] program = "library" -> LibraryCalls(c)

Init ==
  /\ program \in {"basic", "handlers", "account", "library"}
  /\ m_writeBuffer = <<>> /\ readBuffer = <<>> /\ m_running = TRUE
  /\ asleep = FALSE /\ loop = "test"
  /\ m_balance = 0 /\ loaded = 0 /\ ran = <<>>
  /\ at = [c \in Threads |-> 1] /\ pc = [c \in Threads |-> "call"]

-----------------------------------------------------------------------------
Finished(c) == at[c] > Len(Calls(c))
Is(c, ops) == ~Finished(c) /\ Calls(c)[at[c]] \in ops
Goto(c, step) == pc' = [pc EXCEPT ![c] = step] /\ UNCHANGED at
Return(c) == pc' = [pc EXCEPT ![c] = "call"] /\ at' = [at EXCEPT ![c] = @ + 1]

HasRun(t) == \E n \in DOMAIN ran : ran[n] = t

\* Calls that return once their task is enqueued, and calls that wait for it
Posted == {"enqueue", "async", "pay", "acquire", "nested", "destroy"}
Waited == {"sync", "balance"}

\* enqueueSync without the test for the loop's own thread
WaitsForTurnAlways(thread) == TRUE

\* enqueueSync: the loop's own thread invokes the callable at once.
WaitsForTurn(thread) == thread # "loop"

\* A pay() that goes straight to the account
PayDirectly(c) ==
  /\ pc[c] = "call" /\ Is(c, Posted \cup Waited)
  /\ IF Is(c, {"pay"}) THEN m_balance' = m_balance - at[c] /\ UNCHANGED m_writeBuffer
     ELSE m_writeBuffer' = Append(m_writeBuffer, <<c, at[c]>>) /\ UNCHANGED m_balance
  /\ Goto(c, "notify")
  /\ UNCHANGED <<program, readBuffer, ran, m_running, asleep, loop, loaded>>

\* enqueue: emplace_back, under m_mutex
Push(c) ==
  /\ pc[c] = "call" /\ Is(c, Posted \cup Waited)
  /\ Is(c, Waited) => WaitsForTurn(c)
  /\ m_writeBuffer' = Append(m_writeBuffer, <<c, at[c]>>)
  /\ Goto(c, "notify")
  /\ UNCHANGED <<program, readBuffer, ran, m_running, asleep, loop, account>>

\* enqueue: notify_one.  An asynchronous call returns here, the others go on.
NotifyOne(c) ==
  /\ pc[c] = "notify"
  /\ asleep' = FALSE
  /\ IF Is(c, Waited) THEN Goto(c, "future")
     ELSE IF Is(c, {"destroy"}) THEN Goto(c, "join") ELSE Return(c)
  /\ UNCHANGED <<program, queues, m_running, loop, account>>

\* enqueueSync: get_future().get()
SyncReturn(c) ==
  /\ pc[c] = "future" /\ HasRun(<<c, at[c]>>)
  /\ Return(c)
  /\ UNCHANGED <<program, queues, m_running, asleep, loop, account>>

\* get() of a future that enqueueAsync returned
GetFuture(c) ==
  /\ pc[c] = "call" /\ Is(c, {"get"})
  /\ \A n \in 1 .. at[c] : Calls(c)[n] = "async" => HasRun(<<c, n>>)
  /\ Return(c)
  /\ UNCHANGED <<program, queues, m_running, asleep, loop, account>>

\* main joins its threads, or reads the balance whatever the loop is doing.
JoinClients(c) ==
  /\ pc[c] = "call"
  /\ Is(c, {"read"}) \/ (Is(c, {"join"}) /\ \A d \in Clients : Finished(d))
  /\ Return(c)
  /\ UNCHANGED <<program, queues, m_running, asleep, loop, account>>

\* ~EventLoop: m_thread.join(), after the stop task was enqueued
JoinLoop(c) ==
  /\ pc[c] = "join" /\ loop = "ended"
  /\ Return(c)
  /\ UNCHANGED <<program, queues, m_running, asleep, loop, account>>

Client(c) == \/ Push(c) \/ NotifyOne(c) \/ SyncReturn(c) \/ GetFuture(c)
             \/ JoinClients(c) \/ JoinLoop(c)

-----------------------------------------------------------------------------
\* threadFunc: while (m_running)
Test ==
  /\ loop = "test" /\ loop' = IF m_running THEN "wait" ELSE "ended"
  /\ UNCHANGED <<program, queues, m_running, asleep, account, at, pc>>

\* m_condVar.wait: the predicate is false.
Sleep ==
  /\ loop = "wait" /\ ~asleep /\ m_writeBuffer = <<>>
  /\ asleep' = TRUE
  /\ UNCHANGED <<program, queues, m_running, loop, account, at, pc>>

Spurious ==
  /\ asleep /\ asleep' = FALSE
  /\ UNCHANGED <<program, queues, m_running, loop, account, at, pc>>

\* A swap that takes the newest task first
SwapReversed ==
  /\ loop = "wait" /\ ~asleep /\ m_writeBuffer # <<>>
  /\ readBuffer' = [n \in DOMAIN m_writeBuffer |-> m_writeBuffer[Len(m_writeBuffer) + 1 - n]]
  /\ m_writeBuffer' = <<>> /\ loop' = "run"
  /\ UNCHANGED <<program, ran, m_running, asleep, account, at, pc>>

\* std::swap; readBuffer has been cleared.
Swap ==
  /\ loop = "wait" /\ ~asleep /\ m_writeBuffer # <<>>
  /\ readBuffer' = m_writeBuffer /\ m_writeBuffer' = <<>> /\ loop' = "run"
  /\ UNCHANGED <<program, ran, m_running, asleep, account, at, pc>>

NextIs(ops) ==
  loop = "run" /\ readBuffer # <<>> /\ Calls(Head(readBuffer)[1])[Head(readBuffer)[2]] \in ops
TaskDone ==
  /\ readBuffer' = Tail(readBuffer) /\ ran' = Append(ran, Head(readBuffer))
  /\ UNCHANGED m_writeBuffer

\* func(), a packaged_task included; the task of ~EventLoop stops the loop.
RunTask ==
  /\ NextIs({"enqueue", "async", "sync", "balance", "destroy"}) /\ TaskDone
  /\ m_running' = (m_running /\ ~NextIs({"destroy"}))
  /\ UNCHANGED <<program, asleep, loop, account, at, pc>>

\* A task that calls balance() of the account it runs for
RunNested ==
  /\ NextIs({"nested"}) /\ ~WaitsForTurn("loop") /\ TaskDone
  /\ UNCHANGED <<program, m_running, asleep, loop, account, at, pc>>

\* ThreadUnsafeAccount's pay and acquire: m_balance is read,
LoadBalance ==
  /\ NextIs({"pay", "acquire"}) /\ loop' = "update"
  /\ loaded' = m_balance
  /\ UNCHANGED <<program, queues, m_running, asleep, m_balance, at, pc>>

Amount(t) == CASE Calls(t[1])[t[2]] = "pay" -> -t[2]
               [] Calls(t[1])[t[2]] = "acquire" -> t[2]
               [] OTHER -> 0

\* and written.
StoreBalance ==
  /\ loop = "update" /\ loop' = "run" /\ TaskDone
  /\ m_balance' = loaded + Amount(Head(readBuffer))
  /\ UNCHANGED <<program, m_running, asleep, loaded, at, pc>>

\* readBuffer.clear()
Clear ==
  /\ loop = "run" /\ readBuffer = <<>> /\ loop' = "test"
  /\ UNCHANGED <<program, queues, m_running, asleep, account, at, pc>>

Loop == \/ Test \/ Sleep \/ Swap \/ RunTask \/ RunNested
        \/ LoadBalance \/ StoreBalance \/ Clear

Next == (\E c \in Threads : Client(c)) \/ Loop \/ Spurious

-----------------------------------------------------------------------------
MaxCalls == Events + 5
Tasks == {t \in Threads \X (1 .. MaxCalls) :
            t[2] <= Len(Calls(t[1])) /\ Calls(t[1])[t[2]] \in Posted \cup Waited}

TypeOK ==
  /\ m_writeBuffer \in Seq(Tasks) /\ readBuffer \in Seq(Tasks) /\ ran \in Seq(Tasks)
  /\ m_running \in BOOLEAN /\ asleep \in BOOLEAN
  /\ loop \in {"test", "wait", "run", "update", "ended"}
  /\ m_balance \in Int /\ loaded \in Int
  /\ \A c \in Threads : at[c] \in 1 .. Len(Calls(c)) + 1
  /\ pc \in [Threads -> {"call", "notify", "future", "join"}]

Total[n \in 0 .. Len(ran)] == IF n = 0 THEN 0 ELSE Total[n - 1] + Amount(ran[n])
\* Only the loop touches the account: no update is lost.
NoUpdateLost == m_balance = Total[Len(ran)]

\* A thread that has got the result of a synchronous call has had all its earlier
\* calls run as well.
OwnCallsFirst ==
  \A c \in Threads : \A n \in 1 .. at[c] - 1 :
    Calls(c)[n] \in Waited =>
      \A k \in 1 .. n : Calls(c)[k] \in Posted \cup Waited => HasRun(<<c, k>>)

\* Every task was run, the loop has stopped, and everyone has returned.
Over == /\ \A c \in Threads : Finished(c)
        /\ loop = "ended" /\ \A t \in Tasks : HasRun(t)
=============================================================================
