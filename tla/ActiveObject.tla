---------------------------- MODULE ActiveObject ----------------------------
(***************************************************************************)
(* ActiveObject/activeObject.cpp: clients enqueue tasks concurrently and   *)
(* keep their futures; run() then starts a servant that runs the tasks     *)
(* with the list's mutex held and quits as soon as the list is empty.      *)
(* main waits for the results and separates the primes from the rest.      *)
(*                                                                         *)
(* A task is <<client, number of the call, argument>>.                     *)
(***************************************************************************)
EXTENDS Integers, FiniteSets, Sequences

CONSTANTS Clients,
          Requests,   \* numbers that each client asks about
          Numbers     \* what getRandNumbers chooses from

VARIABLES activationList,
          ran,          \* history: tasks whose future is ready, in that order
          at,           \* futures each client has
          servant,      \* "none", "running" or "joined"
          main,         \* next step of main
          futResults    \* main's results: <<is prime, number>>, in the end sorted

vars == <<activationList, ran, at, servant, main, futResults>>

Init ==
  /\ activationList = <<>> /\ ran = <<>> /\ at = [c \in Clients |-> 0]
  /\ servant = "none" /\ main = "clients" /\ futResults = <<>>

\* A client that asks once too often
RequestsLeftOnceMore(c) == at[c] <= Requests

\* getFutures: the numbers that are left to ask about
RequestsLeft(c) == at[c] < Requests

\* enqueueTask
EnqueueTask(c) ==
  /\ RequestsLeft(c)
  /\ \E i \in Numbers : activationList' = Append(activationList, <<c, at[c] + 1, i>>)
  /\ at' = [at EXCEPT ![c] = @ + 1]
  /\ UNCHANGED <<ran, servant, main, futResults>>

\* A main that runs the object before it has the futures
RunEarly ==
  /\ main = "clients" /\ main' = "run" /\ servant' = "running"
  /\ UNCHANGED <<activationList, ran, at, futResults>>

\* main: get() of every client's future of futures, then run()
Run ==
  /\ main = "clients" /\ \A c \in Clients : at[c] = Requests
  /\ main' = "run" /\ servant' = "running"
  /\ UNCHANGED <<activationList, ran, at, futResults>>

\* runNextTask
RunNextTask ==
  /\ servant = "running"
  /\ IF activationList = <<>> THEN servant' = "joined" /\ UNCHANGED <<activationList, ran>>
     ELSE /\ ran' = Append(ran, Head(activationList))
          /\ activationList' = Tail(activationList) /\ UNCHANGED servant
  /\ UNCHANGED <<at, main, futResults>>

\* IsPrime: no divisor up to the square root
IsPrime(i) == \A j \in 2 .. i : j * j <= i => i % j # 0

\* run() returns when the jthread is joined; then main gets all results, and sorts
\* them: false is less than true.
Less(p, q) == (~p[1] /\ q[1]) \/ (p[1] = q[1] /\ p[2] < q[2])
GetResults ==
  /\ main = "run" /\ servant = "joined"
  /\ \A c \in Clients, n \in 1 .. Requests : \E k \in DOMAIN ran : ran[k][1] = c /\ ran[k][2] = n
  /\ main' = "done"
  /\ LET results == [k \in DOMAIN ran |-> <<IsPrime(ran[k][3]), ran[k][3]>>]
     IN  \E order \in [DOMAIN ran -> DOMAIN ran] :
           /\ \A j, k \in DOMAIN ran : j # k => order[j] # order[k]
           /\ \A j, k \in DOMAIN ran : j < k => ~Less(results[order[k]], results[order[j]])
           /\ futResults' = [k \in DOMAIN ran |-> results[order[k]]]
  /\ UNCHANGED <<activationList, ran, at, servant>>

Client(c) == EnqueueTask(c)
Object == Run \/ GetResults

Next == (\E c \in Clients : Client(c)) \/ Object \/ RunNextTask

-----------------------------------------------------------------------------
Tasks == Clients \X (1 .. Requests) \X Numbers

TypeOK ==
  /\ activationList \in Seq(Tasks) /\ ran \in Seq(Tasks) /\ at \in [Clients -> 0 .. Requests]
  /\ servant \in {"none", "running", "joined"} /\ main \in {"clients", "run", "done"}
  /\ futResults \in Seq(BOOLEAN \X Numbers)

\* find_if: what is printed as primes starts at the first result that says so.
Primes == SelectSeq(futResults, LAMBDA p : p[1])
NoPrimes == SelectSeq(futResults, LAMBDA p : ~p[1])

\* A number without divisors but itself and 1
Indivisible(i) == \A j \in 2 .. i - 1 : i % j # 0

\* Every number is printed once, after the right heading: the results are the
\* numbers that are not prime, followed by those that are.
Separated ==
  main = "done" =>
    /\ futResults = NoPrimes \o Primes
    /\ \A k \in DOMAIN futResults : futResults[k][1] = Indivisible(futResults[k][2])
    /\ Len(futResults) = Cardinality(Clients) * Requests

Over == main = "done"
=============================================================================
