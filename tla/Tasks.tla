-------------------------------- MODULE Tasks --------------------------------
(***************************************************************************)
(* The programs in which one thread runs what others ask for: the event    *)
(* loops, the active object, and the boss who starts his workers.  The     *)
(* first state picks one, which leaves the variables it does not have      *)
(* alone.                                                                  *)
(***************************************************************************)
EXTENDS Integers, FiniteSets, Sequences

CONSTANTS Clients, Buyer, Main, Events, Requests, Numbers, Crew

ASSUME ClientsAssumption ==
  IsFiniteSet(Clients) /\ Buyer \in Clients /\ Main \notin Clients \cup {"loop"}
ASSUME CountsAssumption ==
  /\ Events \in Nat \ {0} /\ Requests \in Nat /\ Crew \in Nat
  /\ Numbers \subseteq Nat /\ IsFiniteSet(Numbers)

VARIABLES program, m_writeBuffer, readBuffer, m_running, asleep, loop, m_balance,
          loaded, ran, at, pc, main, futResults, prepared, startWork, started, waited

loopOnly == <<readBuffer, m_running, asleep, m_balance, loaded, pc>>
taskState == <<m_writeBuffer, ran, at, loop>>
activeOnly == <<main, futResults>>
bossOnly == <<prepared, startWork, started, waited>>
vars == <<program, loopOnly, taskState, activeOnly, bossOnly>>

Loop == INSTANCE EventLoop
Active == INSTANCE ActiveObject WITH activationList <- m_writeBuffer, servant <- loop
Boss == INSTANCE GuardedSuspension

NotLoop == <<activeOnly, bossOnly>>
NotActive == <<program, loopOnly, bossOnly>>
NotBoss == <<program, loopOnly, taskState, activeOnly>>

InitLoop == Loop!Init /\ main = "clients" /\ futResults = <<>> /\ Boss!Init
InitActive ==
  /\ program = "active" /\ Active!Init /\ Boss!Init
  /\ readBuffer = <<>> /\ m_running = TRUE /\ asleep = FALSE
  /\ m_balance = 0 /\ loaded = 0 /\ pc = <<>>
InitBoss ==
  /\ program = "boss" /\ Active!Init /\ Boss!Init
  /\ readBuffer = <<>> /\ m_running = TRUE /\ asleep = FALSE
  /\ m_balance = 0 /\ loaded = 0 /\ pc = <<>>
Init == InitLoop \/ InitActive \/ InitBoss

Loops == {"basic", "handlers", "account", "library"}

Client(c) ==
  \/ program \in Loops /\ Loop!Client(c) /\ UNCHANGED NotLoop
  \/ program = "active" /\ c \in Clients /\ Active!Client(c) /\ UNCHANGED NotActive
Worker(w) == program = "boss" /\ Boss!Worker(w) /\ UNCHANGED NotBoss
\* The thread that runs the tasks, or the boss
Servant ==
  \/ program \in Loops /\ Loop!Loop /\ UNCHANGED NotLoop
  \/ program = "active" /\ Active!RunNextTask /\ UNCHANGED NotActive
  \/ program = "boss" /\ Boss!Boss /\ UNCHANGED NotBoss
Object == program = "active" /\ Active!Object /\ UNCHANGED NotActive
Spurious == program \in Loops /\ Loop!Spurious /\ UNCHANGED NotLoop

Over ==
  CASE program \in Loops -> Loop!Over
    [] program = "active" -> Active!Over
    [] program = "boss" -> Boss!Over
Exit == Over /\ UNCHANGED vars

Next == \/ \E c \in Clients \cup {Main} : Client(c)
        \/ \E w \in 1 .. Crew : Worker(w)
        \/ Servant \/ Object \/ Spurious \/ Exit

\* A thread that can run does run: the loop's mutex is never held across a wait.
\* Nothing is assumed about spurious wake-ups.
Fairness == /\ \A c \in Clients \cup {Main} : WF_vars(Client(c))
            /\ \A w \in 1 .. Crew : WF_vars(Worker(w))
            /\ WF_vars(Servant) /\ WF_vars(Object)

Spec == Init /\ [][Next]_vars /\ Fairness

-----------------------------------------------------------------------------
TypeOK ==
  CASE program \in Loops -> Loop!TypeOK
    [] program = "active" -> Active!TypeOK
    [] program = "boss" -> Boss!TypeOK

\* Tasks are run once each, in the order in which they were enqueued, whatever batch
\* they land in and whoever enqueues at the same time.
FIFO == INSTANCE BoundedFIFO WITH
  Value <- (Clients \cup {Main}) \X (1 .. Loop!MaxCalls) \cup Active!Tasks,
  bound <- IF program \in Loops THEN Cardinality(Loop!Tasks) ELSE Cardinality(Active!Tasks),
  queue <- readBuffer \o m_writeBuffer, popped <- ran
Implements == FIFO!Spec

\* AccessSerialization: only the loop touches the account, so that no update is lost.
\* A thread that has the result of a synchronous call has had all its earlier calls
\* run as well, also the ones it did not wait for.
Serialized == program \in Loops => Loop!NoUpdateLost /\ Loop!OwnCallsFirst

\* Nobody starts to work before everybody is prepared.
NobodyStartsEarly == program = "boss" /\ started # {} => prepared = 1 .. Crew

\* Every program ends with every task run: no wake-up of the loop is lost, a task may
\* wait for another one, and nothing that was enqueued before the stop task is left.
\* The active object has then answered every request of every client, and main has
\* printed each number after the right heading.
Termination == <>[](Over /\ (program = "active" => Active!Separated))
=============================================================================
