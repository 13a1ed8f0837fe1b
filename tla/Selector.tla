------------------------------ MODULE Selector ------------------------------
(***************************************************************************)
(* The Selector class of ProducerConsumer/producer_consumer_channel, with  *)
(* one channel in its list: a thread calls add_receive and then select(),  *)
(* and any thread may call stop().  The selector's own mutex is held by    *)
(* the thread in select() alone, except while it sleeps; notify() and      *)
(* stop() do not take it.  The channel takes its mutex for each of the     *)
(* calls the selector makes, so each of them is a step.                    *)
(***************************************************************************)
EXTENDS Channel

VARIABLES channels,    \* whether the channel is in the list
          stop_flag_,
          phase,       \* in the predicate of cv.wait, or in the loop after it
          spc,         \* next step of the thread in select()
          stopping     \* next step of stop()

selectVars == <<channels, phase, spc>>
stopVars == <<stop_flag_, stopping>>
vars == <<channelVars, clientVars, selectVars, stopVars>>

SelectorInit ==
  /\ Init
  /\ channels = FALSE /\ stop_flag_ = FALSE
  /\ phase = "predicate" /\ spc = "add" /\ stopping = "no"

\* add_receive: registers with the channel and lists it.
AddReceive ==
  /\ spc = "add" /\ spc' = "loop"
  /\ Register(TRUE) /\ channels' = TRUE
  /\ UNCHANGED <<cv, phase, stopVars>>

\* while (!stop_requested())
Loop ==
  /\ spc = "loop" /\ spc' = IF stop_flag_ THEN "done" ELSE "predicate"
  /\ UNCHANGED <<channelVars, clientVars, channels, phase, stopVars>>

\* The predicate: stop_requested(), or else the channel's function.
Predicate ==
  /\ spc = "predicate" /\ spc' = "closed"
  /\ phase' = IF stop_flag_ THEN "process" ELSE "predicate"
  /\ UNCHANGED <<channelVars, clientVars, channels, stopVars>>

\* The channel's function: ch.is_closed();
Closed ==
  /\ spc = "closed" /\ spc' = IF closed THEN "unregister" ELSE "try"
  /\ UNCHANGED <<channelVars, clientVars, channels, phase, stopVars>>

\* A channel's function that returns false for a closed channel.
UnregisterOnly ==
  /\ spc = "unregister" /\ Register(FALSE)
  /\ spc' = IF phase = "predicate" THEN "sleep" ELSE "loop"
  /\ UNCHANGED <<cv, channels, phase, stopVars>>

\* ch.unregister_selector(this), returning true: it ends the wait, and the loop
\* after the wait then calls the function again and drops the channel, the last one.
Unregister ==
  /\ spc = "unregister"
  /\ Register(FALSE)
  /\ IF phase = "predicate" THEN spc' = "closed" /\ phase' = "process" /\ UNCHANGED channels
     ELSE spc' = "done" /\ channels' = FALSE /\ UNCHANGED phase
  /\ UNCHANGED <<cv, stopVars>>

\* ch.try_receive(), and the callback; returning false.
Try ==
  /\ spc = "try" /\ TryReceive
  /\ spc' = IF phase = "predicate" THEN "sleep" ELSE "loop"
  /\ phase' = "predicate"
  /\ UNCHANGED <<channels, stopVars>>

\* cv.wait goes to sleep; a notification before this step is lost.
Sleep ==
  /\ spc = "sleep" /\ spc' = "asleep" /\ cv' = TRUE
  /\ UNCHANGED <<capacity, queue, closed, waitingReceivers, cv_send, cv_recv, selectors,
                 clientVars, channels, phase, stopVars>>

\* cv.wait looks at the predicate again.
Wake ==
  /\ spc = "asleep" /\ ~cv /\ spc' = "predicate"
  /\ UNCHANGED <<channelVars, clientVars, channels, phase, stopVars>>

Select ==
  \/ AddReceive \/ Loop \/ Predicate \/ Closed \/ Unregister \/ Try \/ Sleep \/ Wake

\* stop(): sets the flag,
Stop ==
  /\ stopping = "no" /\ stopping' = "notify" /\ stop_flag_' = TRUE
  /\ UNCHANGED <<channelVars, clientVars, selectVars>>
\* and notifies.
StopNotify ==
  /\ stopping = "notify" /\ stopping' = "done" /\ cv' = FALSE
  /\ UNCHANGED <<capacity, queue, closed, waitingReceivers, cv_send, cv_recv, selectors,
                 clientVars, selectVars, stop_flag_>>

\* main joins the producers and consumers.
Finished == \A t \in Senders \cup Receivers : pc[t] = "done"
Join == Finished /\ closed /\ UNCHANGED vars

Next ==
  \/ \E t \in Senders : Producer(t) /\ UNCHANGED <<selectVars, stopVars>>
  \/ \E t \in Receivers : Consumer(t) /\ UNCHANGED <<selectVars, stopVars>>
  \/ Close /\ UNCHANGED <<selectVars, stopVars>>
  \/ Spurious /\ UNCHANGED <<selectVars, stopVars>>
  \/ Select \/ Stop \/ StopNotify \/ Join

\* Threads that can run do run, main's sleep ends, and a stop() once begun is
\* completed.  Nobody has to call stop(), and nothing relies on spurious wake-ups.
Fairness ==
  /\ \A t \in Senders : WF_vars(Producer(t) /\ UNCHANGED <<selectVars, stopVars>>)
  /\ \A t \in Receivers : WF_vars(Consumer(t) /\ UNCHANGED <<selectVars, stopVars>>)
  /\ WF_vars(Close /\ UNCHANGED <<selectVars, stopVars>>)
  /\ WF_vars(Select) /\ WF_vars(StopNotify)

Spec == SelectorInit /\ [][Next]_vars /\ Fairness

-----------------------------------------------------------------------------
SelectorTypeOK ==
  /\ TypeOK
  /\ channels \in BOOLEAN /\ stop_flag_ \in BOOLEAN
  /\ phase \in {"predicate", "process"}
  /\ spc \in {"add", "loop", "predicate", "closed", "unregister", "try", "sleep", "asleep",
              "done"}
  /\ stopping \in {"no", "notify", "done"}

\* Every accepted value is taken, and every producer and consumer returns once the
\* channel is closed: nobody is left asleep.
Drained == <>[](Finished /\ queue = 0)

\* selector.hpp:54, "The loop continues until either all channels are processed or a stop
\* is requested": when its channel is closed select() returns, whatever values other
\* threads take meanwhile, unless it found the channel open and slept only after the
\* notification of the close.
Notified == /\ spc \notin {"try", "sleep"} \/ (spc = "try" /\ phase = "process")
            /\ spc = "asleep" => ~cv
SelectReturns == (closed /\ Notified) ~> spc = "done"

\* selector.hpp:71, stop() "Stops the select operation and unblocks the select()
\* method".
StopUnblocks == stopping = "done" ~> spc = "done"
=============================================================================
