--------------------------- MODULE MessageReactor ---------------------------
(***************************************************************************)
(* Reactor/Cpp11 and Reactor/Cpp11queue: main sends messages to a thread   *)
(* that looks up the handler for their user and type and calls it.  Cpp11  *)
(* ("slot") hands over one message through an unprotected unique_ptr,      *)
(* Cpp11queue ("queue") through a queue with a condition variable.         *)
(*                                                                         *)
(* A message is the count of the round of main that made it; -1 is the one *)
(* of the constructor, 0 the one before the rounds.  The accesses to       *)
(* fresh_msg are one step each.  The use of a message that is gone, and a  *)
(* change of handler_map under a search, which does not take map_mutex,    *)
(* make the program undefined: it stops.  register_status_map, which       *)
(* nothing reads, and the time the threads sleep are left out.             *)
(***************************************************************************)
EXTENDS Integers, SequencesExt

CONSTANTS StopFirst, StopLast,   \* the rounds in which main stops the loop, 100 to 200
          Rounds                 \* the last round, 500

VARIABLES program,            \* "slot" or "queue"
          count, main,        \* round of main, and its next step
          msg_ptr,            \* the message it will send next
          old,                \* what unique_ptr's assignment will delete
          fresh_msg, msg_queue,
          deleted,            \* messages whose memory is gone
          event_loop_start,
          loop, msg,          \* next step of MessageLoop, and its message
          handler_map,        \* the keys in it
          latest,             \* history: the last message parsed,
          called,             \* the messages whose handler was called
          undefined

box == <<fresh_msg, msg_queue, deleted>>
sender == <<count, main, msg_ptr, old>>
receiver == <<loop, msg, latest, called>>
vars == <<program, sender, box, event_loop_start, receiver, handler_map, undefined>>

Null == -2
User(n) == IF n = -1 \/ (n > 0 /\ n % 2 = 0) THEN 256 ELSE 257
Type(n) == CASE n = -1 -> 0 [] n = 0 -> 1 [] OTHER -> IF n % 2 = 0 THEN n % 3 ELSE n % 7
Key(n) == <<User(n), Type(n)>>
RegisterType == 4
RemoveType == 5

\* The handlers main registers, in that order, while count is negative
Registered == <<<<256, 1>>, <<256, 0>>, <<256, 2>>, <<257, 1>>>>

\* The constructor, with message1
Init ==
  /\ program \in {"slot", "queue"}
  /\ count = -Len(Registered) /\ main = "register" /\ msg_ptr = 0 /\ old = Null
  /\ fresh_msg = (IF program = "slot" THEN -1 ELSE Null)
  /\ msg_queue = (IF program = "slot" THEN <<>> ELSE <<-1>>)
  /\ deleted = {} /\ event_loop_start = TRUE /\ loop = "start" /\ msg = Null
  /\ handler_map = {} /\ latest = Null /\ called = {} /\ undefined = FALSE

-----------------------------------------------------------------------------
\* A map changes: what a search may have met, and an iterator to the key, are gone.
Changed(k, erased) ==
  undefined' \in (IF loop = "search" THEN BOOLEAN
                  ELSE {loop = "copy" /\ erased /\ k = Key(msg)})

RegisterEventHandler ==
  /\ main = "register"
  /\ LET k == Registered[count + Len(Registered) + 1]
     IN handler_map' = handler_map \cup {k} /\ Changed(k, FALSE)
  /\ count' = count + 1 /\ main' = IF count = -1 THEN "send" ELSE "register"
  /\ UNCHANGED <<program, msg_ptr, old, box, event_loop_start, receiver>>

\* The queue's loop has msg_mutex unless it sleeps, has just been woken, or is over.
Holds == loop \notin {"start", "asleep", "woken", "ended"}

\* An OnMessage that does not notify
PushSilently ==
  /\ program = "queue" /\ main = "send" /\ ~Holds
  /\ msg_queue' = Append(msg_queue, msg_ptr) /\ main' = "prepare"
  /\ UNCHANGED <<program, count, msg_ptr, old, fresh_msg, deleted, event_loop_start, receiver, handler_map, undefined>>

\* OnMessage of the queue
Push ==
  /\ program = "queue" /\ main = "send" /\ ~Holds
  /\ msg_queue' = Append(msg_queue, msg_ptr) /\ main' = "prepare"
  /\ loop' = IF loop = "asleep" THEN "woken" ELSE loop
  /\ UNCHANGED <<program, count, msg_ptr, old, fresh_msg, deleted, event_loop_start, msg,
                 latest, called, handler_map, undefined>>

\* OnMessage of the slot: the assignment reads the old pointer,
SlotLoad ==
  /\ program = "slot" /\ main = "send" /\ main' = "store"
  /\ old' = fresh_msg
  /\ UNCHANGED <<program, count, msg_ptr, box, event_loop_start, receiver, handler_map, undefined>>

\* writes the new one,
SlotStore ==
  /\ main = "store" /\ main' = "delete"
  /\ fresh_msg' = msg_ptr /\ msg_ptr' = Null
  /\ UNCHANGED <<program, count, old, msg_queue, deleted, event_loop_start, receiver, handler_map, undefined>>

\* and deletes what it read.
SlotDelete ==
  /\ main = "delete" /\ main' = "prepare"
  /\ deleted' = deleted \cup ({old} \ {Null}) /\ undefined' = (old \in deleted)
  /\ UNCHANGED <<program, count, msg_ptr, old, fresh_msg, msg_queue, event_loop_start, receiver, handler_map>>

Advance == count' = count + 1 /\ main' = "send"

\* The message of this round; the first one was made before the rounds began.
Prepare ==
  /\ main = "prepare"
  /\ IF count = 0 THEN Advance /\ UNCHANGED msg_ptr
     ELSE msg_ptr' = count /\ main' = (IF count % 2 = 0 THEN "remove" ELSE "control") /\ UNCHANGED count
  /\ UNCHANGED <<program, old, box, event_loop_start, receiver, handler_map, undefined>>

\* A RemoveEventHandler that leaves the handler in handler_map
RemoveStatusOnly ==
  /\ main = "remove" /\ main' = "control"
  /\ UNCHANGED <<program, count, msg_ptr, old, box, event_loop_start, receiver, handler_map, undefined>>

\* main removes the handler for the message it will send.
RemoveEventHandler ==
  /\ main = "remove" /\ main' = "control"
  /\ handler_map' = handler_map \ {Key(msg_ptr)} /\ Changed(Key(msg_ptr), TRUE)
  /\ UNCHANGED <<program, count, msg_ptr, old, box, event_loop_start, receiver>>

\* stopEventHandlerThread in the rounds from StopFirst to StopLast
Stop ==
  /\ main = "control" /\ count <= StopLast /\ Advance
  /\ event_loop_start' = (event_loop_start /\ count < StopFirst)
  /\ UNCHANGED <<program, msg_ptr, old, box, receiver, handler_map, undefined>>

\* startEventHandlerThread in the later ones: the flag is set first,
Start ==
  /\ main = "control" /\ count > StopLast
  /\ event_loop_start' = TRUE
  /\ main' = (IF event_loop_start THEN "last" ELSE "join")
  /\ UNCHANGED <<program, count, msg_ptr, old, box, receiver, handler_map, undefined>>

\* then the old thread is joined and a new one started.
Restart ==
  /\ main = "join" /\ loop = "ended"
  /\ main' = "last" /\ loop' = "start"
  /\ UNCHANGED <<program, count, msg_ptr, old, box, event_loop_start, msg, latest, called, handler_map, undefined>>

\* One round too many
IsLastTooLate(n) == n > Rounds + 1

\* count > 500
IsLast(n) == n > Rounds

\* The last round stops the loop.
StopAtLast ==
  /\ main = "last"
  /\ IF IsLast(count) THEN main' = "exit" /\ event_loop_start' = FALSE /\ UNCHANGED count
     ELSE Advance /\ UNCHANGED event_loop_start
  /\ UNCHANGED <<program, msg_ptr, old, box, receiver, handler_map, undefined>>

\* ~EventHandler
Destroy ==
  /\ main = "exit" /\ loop = "ended" /\ main' = "over"
  /\ UNCHANGED <<program, count, msg_ptr, old, box, event_loop_start, receiver, handler_map, undefined>>

Main == /\ ~undefined
        /\ \/ RegisterEventHandler \/ Push \/ SlotLoad \/ SlotStore \/ SlotDelete
           \/ Prepare \/ RemoveEventHandler \/ Stop \/ Start \/ Restart \/ StopAtLast \/ Destroy

-----------------------------------------------------------------------------
\* MessageLoop; the queue's has taken msg_mutex.
Test ==
  /\ loop \in {"start", "test"}
  /\ loop' = IF ~event_loop_start THEN "ended" ELSE IF program = "slot" THEN "look" ELSE "wait"
  /\ UNCHANGED <<program, sender, box, event_loop_start, msg, latest, called, handler_map, undefined>>

\* if (fresh_msg)
Look ==
  /\ loop = "look" /\ loop' = IF fresh_msg = Null THEN "test" ELSE "type"
  /\ UNCHANGED <<program, sender, box, event_loop_start, msg, latest, called, handler_map, undefined>>

\* fresh_msg->type: the pointer is read again,
LoadType ==
  /\ loop = "type" /\ loop' = "sleep" /\ msg' = fresh_msg
  /\ UNCHANGED <<program, sender, box, event_loop_start, latest, called, handler_map, undefined>>

\* and followed; the loop sleeps.
Sleep ==
  /\ loop = "sleep" /\ loop' = "take"
  /\ undefined' = (msg \in deleted \cup {Null})
  /\ UNCHANGED <<program, sender, box, event_loop_start, msg, latest, called, handler_map>>

\* std::move(fresh_msg): the pointer is read,
Take ==
  /\ loop = "take" /\ loop' = "clear"
  /\ msg' = fresh_msg
  /\ UNCHANGED <<program, sender, box, event_loop_start, latest, called, handler_map, undefined>>

\* and set to null; ParseMessage returns if it was null.
Clear ==
  /\ loop = "clear" /\ loop' = IF msg = Null THEN "test" ELSE "parse"
  /\ fresh_msg' = Null
  /\ UNCHANGED <<program, sender, msg_queue, deleted, event_loop_start, msg, latest, called, handler_map, undefined>>

\* msg_cond.wait of the queue, which does not look at the flag
Wait ==
  /\ loop \in {"wait", "woken"} /\ msg_queue = <<>> /\ loop' = "asleep"
  /\ UNCHANGED <<program, sender, box, event_loop_start, msg, latest, called, handler_map, undefined>>

\* front and pop
TakeFront ==
  /\ loop \in {"wait", "woken"} /\ msg_queue # <<>> /\ loop' = "parse"
  /\ msg' = Head(msg_queue) /\ msg_queue' = Tail(msg_queue)
  /\ UNCHANGED <<program, sender, fresh_msg, deleted, event_loop_start, latest, called, handler_map, undefined>>

Spurious ==
  /\ ~undefined /\ loop = "asleep" /\ loop' = "woken"
  /\ UNCHANGED <<program, sender, box, event_loop_start, msg, latest, called, handler_map, undefined>>

\* ParseMessage: what the type asks for.  Nobody calls setHandler, so that there is
\* nothing to register.
Parse ==
  /\ loop = "parse" /\ latest' = msg /\ undefined' = (msg \in deleted)
  /\ loop' = IF Type(msg) \in {RegisterType, RemoveType} THEN "destroy" ELSE "search"
  /\ handler_map' = IF Type(msg) = RemoveType THEN handler_map \ {Key(msg)} ELSE handler_map
  /\ UNCHANGED <<program, sender, box, event_loop_start, msg, called>>

\* handler_map.find
Find ==
  /\ loop = "search" /\ loop' = IF Key(msg) \in handler_map THEN "copy" ELSE "destroy"
  /\ UNCHANGED <<program, sender, box, event_loop_start, msg, latest, called, handler_map, undefined>>

\* it->second, and the call
Call ==
  /\ loop = "copy" /\ loop' = "destroy" /\ called' = called \cup {msg}
  /\ UNCHANGED <<program, sender, box, event_loop_start, msg, latest, handler_map, undefined>>

\* The end of ParseMessage: the slot's owns its message.
Return ==
  /\ loop = "destroy" /\ loop' = "test"
  /\ IF program = "slot" THEN deleted' = deleted \cup {msg} /\ undefined' = (msg \in deleted)
     ELSE UNCHANGED <<deleted, undefined>>
  /\ UNCHANGED <<program, sender, fresh_msg, msg_queue, event_loop_start, msg, latest, called, handler_map>>

MessageLoop ==
  /\ ~undefined
  /\ \/ Test \/ Look \/ LoadType \/ Sleep \/ Take \/ Clear \/ Wait \/ TakeFront
     \/ Parse \/ Find \/ Call \/ Return

Next == Main \/ MessageLoop \/ Spurious

-----------------------------------------------------------------------------
Messages == -1 .. Rounds + 1

TypeOK ==
  /\ count \in -Len(Registered) .. Rounds + 1
  /\ main \in {"register", "send", "store", "delete", "prepare", "remove", "control",
               "join", "last", "exit", "over"}
  /\ {msg_ptr, old, fresh_msg, msg, latest} \subseteq Messages \cup {Null}
  /\ msg_queue \in Seq(Messages)
  /\ deleted \subseteq Messages /\ called \subseteq Messages
  /\ loop \in {"start", "test", "look", "type", "sleep", "take", "clear", "wait", "asleep",
               "woken", "parse", "search", "copy", "destroy", "ended"}
  /\ {event_loop_start, undefined} \subseteq BOOLEAN
  /\ handler_map \subseteq {256, 257} \X (0 .. 6)

\* What was sent so far to the queue: message 0 goes twice.
Sent == <<-1>> \o
  [n \in 1 .. (IF main \in {"register", "send"} THEN count ELSE count + 1) |->
     IF n <= 2 THEN 0 ELSE n - 2]
\* What the queue has of it, from the last message parsed on
Pending == (IF latest = Null THEN <<>> ELSE <<latest>>)
           \o (IF loop = "parse" THEN <<msg>> ELSE <<>>) \o msg_queue
InOrder ==
  IF program = "queue" THEN IsSuffix(Pending, Sent) /\ (latest = Null => Pending = Sent)
  ELSE loop = "parse" /\ ~undefined => latest < msg

\* main removes the handlers of user 256 before it sends them messages.
RemovedIsSilent == \A n \in called : n <= 0 \/ User(n) # 256

\* The two ways in which the thread cannot be joined: start set the flag again before
\* the loop had seen it cleared, or the loop waits for a message that never comes.
MissedStop == main = "join" /\ event_loop_start /\ loop # "ended"
WaitsAtEnd == main = "exit" /\ loop \in {"wait", "asleep", "woken"} /\ msg_queue = <<>>

Over == main = "over" \/ undefined \/ MissedStop \/ WaitsAtEnd
=============================================================================
