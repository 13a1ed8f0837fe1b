----------------------------- MODULE BoundedFIFO -----------------------------
(***************************************************************************)
(* What a bounded queue promises its producer and its consumer.            *)
(***************************************************************************)
EXTENDS Integers, Sequences

CONSTANT Value

VARIABLES bound,   \* how many elements the queue holds
          queue,   \* the elements in it
          popped   \* the elements taken out of it so far

vars == <<bound, queue, popped>>

Init == bound \in Nat /\ queue = <<>> /\ popped = <<>>

Push(v) ==
  /\ Len(queue) < bound
  /\ queue' = Append(queue, v) /\ UNCHANGED <<bound, popped>>

Pop ==
  /\ queue # <<>>
  /\ popped' = Append(popped, Head(queue)) /\ queue' = Tail(queue)
  /\ UNCHANGED bound

Next == (\E v \in Value : Push(v)) \/ Pop

Spec == Init /\ [][Next]_vars
=============================================================================
