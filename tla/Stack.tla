------------------------------- MODULE Stack -------------------------------
(***************************************************************************)
(* What a concurrent stack promises: a push adds to the top, and every pop *)
(* takes the value on the top, which nobody gets again.                    *)
(***************************************************************************)
EXTENDS Sequences

CONSTANT Value

VARIABLES stack,   \* the values in it, the top first
          popped   \* the values taken out of it

vars == <<stack, popped>>

Init == stack = <<>> /\ popped = {}

Push(v) == stack' = <<v>> \o stack /\ UNCHANGED popped

Pop ==
  /\ stack # <<>> /\ Head(stack) \notin popped
  /\ stack' = Tail(stack) /\ popped' = popped \cup {Head(stack)}

Next == (\E v \in Value : Push(v)) \/ Pop

Spec == Init /\ [][Next]_vars
=============================================================================
