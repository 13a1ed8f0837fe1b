-------------------------- MODULE RingBufferProofs --------------------------
(***************************************************************************)
(* Proofs about RingBuffer, for any size of the buffer and any messages.   *)
(***************************************************************************)
EXTENDS RingBuffer, WellFoundedInduction, TLAPS

-----------------------------------------------------------------------------
(***************************************************************************)
(* Types.                                                                  *)
(***************************************************************************)

\* The lengths and alignments that Prepare is called with.
LEMMA MessageFacts ==
  /\ Size \in Nat \ {0} /\ Len(Lens) \in Nat
  /\ \A j \in Messages : /\ Lens[j] \in Nat \ {0} /\ Aligns[j] \in Nat \ {0}
                         /\ Lens[j] <= Size
  BY SizeAssumption, MessagesAssumption DEF Messages

\* Align rounds up.
LEMMA AlignRoundsUp ==
  ASSUME NEW pos \in Nat, NEW a \in Nat \ {0}
  PROVE  Align(pos, a) \in Nat /\ Align(pos, a) >= pos
<1>1. \A x \in Nat : /\ x \div a \in Nat
                     /\ (x \div a) * a <= x /\ x < (x \div a) * a + a
  OBVIOUS
<1>2. pos + a - 1 \in Nat
  OBVIOUS
<1>3. ((pos + a - 1) \div a) * a \in Nat
  BY <1>1, <1>2
<1> QED BY <1>1, <1>2, <1>3 DEF Align

\* The steps between the beginning of Prepare and Finish, and those of its loop
Looping == {"load", "request", "recheck", "cancel", "wait"}
Placed == Looping \cup {"use", "finish"}

\* Types, and that no side works at a message after the last.
TypeInv ==
  /\ TypeOK
  /\ \A s \in Sides : pc[s] \in Placed => k[s] \in Messages

LEMMA OtherSide == \A s \in Sides : Other(s) \in Sides /\ Other(s) # s /\ Other(Other(s)) = s
  BY DEF Sides, Other

LEMMA TypeInit == Init => TypeInv
  BY MessageFacts DEF Init, TypeInv, TypeOK, Sides, Placed, Looping, Messages

LEMMA TypeStep == TypeInv /\ [Next]_vars => TypeInv'
<1> SUFFICES ASSUME TypeInv, [Next]_vars PROVE TypeInv'
  OBVIOUS
<1> USE DEF TypeInv, TypeOK
<1>1. ASSUME NEW s \in Sides, Prepare(s) PROVE TypeInv'
  <2> DEFINE pos == Align(local[s].pos, Aligns[k[s]])
             end == pos + Lens[k[s]]
             wraps == end > local[s].end /\ end > Size
  <2>1. k[s] \in Messages /\ local[s].pos \in Nat
    BY <1>1, MessageFacts DEF Prepare
  <2>2. pos \in Nat /\ Lens[k[s]] \in Nat /\ Lens[k[s]] <= Size
    BY <2>1, AlignRoundsUp, MessageFacts
  <2>3. \/ wraps /\ at' = [at EXCEPT ![s] = [pos |-> 0, end |-> Lens[k[s]]]]
        \/ ~wraps /\ at' = [at EXCEPT ![s] = [pos |-> pos, end |-> end]]
    BY <1>1 DEF Prepare
  <2>4. local[s].end \in 0 .. Size /\ local[s].base \in Nat
    OBVIOUS
  <2>5. at' \in [Sides -> [pos : 0 .. Size, end : 0 .. Size]]
    <3>1. PICK p \in 0 .. Size, e \in 0 .. Size : at' = [at EXCEPT ![s] = [pos |-> p, end |-> e]]
      <4> HIDE DEF pos, TypeInv, TypeOK
      <4>1. CASE wraps
        <5>1. 0 \in 0 .. Size /\ Lens[k[s]] \in 0 .. Size
          BY <2>2, MessageFacts
        <5> QED BY <2>3, <4>1, <5>1
      <4>2. CASE ~wraps
        <5>1. pos \in 0 .. Size /\ end \in 0 .. Size
          BY <2>2, <2>4, <4>2, SizeAssumption
        <5> QED BY <2>3, <4>2, <5>1
      <4> QED BY <4>1, <4>2
    <3> QED BY <3>1
  <2>6. local' \in [Sides -> [pos : 0 .. Size, end : 0 .. Size, base : Nat]]
    <3>1. PICK b \in Nat : local' = [local EXCEPT ![s].base = b]
      <4>1. local[s].base + Size \in Nat
        BY <2>4, MessageFacts
      <4> QED BY <1>1, <2>4, <4>1 DEF Prepare
    <3> QED BY <3>1
  <2>7. \A r \in Sides : pc'[r] \in Placed => k'[r] \in Messages
    BY <1>1, <2>1 DEF Prepare, Move
  <2> QED BY <1>1, <2>5, <2>6, <2>7 DEF Prepare, Move
<1>2. ASSUME NEW s \in Sides, LoadPos(s) PROVE TypeInv'
  <2> DEFINE available == Available(s, shared[Other(s)])
  <2>1. shared[Other(s)] \in Nat /\ local[s].base \in Nat /\ at[s].end \in 0 .. Size
    BY OtherSide
  <2>2. available \in Int
    <3> HIDE DEF TypeInv, TypeOK
    <3> QED BY <2>1, SizeAssumption DEF Available
  <2>3. PICK e \in 0 .. Size : local' = [local EXCEPT ![s].end = e]
    <3>1. available >= at[s].end => Smaller(available, Size) \in 0 .. Size
      BY <2>1, <2>2, MessageFacts DEF Smaller
    <3> QED BY <1>2, <3>1 DEF LoadPos
  <2>4. local' \in [Sides -> [pos : 0 .. Size, end : 0 .. Size, base : Nat]]
    BY <2>3
  <2> QED BY <1>2, <2>1, <2>4 DEF LoadPos, Move, Placed, Looping
<1>3. ASSUME NEW s \in Sides, Request(s) PROVE TypeInv'
  BY <1>3, OtherSide DEF Request, Move, Placed, Looping
<1>4. ASSUME NEW s \in Sides, Recheck(s) PROVE TypeInv'
  BY <1>4, OtherSide DEF Recheck, Move, Placed, Looping
<1>5. ASSUME NEW s \in Sides, Cancel(s) PROVE TypeInv'
  BY <1>5, OtherSide DEF Cancel, Move, Placed, Looping
<1>6. ASSUME NEW s \in Sides, Wait(s) PROVE TypeInv'
  <2>1. sem[s] - 1 \in Nat
    BY <1>6 DEF Wait
  <2> QED BY <1>6, <2>1 DEF Wait, Move, Placed, Looping
<1>7. ASSUME NEW s \in Sides, Use(s) PROVE TypeInv'
  <2>1. k[s] \in Messages /\ at[s].end \in 0 .. Size
    BY <1>7 DEF Use, Move, Placed
  <2>2. buffer' \in [0 .. Size - 1 -> 0 .. Len(Lens)]
    BY <1>7, <2>1, MessageFacts DEF Use, Messages
  <2> QED BY <1>7, <2>1, <2>2 DEF Use, Move, Placed, Looping
<1>8. ASSUME NEW s \in Sides, Publish(s) PROVE TypeInv'
  <2>1. k[s] + 1 \in 1 .. Len(Lens) + 1
    BY <1>8, MessageFacts DEF Publish, Move, Placed, Messages
  <2>2. local[s].base + local[s].pos \in Nat
    OBVIOUS
  <2> QED BY <1>8, <2>1, <2>2 DEF Publish, Move, Placed, Looping
<1>9. ASSUME NEW s \in Sides, Exchange(s) PROVE TypeInv'
  BY <1>9 DEF Exchange, Move, Placed, Looping
<1>10. ASSUME NEW s \in Sides, Signal(s) PROVE TypeInv'
  <2>1. sem[Other(s)] + 1 \in Nat
    BY OtherSide
  <2> QED BY <1>10, <2>1, OtherSide DEF Signal, Move, Placed, Looping
<1>11. CASE UNCHANGED vars
  BY <1>11 DEF vars
<1> QED
  BY <1>1, <1>2, <1>3, <1>4, <1>5, <1>6, <1>7, <1>8, <1>9, <1>10, <1>11
  DEF Next, Side, Join

LEMMA TypeAlways == Spec => []TypeInv
  BY TypeInit, TypeStep, PTL DEF Spec

\* Every position that a Prepare returns is one of the buffer, whatever the other side
\* does meanwhile, and m_Writer.end and m_Reader.end never pass its end.
THEOREM TypeCorrect == Spec => []TypeOK
<1>1. TypeInv => TypeOK
  BY DEF TypeInv
<1> QED BY <1>1, TypeAlways, PTL

-----------------------------------------------------------------------------
(***************************************************************************)
(* The request for a signal, and the signal.                               *)
(***************************************************************************)

\* The requests of a side that it has not cancelled and whose signal it has not used up:
\* the flag, a signal on its way, and the semaphore.
Pending(s) ==
  /\ sem[s] \in 0 .. 1
  /\ shouldSignal[Other(s)] => sem[s] = 0 /\ pc[Other(s)] # "signal"
  /\ pc[Other(s)] = "signal" => sem[s] = 0
IsPending(s) == shouldSignal[Other(s)] \/ pc[Other(s)] = "signal" \/ sem[s] = 1

\* There is at most one, and there is one exactly while the side has asked.
SignalInv ==
  \A s \in Sides : Pending(s) /\ (IsPending(s) <=> pc[s] \in {"recheck", "cancel", "wait"})

LEMMA SignalInit == Init => SignalInv
  BY OtherSide DEF Init, SignalInv, Pending, IsPending, Sides

LEMMA SignalStep == TypeInv /\ SignalInv /\ [Next]_vars => SignalInv'
<1> SUFFICES ASSUME TypeInv, SignalInv, [Next]_vars PROVE SignalInv'
  OBVIOUS
<1>0. /\ pc \in [Sides -> {"prepare", "load", "request", "recheck", "cancel", "wait", "use",
                           "finish", "exchange", "signal"}]
      /\ sem \in [Sides -> Nat] /\ shouldSignal \in [Sides -> BOOLEAN]
  BY DEF TypeInv, TypeOK
<1> USE <1>0 DEF SignalInv, Pending, IsPending, Sides, Other, Move
<1>1. ASSUME NEW s \in Sides, Prepare(s) PROVE SignalInv'
  BY <1>1 DEF Prepare
<1>2. ASSUME NEW s \in Sides, LoadPos(s) PROVE SignalInv'
  BY <1>2 DEF LoadPos
<1>3. ASSUME NEW s \in Sides, Request(s) PROVE SignalInv'
  BY <1>3 DEF Request
<1>4. ASSUME NEW s \in Sides, Recheck(s) PROVE SignalInv'
  BY <1>4 DEF Recheck
<1>5. ASSUME NEW s \in Sides, Cancel(s) PROVE SignalInv'
  BY <1>5 DEF Cancel
<1>6. ASSUME NEW s \in Sides, Wait(s) PROVE SignalInv'
  BY <1>6 DEF Wait
<1>7. ASSUME NEW s \in Sides, Use(s) PROVE SignalInv'
  BY <1>7 DEF Use
<1>8. ASSUME NEW s \in Sides, Publish(s) PROVE SignalInv'
  BY <1>8 DEF Publish
<1>9. ASSUME NEW s \in Sides, Exchange(s) PROVE SignalInv'
  BY <1>9 DEF Exchange
<1>10. ASSUME NEW s \in Sides, Signal(s) PROVE SignalInv'
  BY <1>10 DEF Signal
<1>11. CASE UNCHANGED vars
  BY <1>11 DEF vars
<1> QED
  BY <1>1, <1>2, <1>3, <1>4, <1>5, <1>6, <1>7, <1>8, <1>9, <1>10, <1>11
  DEF Next, Side, Join

LEMMA SignalAlways == Spec => []SignalInv
  BY SignalInit, SignalStep, TypeAlways, PTL DEF Spec

\* std::binary_semaphore will do: neither side is ever signalled a second time before it
\* has used up the first signal, though it may cancel its request while the signal is on
\* its way.
THEOREM BinarySemaphores == Spec => []SemaphoreIsBinary
<1>1. SignalInv => SemaphoreIsBinary
  BY DEF SignalInv, Pending, SemaphoreIsBinary
<1> QED BY <1>1, SignalAlways, PTL

\* A side that sleeps has not been forgotten: its request stands, or the other side is
\* about to signal it, or has done so.
NotForgotten ==
  \A s \in Sides : pc[s] = "wait" =>
    shouldSignal[Other(s)] \/ pc[Other(s)] = "signal" \/ sem[s] = 1

THEOREM NobodyForgotten == Spec => []NotForgotten
<1>1. SignalInv => NotForgotten
  BY DEF SignalInv, IsPending, NotForgotten
<1> QED BY <1>1, SignalAlways, PTL

-----------------------------------------------------------------------------
(***************************************************************************)
(* Where the messages are.  Both sides compute the place of a message from *)
(* the place of the one before; the proof names those places.              *)
(***************************************************************************)

\* The end of message j, given that of the message before
After(e, j) ==
  LET end == Align(e.pos, Aligns[j]) + Lens[j]
  IN IF end > Size THEN [base |-> e.base + Size, pos |-> Lens[j]]
     ELSE [base |-> e.base, pos |-> end]

Ends == [base : Nat, pos : 0 .. Size]

\* The ends of the first n messages
IsLayoutUpTo(ends, n) ==
  /\ ends \in [0 .. n -> Ends]
  /\ ends[0] = [base |-> 0, pos |-> 0]
  /\ \A j \in 1 .. n : ends[j] = After(ends[j - 1], j)
IsLayout(ends) == IsLayoutUpTo(ends, Len(Lens))

\* Every set of naturals but the empty one has a smallest element; the library states it
\* of any well-founded relation, and the next three lemmas of this one.
LEMMA SmallestOf ==
  ASSUME NEW R, IsWellFoundedOn(R, Nat), \A x, y \in Nat : y < x => <<y, x>> \in R
  PROVE  \A T \in SUBSET Nat : T # {} => \E x \in T : \A y \in T : x <= y
<1> SUFFICES ASSUME NEW T \in SUBSET Nat, T # {} PROVE \E x \in T : \A y \in T : x <= y
  OBVIOUS
<1>1. PICK x \in T : \A y \in T : ~ (<<y, x>> \in R)
  BY WFMin
<1>2. ASSUME NEW y \in T PROVE x <= y
  <2>1. x \in Nat /\ y \in Nat /\ ~ (<<y, x>> \in R)
    BY <1>1
  <2>2. ~ (y < x)
    BY <2>1, Zenon
  <2> QED BY <2>1, <2>2
<1> QED BY <1>2

LEMMA LessThanIsRelation == \A x, y \in Nat : y < x => <<y, x>> \in OpToRel(<, Nat)
  BY DEF OpToRel

LEMMA Smallest == \A T \in SUBSET Nat : T # {} => \E x \in T : \A y \in T : x <= y
  BY NatLessThanWellFounded, LessThanIsRelation, SmallestOf, Zenon

\* One message on: no unit is used twice, and a message starts at the end of the one
\* before, or later in the same lap, or with the next lap.
LEMMA AfterFacts ==
  ASSUME NEW e \in Ends, NEW j \in Messages
  PROVE  /\ After(e, j) \in Ends
         /\ After(e, j).pos >= Lens[j]
         /\ e.base + e.pos <= (After(e, j).base + After(e, j).pos) - Lens[j]
         /\ After(e, j).base = e.base \/ After(e, j).base = e.base + Size
<1> DEFINE start == Align(e.pos, Aligns[j])
<1>1. /\ e.base \in Nat /\ e.pos \in 0 .. Size /\ e.pos \in Nat
      /\ Lens[j] \in Nat \ {0} /\ Lens[j] <= Size
  BY MessageFacts DEF Ends
<1>2. start \in Nat /\ start >= e.pos
  BY <1>1, AlignRoundsUp, MessageFacts
<1> HIDE DEF start
<1>3. CASE start + Lens[j] > Size
  <2>1. After(e, j) = [base |-> e.base + Size, pos |-> Lens[j]]
    BY <1>3 DEF After, start
  <2>2. After(e, j).base = e.base + Size /\ After(e, j).pos = Lens[j]
    BY <2>1
  <2>3. e.base + Size \in Nat /\ Lens[j] \in 0 .. Size
    BY <1>1, SizeAssumption
  <2>4. After(e, j) \in Ends
    BY <2>1, <2>3 DEF Ends
  <2> QED BY <1>1, <2>2, <2>4, SizeAssumption
<1>4. CASE ~(start + Lens[j] > Size)
  <2>1. After(e, j) = [base |-> e.base, pos |-> start + Lens[j]]
    BY <1>4 DEF After, start
  <2>2. After(e, j).base = e.base /\ After(e, j).pos = start + Lens[j]
    BY <2>1
  <2>3. start + Lens[j] \in 0 .. Size
    BY <1>1, <1>2, <1>4, SizeAssumption
  <2>4. After(e, j) \in Ends
    BY <1>1, <2>1, <2>3 DEF Ends
  <2> QED BY <1>1, <1>2, <2>2, <2>4, SizeAssumption
<1> QED BY <1>3, <1>4

LEMMA LayoutExists == \E ends : IsLayout(ends)
<1> DEFINE T == {n \in 0 .. Len(Lens) : ~\E ends : IsLayoutUpTo(ends, n)}
<1>1. SUFFICES ASSUME T # {} PROVE FALSE
  BY MessageFacts DEF IsLayout
<1>2. PICK m \in T : \A y \in T : m <= y
  <2>1. T \in SUBSET Nat
    BY MessageFacts
  <2> HIDE DEF T
  <2> QED BY <1>1, <2>1, Smallest
<1>3. m \in 0 .. Len(Lens) /\ ~\E ends : IsLayoutUpTo(ends, m)
  OBVIOUS
<1>4. m # 0
  <2> DEFINE f == [i \in 0 .. 0 |-> [base |-> 0, pos |-> 0]]
  <2>1. [base |-> 0, pos |-> 0] \in Ends
    BY SizeAssumption DEF Ends
  <2>2. f \in [0 .. 0 -> Ends] /\ f[0] = [base |-> 0, pos |-> 0]
    BY <2>1
  <2> HIDE DEF f
  <2>3. IsLayoutUpTo(f, 0)
    BY <2>2 DEF IsLayoutUpTo
  <2> QED BY <1>3, <2>3
<1>5. m \in Messages /\ m - 1 \in 0 .. Len(Lens) /\ m - 1 \notin T
  BY <1>2, <1>3, <1>4, MessageFacts DEF Messages
<1>6. PICK f : IsLayoutUpTo(f, m - 1)
  BY <1>5
<1> DEFINE g == [i \in 0 .. m |-> IF i = m THEN After(f[m - 1], m) ELSE f[i]]
<1>7. m \in Nat /\ m > 0 /\ 0 \in 0 .. m - 1 /\ m - 1 \in 0 .. m - 1
  BY <1>5, MessageFacts DEF Messages
<1>8. \A i \in 0 .. m - 1 : i \in 0 .. m /\ g[i] = f[i] /\ f[i] \in Ends
  BY <1>6, <1>7 DEF IsLayoutUpTo
<1>9. g[m] = After(f[m - 1], m) /\ g[m] \in Ends
  <2>1. f[m - 1] \in Ends
    BY <1>7, <1>8
  <2>2. After(f[m - 1], m) \in Ends
    BY <1>5, <2>1, AfterFacts
  <2>3. m \in 0 .. m
    BY <1>7
  <2> QED BY <2>2, <2>3
<1>10. ASSUME NEW i \in 0 .. m PROVE g[i] \in Ends
  <2>1. i \in 0 .. m - 1 \/ i = m
    BY <1>7
  <2> HIDE DEF g
  <2> QED BY <1>8, <1>9, <2>1
<1>11. g \in [0 .. m -> Ends]
  BY <1>10
<1> HIDE DEF g
<1>12. g[0] = [base |-> 0, pos |-> 0]
  BY <1>6, <1>7, <1>8 DEF IsLayoutUpTo
<1>13. ASSUME NEW j \in 1 .. m PROVE g[j] = After(g[j - 1], j)
  <2>1. CASE j = m
    BY <1>7, <1>8, <1>9, <2>1
  <2>2. CASE j # m
    <3>1. j \in 0 .. m - 1 /\ j - 1 \in 0 .. m - 1 /\ j \in 1 .. m - 1
      BY <1>7, <2>2
    <3> QED BY <1>6, <1>8, <3>1 DEF IsLayoutUpTo
  <2> QED BY <2>1, <2>2
<1>14. IsLayoutUpTo(g, m)
  BY <1>11, <1>12, <1>13 DEF IsLayoutUpTo
<1> QED BY <1>3, <1>14

\* The distance of a place from the start of the first lap
Abs(e) == e.base + e.pos

LEMMA LayoutFacts ==
  ASSUME NEW ends, IsLayout(ends)
  PROVE  /\ \A j \in 0 .. Len(Lens) : /\ ends[j] \in Ends /\ Abs(ends[j]) \in Nat
                                      /\ ends[j].base \in Nat /\ ends[j].pos \in 0 .. Size
         /\ ends[0].base = 0 /\ ends[0].pos = 0
         /\ \A j \in Messages : /\ j - 1 \in 0 .. Len(Lens) /\ j \in 0 .. Len(Lens)
                                /\ ends[j] = After(ends[j - 1], j)
                                /\ ends[j].pos >= Lens[j]
                                /\ Abs(ends[j - 1]) <= Abs(ends[j]) - Lens[j]
                                /\ \/ ends[j].base = ends[j - 1].base
                                   \/ ends[j].base = ends[j - 1].base + Size
<1>1. \A j \in 0 .. Len(Lens) : ends[j] \in Ends
  BY DEF IsLayout, IsLayoutUpTo
<1>2. \A e \in Ends : e.base \in Nat /\ e.pos \in 0 .. Size /\ Abs(e) \in Nat
  BY SizeAssumption DEF Ends, Abs
<1>3. ends[0].base = 0 /\ ends[0].pos = 0
  BY DEF IsLayout, IsLayoutUpTo
<1>4. ASSUME NEW j \in Messages
      PROVE  /\ j - 1 \in 0 .. Len(Lens) /\ j \in 0 .. Len(Lens)
             /\ ends[j] = After(ends[j - 1], j)
             /\ ends[j].pos >= Lens[j]
             /\ Abs(ends[j - 1]) <= Abs(ends[j]) - Lens[j]
             /\ \/ ends[j].base = ends[j - 1].base
                \/ ends[j].base = ends[j - 1].base + Size
  <2>1. j - 1 \in 0 .. Len(Lens) /\ j \in 0 .. Len(Lens)
    BY MessageFacts DEF Messages
  <2>2. ends[j] = After(ends[j - 1], j)
    BY DEF IsLayout, IsLayoutUpTo, Messages
  <2>3. ends[j - 1] \in Ends
    BY <1>1, <2>1
  <2>4. /\ ends[j].pos >= Lens[j]
        /\ ends[j - 1].base + ends[j - 1].pos <= (ends[j].base + ends[j].pos) - Lens[j]
        /\ ends[j].base = ends[j - 1].base \/ ends[j].base = ends[j - 1].base + Size
    BY <2>2, <2>3, AfterFacts
  <2>5. Abs(ends[j - 1]) <= Abs(ends[j]) - Lens[j]
    BY <2>4, Zenon DEF Abs
  <2> QED BY <2>1, <2>2, <2>4, <2>5
<1> QED BY <1>1, <1>2, <1>3, <1>4

\* Messages further on are further on: they start at or after the end of the earlier
\* ones, in the same lap or a later one.
LEMMA LayoutIncreases ==
  ASSUME NEW ends, IsLayout(ends), NEW i \in 0 .. Len(Lens)
  PROVE  \A j \in i + 1 .. Len(Lens) :
           /\ Abs(ends[i]) <= Abs(ends[j]) - Lens[j]
           /\ \/ ends[j].base = ends[i].base
              \/ ends[j].base >= ends[i].base + Size
<1> DEFINE P(j) == /\ Abs(ends[i]) <= Abs(ends[j]) - Lens[j]
                   /\ \/ ends[j].base = ends[i].base
                      \/ ends[j].base >= ends[i].base + Size
           T == {j \in i + 1 .. Len(Lens) : ~P(j)}
<1>1. SUFFICES ASSUME T # {} PROVE FALSE
  BY Zenon
<1>2. PICK m \in T : \A y \in T : m <= y
  <2>1. T \in SUBSET Nat
    BY MessageFacts
  <2> HIDE DEF T
  <2> QED BY <1>1, <2>1, Smallest
<1>3. m \in Messages /\ m \in i + 1 .. Len(Lens) /\ ~P(m)
  BY MessageFacts DEF Messages
<1>4. /\ ends[i].base \in Nat /\ ends[m].base \in Nat /\ ends[m - 1].base \in Nat
      /\ Abs(ends[i]) \in Nat /\ Abs(ends[m]) \in Nat /\ Abs(ends[m - 1]) \in Nat
      /\ Abs(ends[m - 1]) <= Abs(ends[m]) - Lens[m]
      /\ ends[m].base = ends[m - 1].base \/ ends[m].base = ends[m - 1].base + Size
  BY <1>3, LayoutFacts
<1>5. m - 1 # i
  BY <1>3, <1>4, MessageFacts
<1>6. m - 1 \in i + 1 .. Len(Lens) /\ m - 1 \notin T
  BY <1>2, <1>3, <1>5, MessageFacts
<1>7. P(m - 1) /\ m - 1 \in Messages
  BY <1>6, MessageFacts DEF Messages
<1>8. Lens[m - 1] \in Nat /\ Lens[m] \in Nat
  BY <1>3, <1>7, MessageFacts
<1>9. Abs(ends[i]) <= Abs(ends[m]) - Lens[m]
  BY <1>4, <1>7, <1>8
<1>10. ends[m].base = ends[i].base \/ ends[m].base >= ends[i].base + Size
  <2>1. CASE ends[m - 1].base = ends[i].base
    BY <1>4, <2>1, SizeAssumption
  <2>2. CASE ends[m - 1].base >= ends[i].base + Size
    <3>1. \A a, b, c \in Nat : a >= b + Size /\ (c = a \/ c = a + Size) => c >= b + Size
      BY SizeAssumption
    <3> QED BY <1>4, <2>2, <3>1
  <2> QED BY <1>7, <2>1, <2>2
<1> QED BY <1>3, <1>9, <1>10

-----------------------------------------------------------------------------
(***************************************************************************)
(* The contents of the buffer.                                             *)
(***************************************************************************)

\* What a side knows of its place: it stays behind the end of the message it is at, and
\* has published the end of the one before.
PlaceInv(ends, s) ==
  LET last == ends[k[s] - 1]
      this == ends[k[s]]
  IN /\ shared[s] = Abs(last)
     /\ pc[s] \notin Placed => local[s].base = last.base /\ local[s].pos = last.pos
     /\ pc[s] \in Placed =>
          /\ local[s].base = this.base
          /\ local[s].pos = IF pc[s] = "finish" THEN this.pos ELSE last.pos
          /\ at[s].pos = this.pos - Lens[k[s]] /\ at[s].end = this.pos

\* What a side may use, m_Writer.end or m_Reader.end, is its to use, except in the loop,
\* where Prepare may have moved on to the next lap and end still is one of the last.
SpaceInv(s) ==
  /\ pc[s] \notin Looping => local[s].end <= Available(s, shared[Other(s)])
  /\ pc[s] \in {"use", "finish"} => at[s].end <= local[s].end

\* Message j is written, and its reader not done with it.
InBuffer(j) ==
  /\ k["reader"] <= j
  /\ j < k["writer"] \/ (j = k["writer"] /\ pc["writer"] = "finish")

ContentsInv(ends) ==
  \A j \in Messages : InBuffer(j) =>
    \A u \in ends[j].pos - Lens[j] .. ends[j].pos - 1 : buffer[u] = j

BufferInv(ends) ==
  /\ TypeInv
  /\ \A s \in Sides : PlaceInv(ends, s) /\ SpaceInv(s)
  /\ ContentsInv(ends)

LEMMA BufferInit == ASSUME NEW ends, IsLayout(ends) PROVE Init => BufferInv(ends)
<1> SUFFICES ASSUME Init PROVE BufferInv(ends)
  OBVIOUS
<1>1. ends[0].base = 0 /\ ends[0].pos = 0 /\ Abs(ends[0]) = 0
  BY LayoutFacts DEF Abs
<1>2. ASSUME NEW s \in Sides PROVE PlaceInv(ends, s) /\ SpaceInv(s)
  <2>1. /\ pc[s] = "prepare" /\ k[s] - 1 = 0 /\ shared[s] = 0 /\ shared[Other(s)] = 0
        /\ local[s].base = 0 /\ local[s].pos = 0
        /\ local[s].end = IF s = "writer" THEN Size ELSE 0
    BY OtherSide DEF Init
  <2>2. PlaceInv(ends, s)
    BY <1>1, <2>1 DEF PlaceInv, Placed, Looping
  <2>3. SpaceInv(s)
    BY <2>1, SizeAssumption DEF SpaceInv, Available
  <2> QED BY <2>2, <2>3
<1>3. ContentsInv(ends)
  BY MessageFacts DEF Init, ContentsInv, InBuffer, Sides, Messages
<1> QED BY <1>2, <1>3, TypeInit DEF BufferInv

\* The place that Prepare computes is that of the layout.
LEMMA PrepareIsAfter ==
  ASSUME NEW ends, IsLayout(ends), BufferInv(ends), NEW s \in Sides, Prepare(s)
  PROVE  /\ k[s] \in Messages
         /\ local'[s].base = ends[k[s]].base
         /\ at'[s].pos = ends[k[s]].pos - Lens[k[s]]
         /\ at'[s].end = ends[k[s]].pos
         /\ pc'[s] = "use" => /\ ends[k[s]].pos <= local[s].end
                              /\ local'[s].base = local[s].base
<1> DEFINE last == ends[k[s] - 1]
           start == Align(local[s].pos, Aligns[k[s]])
           end == start + Lens[k[s]]
<1>1. /\ k[s] \in Messages /\ pc[s] = "prepare" /\ TypeInv
      /\ local[s].base = last.base /\ local[s].pos = last.pos
  BY DEF Prepare, Move, BufferInv, PlaceInv, Placed, Looping
<1>2. ends[k[s]] = After(last, k[s])
  BY <1>1, LayoutFacts
<1>3. /\ local \in [Sides -> [pos : 0 .. Size, end : 0 .. Size, base : Nat]]
      /\ at \in [Sides -> [pos : 0 .. Size, end : 0 .. Size]]
      /\ pc \in [Sides -> {"prepare", "load", "request", "recheck", "cancel", "wait", "use",
                           "finish", "exchange", "signal"}]
  BY <1>1 DEF TypeInv, TypeOK
<1>4. /\ Lens[k[s]] \in Nat /\ local[s].end \in 0 .. Size /\ local[s].base \in Nat
      /\ start \in Nat
  <2>1. local[s].pos \in Nat /\ Aligns[k[s]] \in Nat \ {0} /\ Lens[k[s]] \in Nat
    BY <1>1, <1>3, MessageFacts
  <2>2. start \in Nat
    BY <2>1, AlignRoundsUp
  <2> QED BY <1>3, <2>1, <2>2
<1>5. /\ at' = [at EXCEPT ![s] = IF end > local[s].end /\ end > Size
                                 THEN [pos |-> 0, end |-> Lens[k[s]]]
                                 ELSE [pos |-> start, end |-> end]]
      /\ local' = [local EXCEPT ![s].base = IF end > local[s].end /\ end > Size
                                            THEN @ + Size ELSE @]
      /\ pc' = [pc EXCEPT ![s] = IF end > local[s].end THEN "load" ELSE "use"]
  BY DEF Prepare, Move
<1>6. end > Size => end > local[s].end
  <2> HIDE DEF start
  <2> QED BY <1>4, SizeAssumption
<1>7. After(last, k[s]) = IF end > Size THEN [base |-> last.base + Size, pos |-> Lens[k[s]]]
                          ELSE [base |-> last.base, pos |-> end]
  BY <1>1 DEF After
<1> HIDE DEF start, last
<1>8. CASE end > Size
  <2>1. ends[k[s]].base = last.base + Size /\ ends[k[s]].pos = Lens[k[s]]
    BY <1>2, <1>7, <1>8
  <2>2. /\ at'[s].pos = 0 /\ at'[s].end = Lens[k[s]]
        /\ local'[s].base = local[s].base + Size /\ pc'[s] = "load"
    BY <1>3, <1>5, <1>6, <1>8
  <2> QED BY <1>1, <1>4, <2>1, <2>2
<1>9. CASE ~(end > Size)
  <2>1. ends[k[s]].base = last.base /\ ends[k[s]].pos = end
    BY <1>2, <1>7, <1>9
  <2>2. /\ at'[s].pos = start /\ at'[s].end = end
        /\ local'[s].base = local[s].base
        /\ pc'[s] = IF end > local[s].end THEN "load" ELSE "use"
    BY <1>3, <1>5, <1>9
  <2>3. end - Lens[k[s]] = start /\ (~(end > local[s].end) => end <= local[s].end)
    BY <1>4
  <2> QED BY <1>1, <2>1, <2>2, <2>3
<1> QED BY <1>8, <1>9

\* A side keeps what it knows while the other one works; its space can only grow.
LEMMA SideKeeps ==
  ASSUME NEW ends, NEW r \in Sides, PlaceInv(ends, r), SpaceInv(r), TypeInv, TypeInv',
         k'[r] = k[r], pc'[r] = pc[r], local'[r] = local[r], at'[r] = at[r],
         shared'[r] = shared[r], shared'[Other(r)] >= shared[Other(r)]
  PROVE  PlaceInv(ends, r)' /\ SpaceInv(r)'
<1>1. PlaceInv(ends, r)'
  BY DEF PlaceInv
<1>2. /\ shared[Other(r)] \in Nat /\ shared'[Other(r)] \in Nat
      /\ local[r].base \in Nat /\ local[r].end \in 0 .. Size
  BY OtherSide DEF TypeInv, TypeOK
<1>3. Available(r, shared[Other(r)]) <= Available(r, shared[Other(r)])'
  BY <1>2, SizeAssumption DEF Available
<1>4. Available(r, shared[Other(r)]) \in Int /\ Available(r, shared[Other(r)])' \in Int
  BY <1>2, SizeAssumption DEF Available
<1>5. local[r].end <= Available(r, shared[Other(r)])
      => local[r].end <= Available(r, shared[Other(r)])'
  BY <1>2, <1>3, <1>4, SizeAssumption
<1>6. SpaceInv(r)'
  BY <1>5 DEF SpaceInv
<1> QED BY <1>1, <1>6

\* Steps within the loop, or between two messages, that only concern the signals
Quiet ==
  /\ UNCHANGED <<local, at, k, shared, buffer>>
  /\ \A r \in Sides : \/ pc'[r] = pc[r]
                      \/ pc[r] \in Looping /\ pc'[r] \in Looping
                      \/ pc[r] \notin Placed /\ pc'[r] \notin Placed

LEMMA QuietStep ==
  ASSUME NEW ends, BufferInv(ends), Quiet, TypeInv'
  PROVE  BufferInv(ends)'
<1>1. ASSUME NEW r \in Sides PROVE PlaceInv(ends, r)' /\ SpaceInv(r)'
  <2>1. PlaceInv(ends, r) /\ SpaceInv(r)
    BY DEF BufferInv
  <2>2. PlaceInv(ends, r)'
    BY <2>1 DEF Quiet, PlaceInv, Placed, Looping
  <2>3. Available(r, shared[Other(r)])' = Available(r, shared[Other(r)])
    BY DEF Quiet, Available
  <2>4. SpaceInv(r)'
    BY <2>1, <2>3 DEF Quiet, SpaceInv, Placed, Looping
  <2> QED BY <2>2, <2>4
<1>2. pc'["writer"] = "finish" => pc["writer"] = "finish"
  BY DEF Quiet, Sides, Placed, Looping
<1>3. ContentsInv(ends)'
  BY <1>2 DEF BufferInv, ContentsInv, InBuffer, Quiet
<1> QED BY <1>1, <1>3 DEF BufferInv

LEMMA SignalStepsAreQuiet ==
  ASSUME TypeInv, NEW s \in Sides,
         Request(s) \/ Recheck(s) \/ Cancel(s) \/ Wait(s) \/ Exchange(s) \/ Signal(s)
  PROVE  Quiet
<1> USE DEF TypeInv, TypeOK, Move, Quiet, Placed, Looping
<1>1. CASE Request(s)
  BY <1>1 DEF Request
<1>2. CASE Recheck(s)
  BY <1>2 DEF Recheck
<1>3. CASE Cancel(s)
  BY <1>3 DEF Cancel
<1>4. CASE Wait(s)
  BY <1>4 DEF Wait
<1>5. CASE Exchange(s)
  BY <1>5 DEF Exchange
<1>6. CASE Signal(s)
  BY <1>6 DEF Signal
<1> QED BY <1>1, <1>2, <1>3, <1>4, <1>5, <1>6

LEMMA PrepareStep ==
  ASSUME NEW ends, IsLayout(ends), BufferInv(ends), NEW s \in Sides, Prepare(s), TypeInv'
  PROVE  BufferInv(ends)'
<1>1. /\ TypeInv /\ PlaceInv(ends, s) /\ SpaceInv(s) /\ pc[s] = "prepare"
      /\ PlaceInv(ends, Other(s)) /\ SpaceInv(Other(s))
  BY OtherSide DEF BufferInv, Prepare, Move
<1>2. /\ UNCHANGED <<k, shared, buffer>> /\ pc'[s] \in {"load", "use"}
      /\ local'[s].pos = local[s].pos /\ local'[s].end = local[s].end
      /\ \A r \in Sides \ {s} : /\ pc'[r] = pc[r] /\ at'[r] = at[r] /\ local'[r] = local[r]
  BY <1>1 DEF Prepare, Move, TypeInv, TypeOK
<1>3. PlaceInv(ends, s)'
  BY <1>1, <1>2, PrepareIsAfter DEF PlaceInv, Placed, Looping
<1>4. SpaceInv(s)'
  <2>1. CASE pc'[s] = "load"
    BY <2>1 DEF SpaceInv, Looping
  <2>2. CASE pc'[s] = "use"
    <3>1. local'[s].base = local[s].base /\ at'[s].end <= local[s].end
      BY <2>2, PrepareIsAfter
    <3>2. Available(s, shared[Other(s)])' = Available(s, shared[Other(s)])
      BY <1>2, <3>1 DEF Available
    <3> QED BY <1>1, <1>2, <2>2, <3>1, <3>2 DEF SpaceInv, Looping
  <2> QED BY <1>2, <2>1, <2>2
<1>5. PlaceInv(ends, Other(s))' /\ SpaceInv(Other(s))'
  <2>1. shared'[s] = shared[s] /\ shared[s] \in Nat
    BY <1>1, <1>2 DEF TypeInv, TypeOK
  <2> QED BY <1>1, <1>2, <2>1, OtherSide, SideKeeps
<1>6. ContentsInv(ends)'
  <2>1. pc'["writer"] = "finish" => pc["writer"] = "finish"
    BY <1>1, <1>2 DEF Sides
  <2> QED BY <1>2, <2>1 DEF BufferInv, ContentsInv, InBuffer
<1>7. \A r \in Sides : r = s \/ r = Other(s)
  BY DEF Sides, Other
<1> QED BY <1>3, <1>4, <1>5, <1>6, <1>7 DEF BufferInv

LEMMA LoadStep ==
  ASSUME NEW ends, IsLayout(ends), BufferInv(ends), NEW s \in Sides, LoadPos(s), TypeInv'
  PROVE  BufferInv(ends)'
<1> DEFINE available == Available(s, shared[Other(s)])
<1>1. /\ TypeInv /\ PlaceInv(ends, s) /\ SpaceInv(s) /\ pc[s] = "load"
      /\ PlaceInv(ends, Other(s)) /\ SpaceInv(Other(s))
  BY OtherSide DEF BufferInv, LoadPos, Move
<1>2. /\ UNCHANGED <<k, shared, buffer, at>> /\ pc'[s] \in {"use", "request", "load"}
      /\ local'[s].pos = local[s].pos /\ local'[s].base = local[s].base
      /\ \A r \in Sides \ {s} : /\ pc'[r] = pc[r] /\ local'[r] = local[r]
  BY <1>1 DEF LoadPos, Move, TypeInv, TypeOK
<1>3. PlaceInv(ends, s)'
  BY <1>1, <1>2 DEF PlaceInv, Placed, Looping
<1>4. SpaceInv(s)'
  <2>1. CASE pc'[s] # "use"
    BY <1>2, <2>1 DEF SpaceInv, Looping
  <2>2. CASE pc'[s] = "use"
    <3>1. available >= at[s].end /\ local'[s].end = Smaller(available, Size)
      BY <1>1, <2>2 DEF LoadPos, Move, TypeInv, TypeOK
    <3>2. /\ shared[Other(s)] \in Nat /\ local[s].base \in Nat /\ at[s].end \in 0 .. Size
      BY <1>1, OtherSide DEF TypeInv, TypeOK
    <3>3. available \in Int
      BY <3>2, SizeAssumption DEF Available
    <3>4. available' = available
      BY <1>2 DEF Available
    <3> HIDE DEF available
    <3>5. local'[s].end <= available /\ at[s].end <= local'[s].end
      BY <3>1, <3>2, <3>3, SizeAssumption DEF Smaller
    <3> QED BY <1>2, <2>2, <3>4, <3>5 DEF SpaceInv, available
  <2> QED BY <2>1, <2>2
<1>5. PlaceInv(ends, Other(s))' /\ SpaceInv(Other(s))'
  <2>1. shared'[s] = shared[s] /\ shared[s] \in Nat
    BY <1>1, <1>2 DEF TypeInv, TypeOK
  <2> QED BY <1>1, <1>2, <2>1, OtherSide, SideKeeps
<1>6. ContentsInv(ends)'
  <2>1. pc'["writer"] = "finish" => pc["writer"] = "finish"
    BY <1>1, <1>2 DEF Sides
  <2> QED BY <1>2, <2>1 DEF BufferInv, ContentsInv, InBuffer
<1>7. \A r \in Sides : r = s \/ r = Other(s)
  BY DEF Sides, Other
<1> QED BY <1>3, <1>4, <1>5, <1>6, <1>7 DEF BufferInv

\* The heart of the argument: the space that the writer is about to fill holds no message
\* that the reader still needs.  Less than a lap lies between the two.
LEMMA WriterKeepsClear ==
  ASSUME NEW ends, IsLayout(ends), BufferInv(ends), pc["writer"] = "use",
         NEW j \in Messages, k["reader"] <= j, j < k["writer"],
         NEW u \in ends[j].pos - Lens[j] .. ends[j].pos - 1
  PROVE  u \notin at["writer"].pos .. at["writer"].end - 1
<1> DEFINE w == k["writer"]
           r == k["reader"] - 1
<1>1. /\ TypeInv /\ PlaceInv(ends, "writer") /\ PlaceInv(ends, "reader") /\ SpaceInv("writer")
  BY DEF BufferInv, Sides
<1>2. w \in Messages /\ k["reader"] \in 1 .. Len(Lens) + 1 /\ local["writer"].base \in Nat
  BY <1>1 DEF TypeInv, TypeOK, Placed, Looping, Sides
<1>3. r \in 0 .. Len(Lens) /\ j \in r + 1 .. Len(Lens) /\ w \in j + 1 .. Len(Lens)
      /\ j \in 0 .. Len(Lens) /\ w \in 0 .. Len(Lens)
  BY <1>2, MessageFacts DEF Messages
<1>4. /\ ends[j].base \in Nat /\ ends[j].pos \in 0 .. Size /\ Lens[j] \in Nat
      /\ ends[w].base \in Nat /\ ends[w].pos \in 0 .. Size /\ Lens[w] \in Nat
      /\ Abs(ends[r]) \in Nat /\ Abs(ends[j]) \in Nat /\ Abs(ends[w]) \in Nat
  BY <1>2, <1>3, LayoutFacts, MessageFacts
<1>5. Abs(ends[r]) <= Abs(ends[j]) - Lens[j]
  BY <1>3, LayoutIncreases
<1>6. /\ Abs(ends[j]) <= Abs(ends[w]) - Lens[w]
      /\ ends[w].base = ends[j].base \/ ends[w].base >= ends[j].base + Size
  BY <1>3, LayoutIncreases
<1>7. Abs(ends[w]) <= Abs(ends[r]) + Size
  <2>1. ends[w].pos <= local["writer"].end /\ local["writer"].base = ends[w].base
    BY <1>1 DEF SpaceInv, PlaceInv, Placed, Looping
  <2>2. local["writer"].end <= (shared["reader"] - ends[w].base) + Size
    BY <1>1, <2>1 DEF SpaceInv, Available, Other, Looping
  <2>3. shared["reader"] = Abs(ends[r])
    BY <1>1 DEF PlaceInv
  <2>4. local["writer"].end \in 0 .. Size
    BY <1>1 DEF TypeInv, TypeOK, Sides
  <2>5. Abs(ends[w]) = ends[w].base + ends[w].pos
    BY DEF Abs
  <2> HIDE DEF w, r
  <2> QED BY <1>4, <2>1, <2>2, <2>3, <2>4, <2>5, SizeAssumption
<1>8. at["writer"].pos = ends[w].pos - Lens[w] /\ at["writer"].end = ends[w].pos
  BY <1>1 DEF PlaceInv, Placed, Looping
<1>9. Abs(ends[w]) = ends[w].base + ends[w].pos /\ Abs(ends[j]) = ends[j].base + ends[j].pos
  BY DEF Abs
<1> HIDE DEF w, r
<1>10. SUFFICES ASSUME u \in ends[w].pos - Lens[w] .. ends[w].pos - 1 PROVE FALSE
  BY <1>8
<1>11. CASE ends[w].base = ends[j].base
  BY <1>4, <1>6, <1>9, <1>10, <1>11
<1>12. CASE ends[w].base >= ends[j].base + Size
  BY <1>4, <1>5, <1>7, <1>9, <1>10, <1>12, SizeAssumption
<1> QED BY <1>6, <1>11, <1>12

LEMMA UseStep ==
  ASSUME NEW ends, IsLayout(ends), BufferInv(ends), NEW s \in Sides, Use(s), TypeInv'
  PROVE  BufferInv(ends)'
<1>1. /\ TypeInv /\ PlaceInv(ends, s) /\ SpaceInv(s) /\ pc[s] = "use" /\ k[s] \in Messages
      /\ PlaceInv(ends, Other(s)) /\ SpaceInv(Other(s))
  BY OtherSide DEF BufferInv, Use, Move, TypeInv, Placed
<1>2. /\ UNCHANGED <<k, shared, at>> /\ pc'[s] = "finish"
      /\ local'[s].pos = at[s].end
      /\ local'[s].base = local[s].base /\ local'[s].end = local[s].end
      /\ \A r \in Sides \ {s} : /\ pc'[r] = pc[r] /\ local'[r] = local[r]
  BY <1>1 DEF Use, Move, TypeInv, TypeOK
<1>3. PlaceInv(ends, s)'
  BY <1>1, <1>2 DEF PlaceInv, Placed, Looping
<1>4. SpaceInv(s)'
  <2>1. Available(s, shared[Other(s)])' = Available(s, shared[Other(s)])
    BY <1>2 DEF Available
  <2> QED BY <1>1, <1>2, <2>1 DEF SpaceInv, Looping
<1>5. PlaceInv(ends, Other(s))' /\ SpaceInv(Other(s))'
  <2>1. shared'[s] = shared[s] /\ shared[s] \in Nat
    BY <1>1, <1>2 DEF TypeInv, TypeOK
  <2> QED BY <1>1, <1>2, <2>1, OtherSide, SideKeeps
<1>6. ContentsInv(ends)'
  <2> SUFFICES ASSUME NEW j \in Messages, InBuffer(j)',
                      NEW u \in ends[j].pos - Lens[j] .. ends[j].pos - 1
               PROVE  buffer'[u] = j
    BY DEF ContentsInv
  <2>1. CASE s = "reader"
    <3>1. buffer' = buffer /\ pc'["writer"] = pc["writer"]
      BY <1>2, <2>1 DEF Use, Sides
    <3>2. InBuffer(j)
      BY <1>2, <3>1 DEF InBuffer
    <3> QED BY <3>1, <3>2 DEF BufferInv, ContentsInv
  <2>2. CASE s = "writer"
    <3>1. u \in 0 .. Size - 1
      <4>1. ends[j].pos \in 0 .. Size /\ ends[j].pos >= Lens[j] /\ Lens[j] \in Nat
        BY LayoutFacts, MessageFacts
      <4> QED BY <4>1, SizeAssumption
    <3>2. buffer'[u] = IF u \in at["writer"].pos .. at["writer"].end - 1
                       THEN k["writer"] ELSE buffer[u]
      BY <2>2, <3>1 DEF Use
    <3>3. CASE j = k["writer"]
      <4>1. at["writer"].pos = ends[j].pos - Lens[j] /\ at["writer"].end = ends[j].pos
        BY <1>1, <2>2, <3>3 DEF PlaceInv, Placed, Looping
      <4> QED BY <3>2, <3>3, <4>1
    <3>4. CASE j < k["writer"]
      <4>1. u \notin at["writer"].pos .. at["writer"].end - 1
        BY <1>1, <1>2, <2>2, <3>4, WriterKeepsClear DEF InBuffer
      <4>2. InBuffer(j)
        BY <1>2, <3>4 DEF InBuffer
      <4> QED BY <3>2, <4>1, <4>2 DEF BufferInv, ContentsInv
    <3> QED BY <1>2, <3>3, <3>4 DEF InBuffer
  <2> QED BY <2>1, <2>2 DEF Sides
<1>7. \A r \in Sides : r = s \/ r = Other(s)
  BY DEF Sides, Other
<1> QED BY <1>3, <1>4, <1>5, <1>6, <1>7 DEF BufferInv

LEMMA PublishStep ==
  ASSUME NEW ends, IsLayout(ends), BufferInv(ends), NEW s \in Sides, Publish(s), TypeInv'
  PROVE  BufferInv(ends)'
<1>1. /\ TypeInv /\ PlaceInv(ends, s) /\ SpaceInv(s) /\ pc[s] = "finish" /\ k[s] \in Messages
      /\ PlaceInv(ends, Other(s)) /\ SpaceInv(Other(s))
  BY OtherSide DEF BufferInv, Publish, Move, TypeInv, Placed
<1>2. /\ UNCHANGED <<local, at, buffer>> /\ pc'[s] \in {"exchange", "prepare"}
      /\ k'[s] = k[s] + 1 /\ shared'[s] = local[s].base + local[s].pos
      /\ \A r \in Sides \ {s} : /\ pc'[r] = pc[r] /\ k'[r] = k[r] /\ shared'[r] = shared[r]
  BY <1>1 DEF Publish, Move, TypeInv, TypeOK
<1>3. local[s].base = ends[k[s]].base /\ local[s].pos = ends[k[s]].pos
      /\ shared[s] = Abs(ends[k[s] - 1])
  BY <1>1 DEF PlaceInv, Placed
<1>4. k'[s] - 1 = k[s] /\ k[s] \in Nat
  BY <1>1, <1>2, MessageFacts DEF Messages
<1>5. PlaceInv(ends, s)'
  BY <1>2, <1>3, <1>4 DEF PlaceInv, Placed, Looping, Abs
<1>6. SpaceInv(s)'
  <2>1. Available(s, shared[Other(s)])' = Available(s, shared[Other(s)])
    BY <1>2, OtherSide DEF Available
  <2> QED BY <1>1, <1>2, <2>1 DEF SpaceInv, Looping
<1>7. PlaceInv(ends, Other(s))' /\ SpaceInv(Other(s))'
  <2>1. shared'[s] = Abs(ends[k[s]])
    BY <1>2, <1>3 DEF Abs
  <2>2. /\ Abs(ends[k[s] - 1]) \in Nat /\ Abs(ends[k[s]]) \in Nat /\ Lens[k[s]] \in Nat
        /\ Abs(ends[k[s] - 1]) <= Abs(ends[k[s]]) - Lens[k[s]]
    BY <1>1, LayoutFacts, MessageFacts
  <2>3. shared'[s] >= shared[s]
    BY <1>3, <2>1, <2>2
  <2> QED BY <1>1, <1>2, <2>3, OtherSide, SideKeeps
<1>8. ContentsInv(ends)'
  <2>1. k["reader"] \in Nat /\ k["writer"] \in Nat
    <3>1. k \in [Sides -> 1 .. Len(Lens) + 1]
      BY <1>1 DEF TypeInv, TypeOK
    <3> QED BY <3>1, MessageFacts DEF Sides
  <2>2. ASSUME NEW j \in Messages, InBuffer(j)' PROVE InBuffer(j)
    <3>1. j \in Nat
      BY MessageFacts DEF Messages
    <3>2. CASE s = "reader"
      <4>1. k'["reader"] = k["reader"] + 1 /\ k'["writer"] = k["writer"]
            /\ pc'["writer"] = pc["writer"]
        BY <1>2, <3>2 DEF Sides
      <4> QED BY <2>1, <2>2, <3>1, <4>1 DEF InBuffer
    <3>3. CASE s = "writer"
      <4>1. k'["reader"] = k["reader"] /\ k'["writer"] = k["writer"] + 1
            /\ pc'["writer"] # "finish" /\ pc["writer"] = "finish"
        BY <1>1, <1>2, <3>3 DEF Sides
      <4> QED BY <2>1, <2>2, <3>1, <4>1 DEF InBuffer
    <3> QED BY <3>2, <3>3 DEF Sides
  <2> QED BY <1>2, <2>2 DEF BufferInv, ContentsInv
<1>9. \A r \in Sides : r = s \/ r = Other(s)
  BY DEF Sides, Other
<1> QED BY <1>5, <1>6, <1>7, <1>8, <1>9 DEF BufferInv

LEMMA BufferStep ==
  ASSUME NEW ends, IsLayout(ends)
  PROVE  BufferInv(ends) /\ [Next]_vars => BufferInv(ends)'
<1> SUFFICES ASSUME BufferInv(ends), [Next]_vars PROVE BufferInv(ends)'
  OBVIOUS
<1>1. TypeInv /\ TypeInv'
  BY TypeStep DEF BufferInv
<1>2. ASSUME NEW s \in Sides, Side(s) PROVE BufferInv(ends)'
  <2>1. CASE Prepare(s) \/ LoadPos(s) \/ Use(s) \/ Publish(s)
    BY <1>1, <2>1, PrepareStep, LoadStep, UseStep, PublishStep
  <2>2. CASE Request(s) \/ Recheck(s) \/ Cancel(s) \/ Wait(s) \/ Exchange(s) \/ Signal(s)
    BY <1>1, <2>2, SignalStepsAreQuiet, QuietStep
  <2> QED BY <1>2, <2>1, <2>2 DEF Side
<1>3. CASE UNCHANGED vars
  <2>1. Quiet
    BY <1>3 DEF vars, Quiet
  <2> QED BY <1>1, <2>1, QuietStep
<1> QED BY <1>2, <1>3 DEF Next, Join

\* The reader's space is always behind the writer's.
LEMMA ReaderIsBehind ==
  ASSUME NEW ends, IsLayout(ends)
  PROVE  BufferInv(ends) => ReadsWhatWasWritten
<1> SUFFICES ASSUME BufferInv(ends), pc["reader"] \in {"use", "finish"},
                    NEW u \in at["reader"].pos .. at["reader"].end - 1
             PROVE  buffer[u] = k["reader"]
  BY DEF ReadsWhatWasWritten
<1> DEFINE r == k["reader"]
           w == k["writer"] - 1
<1>1. TypeInv /\ PlaceInv(ends, "reader") /\ PlaceInv(ends, "writer") /\ SpaceInv("reader")
  BY DEF BufferInv, Sides
<1>2. r \in Messages /\ k["writer"] \in 1 .. Len(Lens) + 1 /\ local["reader"].end \in 0 .. Size
  BY <1>1 DEF TypeInv, TypeOK, Sides, Placed
<1>3. w \in 0 .. Len(Lens) /\ r \in 0 .. Len(Lens) /\ r \in Nat /\ k["writer"] \in Nat
  BY <1>2, MessageFacts DEF Messages
<1>4. /\ Abs(ends[r]) \in Nat /\ Abs(ends[w]) \in Nat /\ Lens[r] \in Nat \ {0}
      /\ ends[r].base \in Nat /\ ends[r].pos \in 0 .. Size
  BY <1>2, <1>3, LayoutFacts, MessageFacts
<1>5. /\ local["reader"].base = ends[r].base
      /\ at["reader"].pos = ends[r].pos - Lens[r] /\ at["reader"].end = ends[r].pos
      /\ shared["writer"] = Abs(ends[w])
  BY <1>1 DEF PlaceInv, Placed, Looping
<1>6. at["reader"].end <= local["reader"].end
      /\ local["reader"].end <= shared["writer"] - local["reader"].base
  BY <1>1 DEF SpaceInv, Available, Other, Looping
<1>7. Abs(ends[r]) <= Abs(ends[w])
  <2>1. Abs(ends[r]) = ends[r].base + ends[r].pos
    BY DEF Abs
  <2> HIDE DEF r, w
  <2> QED BY <1>2, <1>4, <1>5, <1>6, <2>1, SizeAssumption
<1>8. r < k["writer"]
  <2>1. SUFFICES ASSUME r \in w + 1 .. Len(Lens) PROVE FALSE
    BY <1>3
  <2>2. Abs(ends[w]) <= Abs(ends[r]) - Lens[r]
    BY <1>3, <2>1, LayoutIncreases
  <2> HIDE DEF r, w
  <2> QED BY <1>4, <1>7, <2>2
<1>9. InBuffer(r)
  BY <1>3, <1>8 DEF InBuffer
<1> QED BY <1>2, <1>5, <1>9 DEF BufferInv, ContentsInv

\* What the reader reads is what the writer wrote, whatever the lengths and alignments of
\* the messages and however the two sides are scheduled: written to the end before
\* PrepareRead returns, and not overwritten before FinishRead.
THEOREM ReadsCorrect == Spec => []ReadsWhatWasWritten
<1>1. PICK ends : IsLayout(ends)
  BY LayoutExists
<1>2. Init => BufferInv(ends)
  BY <1>1, BufferInit
<1>3. BufferInv(ends) /\ [Next]_vars => BufferInv(ends)'
  BY <1>1, BufferStep
<1>4. BufferInv(ends) => ReadsWhatWasWritten
  BY <1>1, ReaderIsBehind
<1> QED BY <1>2, <1>3, <1>4, PTL DEF Spec
=============================================================================
