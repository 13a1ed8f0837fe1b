--------------------------- MODULE BuffersProofs ---------------------------
(***************************************************************************)
(* The programs of Buffers keep their types and implement a bounded FIFO,  *)
(* for every number of producers, consumers and items and every size.      *)
(***************************************************************************)
EXTENDS Buffers, FiniteSetTheorems, SequenceTheorems, TLAPS

(***************************************************************************)
(* Rings.                                                                  *)
(***************************************************************************)

\* The k elements of the ring b of N slots from slot h on
Ring(b, h, k, N) == [n \in 1 .. k |-> b[(h + n - 1) % N]]

\* One round of the ring is enough.
LEMMA OneRound ==
  ASSUME NEW N \in Nat \ {0}, NEW a \in 0 .. 2 * N - 1
  PROVE  (a < N => a % N = a) /\ (a >= N => a % N = a - N)
<1> DEFINE d == a \div N
           m == a % N
<1>1. a = N * d + m /\ d \in Int /\ m \in 0 .. N - 1
  OBVIOUS
<1> HIDE DEF d, m
<1>2. d >= 0
  <2> SUFFICES ASSUME d <= -1 PROVE FALSE
    BY <1>1
  <2>1. N * d = N * (d + 1) - N
    BY <1>1
  <2>2. N * (d + 1) <= 0
    BY <1>1
  <2>3. N * (d + 1) \in Int
    BY <1>1
  <2> QED BY <1>1, <2>1, <2>2, <2>3
<1>3. d < 2
  <2> SUFFICES ASSUME d >= 2 PROVE FALSE
    BY <1>1
  <2>1. N * d = N * (d - 2) + 2 * N
    BY <1>1
  <2>2. N * (d - 2) >= 0
    BY <1>1
  <2>3. N * (d - 2) \in Int
    BY <1>1
  <2> QED BY <1>1, <2>1, <2>2, <2>3
<1>4. d = 0 \/ d = 1
  BY <1>1, <1>2, <1>3
<1>5. (a < N => m = a) /\ (a >= N => m = a - N)
  BY <1>1, <1>4
<1> QED BY <1>5 DEF m

\* The slots of a ring's elements are slots, and no two elements share one.
LEMMA Slots ==
  ASSUME NEW N \in Nat \ {0}, NEW h \in 0 .. N - 1
  PROVE  /\ \A i \in 0 .. N : (h + i) % N \in 0 .. N - 1
         /\ \A i, j \in 0 .. N - 1 : (h + i) % N = (h + j) % N => i = j
         /\ (h + 0) % N = h
         /\ \A i \in 0 .. N - 1 : (((h + i) % N) + 1) % N = (h + (i + 1)) % N
         /\ \A i \in 0 .. N - 1 : (((h + 1) % N) + i) % N = (h + (i + 1)) % N
<1>1. \A i \in 0 .. N : h + i \in 0 .. 2 * N - 1
  OBVIOUS
<1>0. \A a \in 0 .. 2 * N - 1 :
        (a < N => a % N = a) /\ (a >= N => a % N = a - N)
  BY OneRound
<1>2. \A i \in 0 .. N :
        (h + i < N => (h + i) % N = h + i) /\ (h + i >= N => (h + i) % N = h + i - N)
  BY <1>0, <1>1
<1>3. \A i \in 0 .. N - 1 : i \in 0 .. N /\ i + 1 \in 0 .. N
  OBVIOUS
<1>4. \A i \in 0 .. N : (h + i) % N \in 0 .. N - 1
  BY <1>2
<1>5. \A i, j \in 0 .. N - 1 : (h + i) % N = (h + j) % N => i = j
  BY <1>2, <1>3
<1>6. \A i \in 0 .. N - 1 : (((h + i) % N) + 1) % N = (h + (i + 1)) % N
  <2> TAKE i \in 0 .. N - 1
  <2> DEFINE x == (h + i) % N
  <2>1. x = (IF h + i < N THEN h + i ELSE h + i - N) /\ x + 1 \in 0 .. 2 * N - 1
    BY <1>2, <1>3
  <2> HIDE DEF x
  <2>2. (x + 1 < N => (x + 1) % N = x + 1) /\ (x + 1 >= N => (x + 1) % N = x + 1 - N)
    BY <1>0, <2>1
  <2>3. (h + (i + 1)) % N = IF h + (i + 1) < N THEN h + (i + 1) ELSE h + (i + 1) - N
    BY <1>2, <1>3
  <2>4. (x + 1) % N = (h + (i + 1)) % N
    BY <2>1, <2>2, <2>3
  <2> QED BY <2>4 DEF x
<1>7. \A i \in 0 .. N - 1 : (((h + 1) % N) + i) % N = (h + (i + 1)) % N
  <2> TAKE i \in 0 .. N - 1
  <2> DEFINE x == (h + 1) % N
  <2>0. 1 \in 0 .. N
    OBVIOUS
  <2>1. x = (IF h + 1 < N THEN h + 1 ELSE h + 1 - N) /\ x + i \in 0 .. 2 * N - 1
    BY <1>2, <2>0
  <2> HIDE DEF x
  <2>2. (x + i < N => (x + i) % N = x + i) /\ (x + i >= N => (x + i) % N = x + i - N)
    BY <1>0, <2>1
  <2>3. (h + (i + 1)) % N = IF h + (i + 1) < N THEN h + (i + 1) ELSE h + (i + 1) - N
    BY <1>2, <1>3
  <2>4. (x + i) % N = (h + (i + 1)) % N
    BY <2>1, <2>2, <2>3
  <2> QED BY <2>4 DEF x
<1>8. (h + 0) % N = h
  BY <1>2
<1> QED BY <1>4, <1>5, <1>6, <1>7, <1>8

\* and they are elements of S.
RingOf(b, h, k, N, S) ==
  /\ N \in Nat \ {0} /\ h \in 0 .. N - 1 /\ k \in 0 .. N
  /\ \A n \in 1 .. k : b[(h + n - 1) % N] \in S

\* b with v in slot i
Put(b, i, v) == [b EXCEPT ![i] = v]

LEMMA RingType ==
  ASSUME NEW b, NEW h, NEW k, NEW N, NEW S, RingOf(b, h, k, N, S)
  PROVE  /\ Ring(b, h, k, N) \in Seq(S) /\ Len(Ring(b, h, k, N)) = k
         /\ k \in 0 .. N /\ h \in 0 .. N - 1
BY DEF Ring, RingOf

\* Writing a slot behind the ring leaves it alone;
LEMMA RingKept ==
  ASSUME NEW b, NEW h, NEW k, NEW N, NEW S, RingOf(b, h, k, N, S), k # N,
         DOMAIN b = 0 .. N - 1, NEW v
  PROVE  /\ RingOf(Put(b, (h + k) % N, v), h, k, N, S)
         /\ Ring(Put(b, (h + k) % N, v), h, k, N) = Ring(b, h, k, N)
         /\ Put(b, (h + k) % N, v)[(h + k) % N] = v
<1>z. /\ N \in Nat \ {0} /\ h \in 0 .. N - 1 /\ k \in 0 .. N - 1
      /\ \A n \in 1 .. k : b[(h + n - 1) % N] \in S
  BY DEF RingOf
<1> DEFINE y == (h + k) % N
           c == Put(b, y, v)
<1>1. y \in 0 .. N - 1
  <2>1. \A i \in 0 .. N : (h + i) % N \in 0 .. N - 1
    BY <1>z, Slots
  <2>2. k \in 0 .. N
    BY <1>z
  <2> QED BY <2>1, <2>2
<1>2. \A n \in 1 .. k : (h + n - 1) % N # y
  <2> TAKE n \in 1 .. k
  <2>1. n - 1 \in 0 .. N - 1 /\ k # n - 1 /\ h + n - 1 = h + (n - 1)
    BY <1>z
  <2>2. \A i, l \in 0 .. N - 1 : (h + i) % N = (h + l) % N => i = l
    BY <1>z, Slots
  <2> QED BY <1>z, <2>1, <2>2
<1> HIDE DEF y
<1>3. c[y] = v /\ \A i : i # y => c[i] = b[i]
  BY <1>1 DEF Put
<1> HIDE DEF c
<1>4. \A n \in 1 .. k : c[(h + n - 1) % N] = b[(h + n - 1) % N]
  BY <1>2, <1>3
<1>5. RingOf(c, h, k, N, S) /\ Ring(c, h, k, N) = Ring(b, h, k, N)
  BY <1>4 DEF RingOf, Ring
<1> QED BY <1>3, <1>5 DEF c, y

\* counting the slot behind it appends its contents;
LEMMA RingGrows ==
  ASSUME NEW b, NEW h, NEW k, NEW N, NEW S, RingOf(b, h, k, N, S), k # N, b[(h + k) % N] \in S
  PROVE  /\ RingOf(b, h, k + 1, N, S)
         /\ Ring(b, h, k + 1, N) = Append(Ring(b, h, k, N), b[(h + k) % N])
<1>z. /\ N \in Nat \ {0} /\ h \in 0 .. N - 1 /\ k \in 0 .. N - 1
      /\ \A n \in 1 .. k : b[(h + n - 1) % N] \in S
  BY DEF RingOf
<1> USE <1>z
<1> DEFINE r == Ring(b, h, k, N)
           q == Ring(b, h, k + 1, N)
<1>0. k \in 0 .. N /\ k + 1 \in 0 .. N
  OBVIOUS
<1>1. r \in Seq(S) /\ Len(r) = k /\ \A n \in 1 .. k : r[n] = b[(h + n - 1) % N]
  BY <1>0 DEF Ring
<1>2. \A n \in 1 .. k + 1 : b[(h + n - 1) % N] \in S
  <2> TAKE n \in 1 .. k + 1
  <2>1. CASE n = k + 1
    <3>1. h + n - 1 = h + k
      BY <2>1
    <3> QED BY <3>1
  <2>2. CASE n \in 1 .. k
    BY <2>2
  <2> QED BY <2>1, <2>2
<1>3. q \in Seq(S) /\ Len(q) = k + 1 /\ \A n \in 1 .. k + 1 : q[n] = b[(h + n - 1) % N]
  BY <1>0, <1>2 DEF Ring
<1>4. q[k + 1] = b[(h + k) % N]
  <2>1. h + (k + 1) - 1 = h + k
    OBVIOUS
  <2> QED BY <1>3, <2>1
<1> DEFINE v == b[(h + k) % N]
<1>5. v \in S
  OBVIOUS
<1> HIDE DEF r, q, v
<1>6. Append(r, v) \in Seq(S) /\ Len(Append(r, v)) = k + 1
  BY <1>1, <1>5
<1>7. \A n \in 1 .. Len(q) : q[n] = Append(r, v)[n]
  <2> TAKE n \in 1 .. Len(q)
  <2>1. CASE n = k + 1
    BY <1>1, <1>4, <2>1 DEF v
  <2>2. CASE n \in 1 .. k
    <3>1. Append(r, v)[n] = r[n]
      BY <1>1, <1>5, <2>2
    <3>2. n \in 1 .. k + 1
      BY <2>2
    <3> QED BY <1>1, <1>3, <2>2, <3>1, <3>2
  <2>3. n = k + 1 \/ n \in 1 .. k
    BY <1>3
  <2> QED BY <2>1, <2>2, <2>3, Zenon
<1>8. q = Append(r, v)
  BY <1>3, <1>6, <1>7, SeqEqual
<1> QED BY <1>0, <1>2, <1>8 DEF r, q, v, RingOf

\* q with its first element x taken is q2,
Pops(q, x, q2) == q # <<>> /\ Head(q) = x /\ Tail(q) = q2

\* and moving its head takes its first element.
LEMMA RingShrinks ==
  ASSUME NEW b, NEW h, NEW k, NEW N, NEW S, RingOf(b, h, k, N, S), k # 0
  PROVE  /\ RingOf(b, (h + 1) % N, k - 1, N, S)
         /\ Pops(Ring(b, h, k, N), b[h], Ring(b, (h + 1) % N, k - 1, N))
         /\ b[h] \in S
<1>z. /\ N \in Nat \ {0} /\ h \in 0 .. N - 1 /\ k \in 1 .. N
      /\ \A n \in 1 .. k : b[(h + n - 1) % N] \in S
  BY DEF RingOf
<1> DEFINE r == Ring(b, h, k, N)
           g == (h + 1) % N
           q == Ring(b, g, k - 1, N)
<1>0. k \in 0 .. N /\ k - 1 \in 0 .. N /\ 1 \in 0 .. N
  BY <1>z
<1>a. \A i \in 0 .. N - 1 : (((h + 1) % N) + i) % N = (h + (i + 1)) % N
  BY <1>z, Slots
<1>1. r \in Seq(S) /\ Len(r) = k /\ \A n \in 1 .. k : r[n] = b[(h + n - 1) % N]
  <2>1. r \in Seq(S) /\ Len(r) = k
    BY RingType
  <2>2. \A n \in 1 .. k : r[n] = b[(h + n - 1) % N]
    BY <1>z DEF Ring
  <2> QED BY <1>z, <2>1, <2>2
<1>2. g \in 0 .. N - 1
  <2>1. \A i \in 0 .. N : (h + i) % N \in 0 .. N - 1
    BY <1>z, Slots
  <2> QED BY <1>z, <1>0, <2>1
<1>3. \A n \in 1 .. k - 1 : b[(g + n - 1) % N] = b[(h + (n + 1) - 1) % N]
  <2> TAKE n \in 1 .. k - 1
  <2>1. n - 1 \in 0 .. N - 1
    BY <1>z
  <2>2. (g + (n - 1)) % N = (h + ((n - 1) + 1)) % N
    BY <1>z, <1>a, <2>1
  <2>3. g + n - 1 = g + (n - 1) /\ h + (n + 1) - 1 = h + ((n - 1) + 1)
    BY <1>z, <1>2
  <2> QED BY <1>z, <2>2, <2>3
<1>4. \A n \in 1 .. k - 1 : n + 1 \in 1 .. k
  BY <1>z
<1>5. \A n \in 1 .. k - 1 : b[(g + n - 1) % N] \in S
  BY <1>z, <1>3, <1>4
<1> HIDE DEF g
<1>6. q \in Seq(S) /\ Len(q) = k - 1 /\ \A n \in 1 .. k - 1 : q[n] = b[(g + n - 1) % N]
  <2>1. RingOf(b, g, k - 1, N, S)
    BY <1>z, <1>0, <1>2, <1>5 DEF RingOf
  <2>2. q \in Seq(S) /\ Len(q) = k - 1
    BY <2>1, RingType
  <2>3. \A n \in 1 .. k - 1 : q[n] = b[(g + n - 1) % N]
    BY <1>z DEF Ring
  <2> QED BY <1>z, <2>2, <2>3
<1>7. r[1] = b[h]
  <2>1. h + 1 - 1 = h + 0
    BY <1>z
  <2>2. 1 \in 1 .. k
    BY <1>z
  <2> QED BY <1>z, <1>1, <2>1, <2>2, Slots
<1> HIDE DEF r, q
<1>8. r # <<>>
  BY <1>z, <1>1
<1>9. Head(r) = b[h] /\ Tail(r) \in Seq(S) /\ Len(Tail(r)) = k - 1
  BY <1>z, <1>1, <1>7, <1>8, HeadTailProperties
<1>10. \A n \in 1 .. Len(Tail(r)) : Tail(r)[n] = q[n]
  <2> TAKE n \in 1 .. Len(Tail(r))
  <2>1. Tail(r)[n] = r[n + 1]
    BY <1>z, <1>1, <1>8, HeadTailProperties
  <2>2. n \in 1 .. k - 1
    BY <1>z, <1>9
  <2> QED BY <1>z, <1>1, <1>3, <1>4, <1>6, <2>1, <2>2
<1>11. Tail(r) = q
  BY <1>z, <1>6, <1>9, <1>10, SeqEqual
<1> QED BY <1>z, <1>0, <1>2, <1>5, <1>8, <1>9, <1>11, HeadTailProperties DEF r, q, g, Pops, RingOf

\* A ring whose tail is k slots behind its head, seen one slot further
LEMMA RingMoves ==
  ASSUME NEW b, NEW h, NEW k, NEW N, NEW S, RingOf(b, h, k, N, S)
  PROVE  /\ (h + k) % N \in 0 .. N - 1
         /\ k # 0 => (h + k) % N = (((h + 1) % N) + (k - 1)) % N
         /\ k # N => (((h + k) % N) + 1) % N = (h + (k + 1)) % N
<1>1. N \in Nat \ {0} /\ h \in 0 .. N - 1 /\ k \in 0 .. N
  BY DEF RingOf
<1>2. /\ \A i \in 0 .. N : (h + i) % N \in 0 .. N - 1
      /\ \A i \in 0 .. N - 1 : (((h + i) % N) + 1) % N = (h + (i + 1)) % N
      /\ \A i \in 0 .. N - 1 : (((h + 1) % N) + i) % N = (h + (i + 1)) % N
  BY <1>1, Slots
<1>3. k # 0 => k - 1 \in 0 .. N - 1 /\ (k - 1) + 1 = k
  BY <1>1
<1>4. k # N => k \in 0 .. N - 1
  BY <1>1
<1> QED BY <1>1, <1>2, <1>3, <1>4

-----------------------------------------------------------------------------
(***************************************************************************)
(* The queue that a program implements, and its portions.                  *)
(***************************************************************************)
Value == Portion \cup {"item"} \X (1 .. 2 * Items)

\* What a step may do to a queue q of which p has been taken: push, pop, or nothing
Moves(q, p, q2, p2, capacity) ==
  \/ \E v \in Value : Len(q) < capacity /\ q2 = Append(q, v) /\ p2 = p
  \/ q # <<>> /\ p2 = Append(p, Head(q)) /\ q2 = Tail(q)
  \/ q2 = q /\ p2 = p

LEMMA AppendOne ==
  ASSUME NEW S, NEW s \in Seq(S), NEW x \in S
  PROVE  /\ s \o <<x>> = Append(s, x)
         /\ s \o <<x>> \in Seq(S) /\ Len(s \o <<x>>) = Len(s) + 1
OBVIOUS

LEMMA TailOf ==
  ASSUME NEW S, NEW s \in Seq(S), s # <<>>
  PROVE  Head(s) \in S /\ Tail(s) \in Seq(S) /\ Len(Tail(s)) = Len(s) - 1 /\ Len(s) > 0
<1>1. Len(s) > 0
  BY EmptySeq
<1> QED BY <1>1, HeadTailProperties

\* A queue of portions takes one more,
LEMMA AddsOne ==
  ASSUME NEW s \in Seq(Portion), NEW x \in Portion, NEW p, NEW capacity, Len(s) < capacity
  PROVE  /\ Moves(s, p, s \o <<x>>, p, capacity)
         /\ s \o <<x>> \in Seq(Portion) /\ Len(s \o <<x>>) = Len(s) + 1
<1>1. /\ s \o <<x>> = Append(s, x)
      /\ s \o <<x>> \in Seq(Portion) /\ Len(s \o <<x>>) = Len(s) + 1
  BY AppendOne
<1>2. x \in Value
  BY DEF Value
<1> QED BY <1>1, <1>2 DEF Moves

\* or loses its first.
LEMMA TakesOne ==
  ASSUME NEW s \in Seq(Portion), s # <<>>, NEW p \in Seq(Portion), NEW capacity
  PROVE  /\ Moves(s, p, Tail(s), p \o <<Head(s)>>, capacity)
         /\ Tail(s) \in Seq(Portion) /\ Len(Tail(s)) = Len(s) - 1 /\ Len(s) > 0
         /\ p \o <<Head(s)>> \in Seq(Portion)
<1>1. Head(s) \in Portion /\ Tail(s) \in Seq(Portion) /\ Len(Tail(s)) = Len(s) - 1 /\ Len(s) > 0
  BY TailOf
<1> DEFINE x == Head(s)
           t == Tail(s)
<1>2. x \in Portion
  BY <1>1
<1> HIDE DEF x, t
<1>3. p \o <<x>> = Append(p, x) /\ p \o <<x>> \in Seq(Portion)
  BY <1>2, AppendOne
<1>4. Moves(s, p, t, p \o <<x>>, capacity)
  BY <1>3 DEF Moves, x, t
<1> QED BY <1>1, <1>3, <1>4 DEF x, t

LEMMA NumberedType ==
  ASSUME NEW S, NEW s \in Seq(S)
  PROVE  /\ Numbered(s) \in Seq({"item"} \X S) /\ Len(Numbered(s)) = Len(s)
         /\ \A n \in 1 .. Len(s) : Numbered(s)[n] = <<"item", s[n]>>
BY DEF Numbered

\* Numbering the elements commutes with the operations of a queue.
LEMMA NumberedGrows ==
  ASSUME NEW S, NEW s \in Seq(S), NEW x \in S
  PROVE  Numbered(Append(s, x)) = Append(Numbered(s), <<"item", x>>)
<1> DEFINE a == Append(s, x)
           T == {"item"} \X S
           q == Numbered(s)
<1>1. a \in Seq(S) /\ Len(a) = Len(s) + 1 /\ Len(s) \in Nat
  OBVIOUS
<1>2. \A n \in 1 .. Len(s) : a[n] = s[n]
  OBVIOUS
<1>3. a[Len(s) + 1] = x
  OBVIOUS
<1>4. q \in Seq(T) /\ Len(q) = Len(s) /\ \A n \in 1 .. Len(s) : q[n] = <<"item", s[n]>>
  BY NumberedType
<1> HIDE DEF a, q
<1>5. Numbered(a) \in Seq(T) /\ Len(Numbered(a)) = Len(s) + 1
      /\ \A n \in 1 .. Len(s) + 1 : Numbered(a)[n] = <<"item", a[n]>>
  BY <1>1, NumberedType
<1> DEFINE y == <<"item", x>>
<1>6. y \in T
  OBVIOUS
<1> HIDE DEF y, T
<1>7. Append(q, y) \in Seq(T) /\ Len(Append(q, y)) = Len(s) + 1
  BY <1>1, <1>4, <1>6
<1>8. \A n \in 1 .. Len(s) + 1 : Numbered(a)[n] = Append(q, y)[n]
  <2> TAKE n \in 1 .. Len(s) + 1
  <2>1. CASE n = Len(s) + 1
    <3>1. Append(q, y)[n] = y
      BY <1>1, <1>4, <2>1
    <3>2. Numbered(a)[n] = <<"item", x>>
      BY <1>3, <1>5, <2>1
    <3> QED BY <3>1, <3>2 DEF y
  <2>2. CASE n \in 1 .. Len(s)
    <3>1. Append(q, y)[n] = q[n]
      BY <1>1, <1>4, <2>2
    <3>2. Numbered(a)[n] = <<"item", s[n]>>
      BY <1>2, <1>5, <2>2
    <3> QED BY <1>4, <2>2, <3>1, <3>2
  <2>3. n = Len(s) + 1 \/ n \in 1 .. Len(s)
    BY <1>1
  <2> QED BY <2>1, <2>2, <2>3, Zenon
<1>9. Numbered(a) = Append(q, y)
  BY <1>5, <1>7, <1>8, SeqEqual
<1> QED BY <1>9 DEF a, q, y

LEMMA NumberedShrinks ==
  ASSUME NEW S, NEW s \in Seq(S), s # <<>>
  PROVE  /\ Numbered(s) # <<>> /\ Head(Numbered(s)) = <<"item", Head(s)>>
         /\ Numbered(Tail(s)) = Tail(Numbered(s))
<1> DEFINE T == {"item"} \X S
           q == Numbered(s)
           t == Tail(s)
<1>1. Head(s) = s[1] /\ t \in Seq(S) /\ Len(t) = Len(s) - 1 /\ Len(s) \in Nat /\ Len(s) > 0
  BY TailOf
<1>2. \A n \in 1 .. Len(t) : t[n] = s[n + 1]
  BY HeadTailProperties
<1>3. q \in Seq(T) /\ Len(q) = Len(s) /\ \A n \in 1 .. Len(s) : q[n] = <<"item", s[n]>>
  BY NumberedType
<1> HIDE DEF t, q, T
<1>4. Numbered(t) \in Seq({"item"} \X S) /\ Len(Numbered(t)) = Len(t)
      /\ \A n \in 1 .. Len(t) : Numbered(t)[n] = <<"item", t[n]>>
  BY <1>1, NumberedType
<1>5. q # <<>>
  BY <1>1, <1>3
<1>6. Head(q) = <<"item", Head(s)>>
  <2>1. 1 \in 1 .. Len(s)
    BY <1>1
  <2>2. Head(q) = q[1]
    BY <1>3
  <2> QED BY <1>1, <1>3, <2>1, <2>2
<1>7. Tail(q) \in Seq(T) /\ Len(Tail(q)) = Len(q) - 1
      /\ \A n \in 1 .. Len(q) - 1 : Tail(q)[n] = q[n + 1]
  BY <1>3, <1>5, HeadTailProperties
<1>8. \A n \in 1 .. Len(t) : Numbered(t)[n] = Tail(q)[n]
  <2> TAKE n \in 1 .. Len(t)
  <2>1. n \in 1 .. Len(q) - 1 /\ n + 1 \in 1 .. Len(s)
    BY <1>1, <1>3
  <2> QED BY <1>2, <1>3, <1>4, <1>7, <2>1
<1>9. Numbered(t) = Tail(q)
  BY <1>1, <1>3, <1>4, <1>7, <1>8, SeqEqual DEF T
<1> QED BY <1>5, <1>6, <1>9 DEF t, q

LEMMA ThreadsApart ==
  /\ \A p \in Producers : p \in Threads /\ p \notin Consumers
  /\ \A c \in Consumers : c \in Threads /\ c \notin Producers
  /\ \A t \in Threads : t \in Producers \/ t \in Consumers
BY BufferThreadsAssumption DEF Threads

\* All programs have the same threads and portions.
LEMMA SameThreads ==
  /\ Monitor!Threads = Threads /\ Dijkstra!Threads = Threads /\ Waiting!Threads = Threads
  /\ Safe!Threads = Threads /\ Iterated!Threads = Threads
BY DEF Monitor!Threads, Dijkstra!Threads, Waiting!Threads, Safe!Threads, Iterated!Threads, Threads

LEMMA SamePortions ==
  /\ Monitor!Portion = Portion /\ Dijkstra!Portion = Portion /\ Waiting!Portion = Portion
  /\ Safe!Portion = Portion /\ Iterated!Portion = Portion
BY DEF Monitor!Portion, Dijkstra!Portion, Waiting!Portion, Safe!Portion, Iterated!Portion, Portion

LEMMA SameCount == Dijkstra!AllPortions = AllPortions
BY Zenon DEF Dijkstra!AllPortions, AllPortions, Dijkstra!Cardinality, Cardinality

\* The first f[p] portions of every producer p
Upto(f) == {e \in Portion : e[2] <= f[e[1]]}

LEMMA PortionsCounted ==
  /\ IsFiniteSet(Portion) /\ Cardinality(Portion) = AllPortions /\ AllPortions \in Nat
<1>1. Items \in Int /\ 1 \in Int /\ Items >= 1
  BY BufferBoundsAssumption
<1>2. IsFiniteSet(1 .. Items) /\ Cardinality(1 .. Items) = Items
  BY <1>1, FS_Interval
<1>3. IsFiniteSet(Producers)
  BY BufferThreadsAssumption
<1>4. IsFiniteSet(Portion) /\ Cardinality(Portion) = Cardinality(Producers) * Items
  BY <1>2, <1>3, FS_Product DEF Portion
<1>5. Cardinality(Portion) \in Nat
  BY <1>4, FS_CardinalityType
<1> QED BY <1>4, <1>5 DEF AllPortions

LEMMA UptoType ==
  ASSUME NEW f
  PROVE  IsFiniteSet(Upto(f)) /\ Cardinality(Upto(f)) \in Nat /\ Cardinality(Upto(f)) <= AllPortions
<1>1. Upto(f) \in SUBSET Portion
  BY DEF Upto
<1> QED BY <1>1, PortionsCounted, FS_Subset, FS_CardinalityType

\* One more portion of a producer is one more portion, and there was room for it.
LEMMA UptoGrows ==
  ASSUME NEW f \in [Producers -> Nat], NEW p \in Producers, f[p] < Items
  PROVE  /\ Cardinality(Upto([f EXCEPT ![p] = f[p] + 1])) = Cardinality(Upto(f)) + 1
         /\ Cardinality(Upto(f)) < AllPortions
         /\ <<p, f[p] + 1>> \in Portion
<1> DEFINE x == <<p, f[p] + 1>>
           g == [f EXCEPT ![p] = f[p] + 1]
<1>0. f[p] \in Nat /\ f[p] + 1 \in 1 .. Items
  BY BufferBoundsAssumption
<1>1. x \in Portion /\ x \notin Upto(f)
  BY <1>0 DEF Portion, Upto
<1>2. Upto(g) = Upto(f) \cup {x}
  <2>1. ASSUME NEW e \in Portion PROVE e[2] <= g[e[1]] <=> e[2] <= f[e[1]] \/ e = x
    <3>1. PICK q \in Producers, n \in 1 .. Items : e = <<q, n>>
      BY <2>1 DEF Portion
    <3>2. CASE q = p
      BY <1>0, <3>1, <3>2, BufferBoundsAssumption
    <3>3. CASE q # p
      BY <3>1, <3>3
    <3> QED BY <3>2, <3>3
  <2> HIDE DEF g, x
  <2> QED BY <1>1, <2>1 DEF Upto
<1>3. IsFiniteSet(Upto(f)) /\ Cardinality(Upto(f)) \in Nat
  BY UptoType
<1>4. Cardinality(Upto(g)) = Cardinality(Upto(f)) + 1
  BY <1>1, <1>2, <1>3, FS_AddElement
<1>5. Cardinality(Upto(g)) <= AllPortions /\ AllPortions \in Nat
  BY UptoType, PortionsCounted
<1> HIDE DEF g
<1>6. Cardinality(Upto(f)) < AllPortions
  BY <1>3, <1>4, <1>5
<1> QED BY <1>1, <1>4, <1>6 DEF g

-----------------------------------------------------------------------------
(***************************************************************************)
(* The iterated channel.                                                   *)
(***************************************************************************)
IteratedInv ==
  /\ Iterated!TypeOK
  /\ \A p \in Producers : pc[p] \in {"closed", "push"} => sent[p] < Items

\* The next portion is a portion.
LEMMA NextPortionType ==
  ASSUME NEW p \in Producers, NEW n \in 0 .. Items, n < Items
  PROVE  <<p, n + 1>> \in Portion /\ n + 1 \in 0 .. Items
<1>1. n + 1 \in 1 .. Items
  BY BufferBoundsAssumption
<1> QED BY <1>1 DEF Portion

LEMMA IteratedStep ==
  ASSUME IteratedInv,
         (\E t \in Threads : Iterated!Thread(t)) \/ Iterated!Stopping \/ Iterated!Environment
  PROVE  IteratedInv' /\ Moves(buffer, popped, buffer', popped', Size)
<1> USE SameThreads, SamePortions
<1> DEFINE Goal == IteratedInv' /\ Moves(buffer, popped, buffer', popped', Size)
<1>0. /\ buffer \in Seq(Portion) /\ Len(buffer) <= Size /\ popped \in Seq(Portion)
      /\ sent \in [Producers -> 0 .. Items] /\ Len(buffer) \in Nat /\ Size \in Nat /\ Items \in Nat
  BY BufferBoundsAssumption DEF IteratedInv, Iterated!TypeOK
<1>1. ASSUME NEW p \in Producers, Iterated!TestClosed(p) PROVE Goal
  BY <1>1, ThreadsApart
     DEF IteratedInv, Iterated!TypeOK, Iterated!TestClosed, Iterated!Goto, Iterated!At, Moves
<1>2. ASSUME NEW t \in Threads, Iterated!SleepOn(t) PROVE Goal
  BY <1>2 DEF IteratedInv, Iterated!TypeOK, Iterated!SleepOn, Moves
<1>3. ASSUME NEW p \in Producers, Iterated!Push(p) PROVE Goal
  <2> DEFINE x == <<p, sent[p] + 1>>
  <2>1. /\ Len(buffer) < Size /\ buffer' = buffer \o <<x>> /\ popped' = popped
        /\ sent' = [sent EXCEPT ![p] = sent[p] + 1] /\ pc[p] = "push"
        /\ pc' = [pc EXCEPT ![p] = "pushed"] /\ UNCHANGED <<endSignal, nonempty, main>>
        /\ taken' \in Nat
    BY <1>3 DEF IteratedInv, Iterated!TypeOK, Iterated!Push, Iterated!Goto, Iterated!At
  <2>2. x \in Portion /\ sent[p] + 1 \in 0 .. Items /\ sent[p] \in 0 .. Items
    BY <1>0, <2>1, NextPortionType DEF IteratedInv
  <2>3. sent' \in [Producers -> 0 .. Items] /\ \A q \in Producers : q # p => sent'[q] = sent[q]
    BY <1>0, <2>1, <2>2
  <2> HIDE DEF x
  <2>4. /\ Moves(buffer, popped, buffer', popped', Size)
        /\ buffer' \in Seq(Portion) /\ Len(buffer') = Len(buffer) + 1
    BY <1>0, <2>1, <2>2, AddsOne
  <2>5. IteratedInv'
    BY <1>0, <2>1, <2>3, <2>4, ThreadsApart DEF IteratedInv, Iterated!TypeOK
  <2> QED BY <2>4, <2>5
<1>4. ASSUME NEW p \in Producers, Iterated!Pushed(p) PROVE Goal
  <2>1. nonempty' \subseteq nonempty
    BY <1>4 DEF Iterated!Pushed, Iterated!Notify
  <2> QED BY <1>4, <2>1, ThreadsApart
          DEF IteratedInv, Iterated!TypeOK, Iterated!Pushed, Iterated!Goto, Iterated!At, Moves
<1>5. ASSUME NEW c \in Consumers,
             Iterated!More(c) \/ Iterated!Get(c) \/ Iterated!GetAgain(c) \/ Iterated!TakeAgain(c)
      PROVE  Goal
  BY <1>5, ThreadsApart
     DEF IteratedInv, Iterated!TypeOK, Iterated!More, Iterated!Get, Iterated!GetAgain,
         Iterated!TakeAgain, Iterated!Goto, Iterated!At, Moves
<1>6. ASSUME NEW c \in Consumers, Iterated!Take(c) PROVE Goal
  <2>1. /\ pc' = [pc EXCEPT ![c] = "taken"] /\ UNCHANGED <<endSignal, nonempty, taken, sent, main>>
        /\ buffer # <<>> /\ buffer' = Tail(buffer) /\ popped' = popped \o <<Head(buffer)>>
    BY <1>6 DEF Iterated!Take, Iterated!Goto, Iterated!At
  <2>2. /\ Moves(buffer, popped, buffer', popped', Size)
        /\ buffer' \in Seq(Portion) /\ Len(buffer') = Len(buffer) - 1 /\ popped' \in Seq(Portion)
    BY <1>0, <2>1, TakesOne
  <2>3. IteratedInv'
    BY <1>0, <2>1, <2>2, ThreadsApart DEF IteratedInv, Iterated!TypeOK
  <2> QED BY <2>2, <2>3
<1>7. ASSUME NEW c \in Consumers, Iterated!Taken(c) PROVE Goal
  <2>1. nonempty' \subseteq nonempty
    BY <1>7 DEF Iterated!Taken, Iterated!Notify
  <2> QED BY <1>7, <2>1, ThreadsApart
          DEF IteratedInv, Iterated!TypeOK, Iterated!Taken, Iterated!Goto, Iterated!At, Moves
<1>8. CASE Iterated!Close \/ Iterated!CloseNotify
  BY <1>8 DEF IteratedInv, Iterated!TypeOK, Iterated!Close, Iterated!CloseNotify,
              Iterated!NotifyAll, Moves
<1>9. ASSUME NEW t \in Threads, Iterated!Spurious(t) PROVE Goal
  BY <1>9 DEF IteratedInv, Iterated!TypeOK, Iterated!Spurious, Moves
<1>10. ASSUME NEW t \in Threads, Iterated!Thread(t) PROVE Goal
  BY <1>1, <1>2, <1>3, <1>4, <1>5, <1>6, <1>7, <1>10
     DEF Iterated!Thread, Iterated!Producer, Iterated!Consumer, Iterated!PushSleep, Iterated!WaitSleep
<1> QED BY <1>8, <1>9, <1>10 DEF Iterated!Stopping, Iterated!Environment, Iterated!Threads, Threads

-----------------------------------------------------------------------------
(***************************************************************************)
(* The queue of simplest_readers_writers.  What bounds it is the number of *)
(* portions that have been written.                                        *)
(***************************************************************************)
WaitingInv ==
  /\ Waiting!TypeOK
  /\ Len(buffer) <= Cardinality(Upto(sent))
  /\ \A p \in Producers : pc[p] = "call" => sent[p] < Items

LEMMA WaitingStep ==
  ASSUME WaitingInv, (\E t \in Threads : Waiting!Thread(t)) \/ Waiting!Environment
  PROVE  WaitingInv' /\ Moves(buffer, popped, buffer', popped', AllPortions)
<1> USE SameThreads, SamePortions
<1> DEFINE Goal == WaitingInv' /\ Moves(buffer, popped, buffer', popped', AllPortions)
<1>0. /\ buffer \in Seq(Portion) /\ popped \in Seq(Portion) /\ Len(buffer) \in Nat
      /\ sent \in [Producers -> 0 .. Items] /\ Items \in Nat
      /\ Cardinality(Upto(sent)) \in Nat /\ AllPortions \in Nat
  BY BufferBoundsAssumption, UptoType, PortionsCounted DEF WaitingInv, Waiting!TypeOK
<1>1. ASSUME NEW p \in Producers, Waiting!Write(p) PROVE Goal
  <2> DEFINE x == <<p, sent[p] + 1>>
  <2>1. /\ buffer' = buffer \o <<x>> /\ popped' = popped /\ UNCHANGED endSignal
        /\ sent' = [sent EXCEPT ![p] = sent[p] + 1] /\ pc[p] = "call"
        /\ pc' = [pc EXCEPT ![p] = IF sent[p] + 1 < Items THEN "call" ELSE "done"]
    BY <1>1 DEF Waiting!Write
  <2>2. nonempty' \subseteq nonempty
    BY <1>1 DEF Waiting!Write, Waiting!Notify
  <2>3. sent[p] < Items /\ sent[p] \in 0 .. Items /\ sent \in [Producers -> Nat]
    BY <1>0, <2>1 DEF WaitingInv
  <2>4. x \in Portion /\ sent[p] + 1 \in 0 .. Items
    BY <2>3, NextPortionType
  <2>5. /\ Cardinality(Upto(sent')) = Cardinality(Upto(sent)) + 1
        /\ Cardinality(Upto(sent)) < AllPortions
    BY <2>1, <2>3, UptoGrows
  <2>6. Len(buffer) < AllPortions
    BY <1>0, <2>5 DEF WaitingInv
  <2> HIDE DEF x
  <2>7. /\ Moves(buffer, popped, buffer', popped', AllPortions)
        /\ buffer' \in Seq(Portion) /\ Len(buffer') = Len(buffer) + 1
    BY <1>0, <2>1, <2>4, <2>6, AddsOne
  <2>8. Waiting!TypeOK'
    BY <1>0, <2>1, <2>2, <2>4, <2>7, ThreadsApart DEF WaitingInv, Waiting!TypeOK
  <2>9. Len(buffer') <= Cardinality(Upto(sent'))
    BY <1>0, <2>5, <2>7 DEF WaitingInv
  <2>10. \A q \in Producers : pc'[q] = "call" => sent'[q] < Items
    BY <1>0, <2>1, ThreadsApart DEF WaitingInv, Waiting!TypeOK
  <2> QED BY <2>7, <2>8, <2>9, <2>10 DEF WaitingInv
<1>2. ASSUME NEW c \in Consumers, Waiting!Read(c) PROVE Goal
  <2>1. /\ buffer # <<>> /\ buffer' = Tail(buffer) /\ popped' = popped \o <<Head(buffer)>>
        /\ UNCHANGED <<endSignal, nonempty, sent, pc>>
    BY <1>2 DEF Waiting!Read
  <2>2. /\ Moves(buffer, popped, buffer', popped', AllPortions)
        /\ buffer' \in Seq(Portion) /\ Len(buffer') = Len(buffer) - 1 /\ popped' \in Seq(Portion)
    BY <1>0, <2>1, TakesOne
  <2>3. Len(buffer') <= Cardinality(Upto(sent'))
    BY <1>0, <2>1, <2>2 DEF WaitingInv
  <2>4. Waiting!TypeOK'
    BY <2>1, <2>2 DEF WaitingInv, Waiting!TypeOK
  <2> QED BY <2>1, <2>2, <2>3, <2>4 DEF WaitingInv
<1>3. ASSUME NEW c \in Consumers, Waiting!ReadSleep(c) \/ Waiting!ReadDone(c) \/ Waiting!Spurious(c)
      PROVE  Goal
  <2>1. UNCHANGED <<buffer, sent, popped>>
    BY <1>3 DEF Waiting!ReadSleep, Waiting!ReadDone, Waiting!Spurious
  <2>2. Waiting!TypeOK' /\ \A p \in Producers : pc'[p] = pc[p]
    BY <1>3, <2>1, ThreadsApart
       DEF WaitingInv, Waiting!TypeOK, Waiting!ReadSleep, Waiting!ReadDone, Waiting!Spurious
  <2> QED BY <2>1, <2>2 DEF WaitingInv, Moves
<1>4. CASE Waiting!End
  BY <1>4 DEF Waiting!End, WaitingInv, Waiting!TypeOK, Moves
<1>5. ASSUME NEW t \in Threads, Waiting!Thread(t) PROVE Goal
  BY <1>1, <1>2, <1>3, <1>5 DEF Waiting!Thread, Waiting!Reader
<1> QED BY <1>3, <1>4, <1>5 DEF Waiting!Environment

-----------------------------------------------------------------------------
(***************************************************************************)
(* The queue of MonitorObject.                                             *)
(***************************************************************************)

\* The portions added, also those whose add() has not returned
Added == [p \in Producers |-> IF pc[p] = "notify" THEN sent[p] + 1 ELSE sent[p]]

SafeInv ==
  /\ Safe!TypeOK
  /\ Len(buffer) <= Cardinality(Upto(Added))
  /\ \A t \in Threads : pc[t] \in {"call", "notify", "take"} => sent[t] < Items

LEMMA SafeStep ==
  ASSUME SafeInv, (\E t \in Threads : Safe!Thread(t)) \/ Safe!Environment
  PROVE  SafeInv' /\ Moves(buffer, popped, buffer', popped', AllPortions)
<1> USE SameThreads, SamePortions
<1> DEFINE Goal == SafeInv' /\ Moves(buffer, popped, buffer', popped', AllPortions)
<1>0. /\ buffer \in Seq(Portion) /\ popped \in Seq(Portion) /\ Len(buffer) \in Nat
      /\ sent \in [Threads -> 0 .. Items] /\ Items \in Nat
      /\ pc \in [Threads -> {"call", "notify", "take", "undefined", "done"}]
      /\ Cardinality(Upto(Added)) \in Nat /\ AllPortions \in Nat
      /\ Added \in [Producers -> Nat]
  BY BufferBoundsAssumption, UptoType, PortionsCounted, ThreadsApart
     DEF SafeInv, Safe!TypeOK, Added
<1>1. ASSUME NEW p \in Producers, Safe!Push(p) PROVE Goal
  <2> DEFINE x == <<p, sent[p] + 1>>
  <2>1. /\ buffer' = buffer \o <<x>> /\ popped' = popped /\ UNCHANGED <<nonempty, sent>>
        /\ pc[p] = "call" /\ pc' = [pc EXCEPT ![p] = "notify"]
    BY <1>1 DEF Safe!Push, Safe!Goto
  <2>2. sent[p] < Items /\ sent[p] \in 0 .. Items /\ p \in Threads
    BY <1>0, <2>1, ThreadsApart DEF SafeInv
  <2>3. x \in Portion
    BY <2>2, NextPortionType
  <2>4. Added' = [Added EXCEPT ![p] = Added[p] + 1] /\ Added[p] = sent[p]
    BY <1>0, <2>1, <2>2, ThreadsApart DEF Added
  <2>5. /\ Cardinality(Upto(Added')) = Cardinality(Upto(Added)) + 1
        /\ Cardinality(Upto(Added)) < AllPortions
    <3> HIDE DEF Added
    <3> QED BY <1>0, <2>2, <2>4, UptoGrows
  <2>6. Len(buffer) < AllPortions
    BY <1>0, <2>5 DEF SafeInv
  <2> HIDE DEF x
  <2>7. /\ Moves(buffer, popped, buffer', popped', AllPortions)
        /\ buffer' \in Seq(Portion) /\ Len(buffer') = Len(buffer) + 1
    BY <1>0, <2>1, <2>3, <2>6, AddsOne
  <2>8. Safe!TypeOK' /\ \A t \in Threads : pc'[t] \in {"call", "notify", "take"} => sent'[t] < Items
    BY <1>0, <2>1, <2>2, <2>7 DEF SafeInv, Safe!TypeOK
  <2>9. Len(buffer') <= Cardinality(Upto(Added'))
    BY <1>0, <2>5, <2>7 DEF SafeInv
  <2> QED BY <2>7, <2>8, <2>9 DEF SafeInv
<1>2. ASSUME NEW p \in Producers, Safe!NotifyOne(p) PROVE Goal
  <2>1. /\ UNCHANGED <<buffer, popped>> /\ pc[p] = "notify"
        /\ pc' = [pc EXCEPT ![p] = IF sent[p] + 1 < Items THEN "call" ELSE "done"]
        /\ sent' = [sent EXCEPT ![p] = sent[p] + 1]
    BY <1>2 DEF Safe!NotifyOne, Safe!Return, Safe!Goto
  <2>2. nonempty' \subseteq nonempty
    BY <1>2 DEF Safe!NotifyOne, Safe!Notify
  <2>3. p \in Threads /\ sent[p] < Items /\ sent[p] \in 0 .. Items
    BY <1>0, <2>1, ThreadsApart DEF SafeInv
  <2>4. Added' = Added
    BY <1>0, <2>1, <2>3, ThreadsApart DEF Added
  <2>5. Safe!TypeOK' /\ \A t \in Threads : pc'[t] \in {"call", "notify", "take"} => sent'[t] < Items
    BY <1>0, <2>1, <2>2, <2>3 DEF SafeInv, Safe!TypeOK
  <2> QED BY <2>1, <2>4, <2>5 DEF SafeInv, Moves
<1>3. ASSUME NEW c \in Consumers, Safe!Take(c) PROVE Goal
  <2>1. /\ buffer # <<>> /\ buffer' = Tail(buffer) /\ popped' = popped \o <<Head(buffer)>>
        /\ UNCHANGED nonempty /\ pc[c] = "take"
        /\ pc' = [pc EXCEPT ![c] = IF sent[c] + 1 < Items THEN "call" ELSE "done"]
        /\ sent' = [sent EXCEPT ![c] = sent[c] + 1]
    BY <1>3 DEF Safe!Take, Safe!Return, Safe!Goto
  <2>2. /\ Moves(buffer, popped, buffer', popped', AllPortions)
        /\ buffer' \in Seq(Portion) /\ Len(buffer') = Len(buffer) - 1 /\ popped' \in Seq(Portion)
    BY <1>0, <2>1, TakesOne
  <2>3. c \in Threads /\ sent[c] < Items /\ sent[c] \in 0 .. Items
    BY <1>0, <2>1, ThreadsApart DEF SafeInv
  <2>4. Added' = Added
    BY <1>0, <2>1, <2>3, ThreadsApart DEF Added
  <2>5. Len(buffer') <= Cardinality(Upto(Added'))
    BY <1>0, <2>2, <2>4 DEF SafeInv
  <2>6. Safe!TypeOK' /\ \A t \in Threads : pc'[t] \in {"call", "notify", "take"} => sent'[t] < Items
    BY <1>0, <2>1, <2>2, <2>3 DEF SafeInv, Safe!TypeOK
  <2> QED BY <2>2, <2>5, <2>6 DEF SafeInv
<1>4. ASSUME NEW c \in Consumers,
             Safe!WaitSleep(c) \/ Safe!Wait(c) \/ Safe!TakeUndefined(c) \/ Safe!Spurious(c)
      PROVE  Goal
  <2>1. UNCHANGED <<buffer, sent, popped>>
    BY <1>4 DEF Safe!WaitSleep, Safe!Wait, Safe!TakeUndefined, Safe!Spurious
  <2>2. /\ Safe!TypeOK' /\ \A p \in Producers : pc'[p] = pc[p]
        /\ \A t \in Threads : pc'[t] \in {"call", "notify", "take"} => sent[t] < Items
    BY <1>4, <2>1, ThreadsApart
       DEF SafeInv, Safe!TypeOK, Safe!WaitSleep, Safe!Wait, Safe!TakeUndefined, Safe!Spurious, Safe!Goto
  <2>3. Added' = Added
    BY <2>1, <2>2 DEF Added
  <2> QED BY <2>1, <2>2, <2>3 DEF SafeInv, Moves
<1>5. ASSUME NEW t \in Threads, Safe!Thread(t) PROVE Goal
  BY <1>1, <1>2, <1>3, <1>4, <1>5 DEF Safe!Thread, Safe!Producer, Safe!Consumer
<1> QED BY <1>4, <1>5 DEF Safe!Environment

-----------------------------------------------------------------------------
(***************************************************************************)
(* The buffer with two semaphores.                                         *)
(***************************************************************************)

\* Whoever has a position that is neither empty nor filled: a producer between acquire
\* and add, and a consumer between take and release
Holding == {t \in Threads : \/ t \in Producers /\ pc[t] = "buffer"
                            \/ t \in Consumers /\ pc[t] = "release"}

DijkstraInv ==
  /\ Dijkstra!TypeOK
  /\ empty + Cardinality(Holding) + Len(buffer) = Size
  /\ \A p \in Producers : pc[p] \in {"acquire", "buffer"} => sent[p] < Items

LEMMA ThreadsFinite == ASSUME NEW S \in SUBSET Threads
                       PROVE  IsFiniteSet(S) /\ Cardinality(S) \in Nat
<1>1. IsFiniteSet(Threads)
  BY BufferThreadsAssumption, FS_Union DEF Threads
<1> QED BY <1>1, FS_Subset, FS_CardinalityType

\* A thread takes a position, or gives it up.
LEMMA HoldingGrows ==
  ASSUME NEW S \in SUBSET Threads, NEW t \in Threads, t \notin S, NEW T, T = S \cup {t}
  PROVE  Cardinality(T) = Cardinality(S) + 1
BY ThreadsFinite, FS_AddElement

LEMMA HoldingShrinks ==
  ASSUME NEW S \in SUBSET Threads, NEW t \in S, NEW T, T = S \ {t}
  PROVE  Cardinality(T) = Cardinality(S) - 1
BY ThreadsFinite, FS_RemoveElement

LEMMA DijkstraStep ==
  ASSUME DijkstraInv, (\E t \in Threads : Dijkstra!Thread(t)) \/ Dijkstra!Environment
  PROVE  DijkstraInv' /\ Moves(buffer, popped, buffer', popped', Size)
<1> USE SameThreads, SamePortions, SameCount
<1> DEFINE Goal == DijkstraInv' /\ Moves(buffer, popped, buffer', popped', Size)
           Steps == {"acquire", "buffer", "release", "undefined", "done"}
           Loop == \A p \in Producers : pc[p] \in {"acquire", "buffer"} => sent[p] < Items
<1>0. /\ buffer \in Seq(Portion) /\ popped \in Seq(Portion) /\ Len(buffer) \in Nat
      /\ sent \in [Producers -> 0 .. Items] /\ Items \in Nat /\ Size \in Nat
      /\ pc \in [Threads -> Steps] /\ Loop
      /\ empty \in Nat /\ count \in 0 .. Size /\ Len(buffer) <= Size
      /\ Holding \in SUBSET Threads /\ Cardinality(Holding) \in Nat
  BY BufferBoundsAssumption, ThreadsFinite
     DEF DijkstraInv, Dijkstra!TypeOK, Holding
<1>b. empty + Cardinality(Holding) + Len(buffer) = Size
  BY DEF DijkstraInv
<1>1. ASSUME NEW p \in Producers, Dijkstra!AcquireEmpty(p) PROVE Goal
  <2>1. /\ pc[p] = "acquire" /\ pc' = [pc EXCEPT ![p] = "buffer"] /\ empty > 0 /\ empty' = empty - 1
        /\ UNCHANGED <<buffer, count, sent, popped>>
    BY <1>1 DEF Dijkstra!AcquireEmpty, Dijkstra!Goto, Dijkstra!Acquire
  <2>2. Holding' = Holding \cup {p} /\ p \notin Holding /\ p \in Threads
    BY <1>0, <2>1, ThreadsApart DEF Holding
  <2>3. Cardinality(Holding') = Cardinality(Holding) + 1
    <3> HIDE DEF Holding
    <3> QED BY <1>0, <2>2, HoldingGrows
  <2>4. Loop'
    BY <1>0, <2>1, ThreadsApart
  <2>5. Dijkstra!TypeOK'
    BY <1>0, <1>b, <2>1, ThreadsApart DEF DijkstraInv, Dijkstra!TypeOK
  <2>6. empty' + Cardinality(Holding)' + Len(buffer)' = Size
    BY <1>0, <1>b, <2>1, <2>3
  <2> QED BY <2>1, <2>4, <2>5, <2>6 DEF DijkstraInv, Moves
<1>2. ASSUME NEW p \in Producers, Dijkstra!Add(p) PROVE Goal
  <2> DEFINE x == <<p, sent[p] + 1>>
  <2>1. /\ pc[p] = "buffer" /\ pc' = [pc EXCEPT ![p] = "release"]
        /\ buffer' = buffer \o <<x>> /\ sent' = [sent EXCEPT ![p] = sent[p] + 1]
        /\ UNCHANGED <<count, empty, popped>>
    BY <1>2 DEF Dijkstra!Add, Dijkstra!Goto
  <2>2. Holding' = Holding \ {p} /\ p \in Holding /\ p \in Threads
    BY <1>0, <2>1, ThreadsApart DEF Holding
  <2>3. Cardinality(Holding') = Cardinality(Holding) - 1
    <3> HIDE DEF Holding
    <3> QED BY <1>0, <2>2, HoldingShrinks
  <2>4. sent[p] < Items /\ sent[p] \in 0 .. Items
    BY <1>0, <2>1
  <2>5. x \in Portion /\ sent[p] + 1 \in 0 .. Items
    BY <2>4, NextPortionType
  <2>6. Cardinality(Holding') \in Nat
    BY ThreadsFinite DEF Holding
  <2>7. Len(buffer) < Size
    BY <1>0, <1>b, <2>3, <2>6
  <2> HIDE DEF x
  <2>8. /\ Moves(buffer, popped, buffer', popped', Size)
        /\ buffer' \in Seq(Portion) /\ Len(buffer') = Len(buffer) + 1
    BY <1>0, <2>1, <2>5, <2>7, AddsOne
  <2>9. Loop'
    BY <1>0, <2>1, <2>4, ThreadsApart
  <2>10. Dijkstra!TypeOK'
    BY <1>0, <2>1, <2>5, <2>7, <2>8, ThreadsApart DEF DijkstraInv, Dijkstra!TypeOK
  <2>11. empty' + Cardinality(Holding)' + Len(buffer)' = Size
    <3>1. Cardinality(Holding)' = Cardinality(Holding) - 1 /\ Len(buffer)' = Len(buffer) + 1
      BY <2>3, <2>8
    <3>2. empty + (Cardinality(Holding) - 1) + (Len(buffer) + 1) = Size
      <4> DEFINE k == Cardinality(Holding)
                 n == Len(buffer)
      <4>1. k \in Nat /\ n \in Nat /\ empty \in Nat /\ empty + k + n = Size
        BY <1>0, <1>b
      <4> HIDE DEF k, n
      <4>2. empty + (k - 1) + (n + 1) = Size
        BY <4>1
      <4> QED BY <4>2 DEF k, n
    <3>3. empty' = empty
      BY <2>1
    <3> QED BY <1>b, <3>1, <3>2, <3>3
  <2> QED BY <2>8, <2>9, <2>10, <2>11 DEF DijkstraInv
<1>3. ASSUME NEW p \in Producers, Dijkstra!ReleaseQueueing(p) \/ Dijkstra!ReleaseUndefined(p)
      PROVE  Goal
  <2>1. /\ pc[p] = "release" /\ UNCHANGED <<buffer, empty, sent, popped>>
        /\ count' = count \/ (count < Size /\ count' = count + 1)
        /\ \/ pc' = [pc EXCEPT ![p] = IF sent[p] < Items THEN "acquire" ELSE "done"]
           \/ pc' = [pc EXCEPT ![p] = "undefined"]
    BY <1>3 DEF Dijkstra!ReleaseQueueing, Dijkstra!ReleaseUndefined, Dijkstra!Goto, Dijkstra!Release
  <2>2. Holding' = Holding
    BY <1>0, <2>1, ThreadsApart DEF Holding
  <2>3. Loop'
    BY <1>0, <2>1, ThreadsApart
  <2>4. count' \in 0 .. Size
    BY <1>0, <2>1
  <2>5. Dijkstra!TypeOK'
    BY <1>0, <2>1, <2>4, ThreadsApart DEF DijkstraInv, Dijkstra!TypeOK
  <2>6. empty' + Cardinality(Holding)' + Len(buffer)' = Size
    BY <1>0, <1>b, <2>1, <2>2
  <2> QED BY <2>1, <2>3, <2>5, <2>6 DEF DijkstraInv, Moves
<1>4. ASSUME NEW c \in Consumers,
             Dijkstra!AcquireQueueing(c) \/ Dijkstra!Timeout(c) \/ Dijkstra!TakeNothing(c)
      PROVE  Goal
  <2>1. /\ pc[c] \in {"acquire", "buffer"} /\ UNCHANGED <<buffer, empty, sent, popped>>
        /\ pc' = [pc EXCEPT ![c] = "buffer"] \/ pc' = [pc EXCEPT ![c] = "done"]
        /\ count' = count \/ (count > 0 /\ count' = count - 1)
    BY <1>4 DEF Dijkstra!AcquireQueueing, Dijkstra!Timeout, Dijkstra!TakeNothing, Dijkstra!Goto,
                Dijkstra!Acquire
  <2>2. Holding' = Holding
    BY <1>0, <2>1, ThreadsApart DEF Holding
  <2>3. Loop'
    BY <1>0, <2>1, ThreadsApart
  <2>4. Dijkstra!TypeOK'
    BY <1>0, <2>1, ThreadsApart DEF DijkstraInv, Dijkstra!TypeOK
  <2>5. empty' + Cardinality(Holding)' + Len(buffer)' = Size
    BY <1>0, <1>b, <2>1, <2>2
  <2> QED BY <2>1, <2>3, <2>4, <2>5 DEF DijkstraInv, Moves
<1>5. ASSUME NEW c \in Consumers, Dijkstra!Take(c) PROVE Goal
  <2>1. /\ pc[c] = "buffer" /\ pc' = [pc EXCEPT ![c] = "release"] /\ buffer # <<>>
        /\ buffer' = Tail(buffer) /\ popped' = popped \o <<Head(buffer)>>
        /\ UNCHANGED <<count, empty, sent>>
    BY <1>5 DEF Dijkstra!Take, Dijkstra!Goto
  <2>2. Holding' = Holding \cup {c} /\ c \notin Holding /\ c \in Threads
    BY <1>0, <2>1, ThreadsApart DEF Holding
  <2>3. Cardinality(Holding') = Cardinality(Holding) + 1
    <3> HIDE DEF Holding
    <3> QED BY <1>0, <2>2, HoldingGrows
  <2>4. /\ Moves(buffer, popped, buffer', popped', Size)
        /\ buffer' \in Seq(Portion) /\ Len(buffer') = Len(buffer) - 1 /\ popped' \in Seq(Portion)
    BY <1>0, <2>1, TakesOne
  <2>5. Loop'
    BY <1>0, <2>1, ThreadsApart
  <2>6. Dijkstra!TypeOK'
    BY <1>0, <2>1, <2>4, ThreadsApart DEF DijkstraInv, Dijkstra!TypeOK
  <2>7. empty' + Cardinality(Holding)' + Len(buffer)' = Size
    BY <1>0, <1>b, <2>1, <2>3, <2>4
  <2> QED BY <2>4, <2>5, <2>6, <2>7 DEF DijkstraInv
<1>6. ASSUME NEW c \in Consumers, Dijkstra!ReleaseEmpty(c) PROVE Goal
  <2>1. /\ pc[c] = "release" /\ pc' = [pc EXCEPT ![c] = "acquire"] /\ empty' = empty + 1
        /\ UNCHANGED <<buffer, count, sent, popped>>
    BY <1>6 DEF Dijkstra!ReleaseEmpty, Dijkstra!Goto, Dijkstra!Release
  <2>2. Holding' = Holding \ {c} /\ c \in Holding /\ c \in Threads
    BY <1>0, <2>1, ThreadsApart DEF Holding
  <2>3. Cardinality(Holding') = Cardinality(Holding) - 1
    <3> HIDE DEF Holding
    <3> QED BY <1>0, <2>2, HoldingShrinks
  <2>4. Cardinality(Holding') \in Nat
    BY ThreadsFinite DEF Holding
  <2>5. Loop'
    BY <1>0, <2>1, ThreadsApart
  <2>6. empty' \in 0 .. Size
    BY <1>0, <1>b, <2>1, <2>3, <2>4
  <2>7. Dijkstra!TypeOK'
    BY <1>0, <2>1, <2>6, ThreadsApart DEF DijkstraInv, Dijkstra!TypeOK
  <2>8. empty' + Cardinality(Holding)' + Len(buffer)' = Size
    BY <1>0, <1>b, <2>1, <2>3
  <2> QED BY <2>1, <2>5, <2>7, <2>8 DEF DijkstraInv, Moves
<1>7. ASSUME NEW t \in Threads, Dijkstra!Thread(t) PROVE Goal
  BY <1>1, <1>2, <1>3, <1>4, <1>5, <1>6, <1>7
     DEF Dijkstra!Thread, Dijkstra!Producer, Dijkstra!Consumer
<1> QED BY <1>4, <1>7 DEF Dijkstra!Environment

-----------------------------------------------------------------------------
(***************************************************************************)
(* The monitor's ring: portions, and nothing but portions, from head to    *)
(* tail.                                                                   *)
(***************************************************************************)
MonitorInv ==
  /\ Monitor!TypeOK
  /\ tail = (head + count) % Size
  /\ RingOf(buffer, head, count, Size, Portion)
  /\ \A p \in Producers : pc[p] # "done" => sent[p] < Items

LEMMA MonitorStep ==
  ASSUME MonitorInv,
         (\E t \in Threads : Monitor!Thread(t)) \/ Monitor!Stopping \/ Monitor!Environment
  PROVE  MonitorInv' /\ Moves(Monitor!Contents, popped, Monitor!Contents', popped', Size)
<1> USE SameThreads, SamePortions
<1> DEFINE Goal == MonitorInv' /\ Moves(Monitor!Contents, popped, Monitor!Contents', popped', Size)
           Filled == RingOf(buffer, head, count, Size, Portion)
           Loop == \A p \in Producers : pc[p] # "done" => sent[p] < Items
<1>0. /\ Monitor!TypeOK /\ tail = (head + count) % Size /\ Filled /\ Loop
      /\ buffer \in [0 .. Size - 1 -> Portion \cup {Nobody}]
      /\ head \in 0 .. Size - 1 /\ tail \in 0 .. Size - 1 /\ count \in 0 .. Size
      /\ sent \in [Producers -> 0 .. Items] /\ popped \in Seq(Portion)
      /\ pc \in [Threads -> {"call", "sleep", "done"}]
      /\ Items \in Nat /\ Size \in Nat \ {0}
  BY BufferBoundsAssumption DEF MonitorInv, Monitor!TypeOK
<1>b. RingOf(buffer, head, count, Size, Portion)
  BY <1>0
<1>a. /\ Monitor!Contents = Ring(buffer, head, count, Size)
      /\ Monitor!Contents' = Ring(buffer', head', count', Size)
  BY DEF Monitor!Contents, Ring
<1>1. CASE UNCHANGED <<buffer, head, tail, count, sent, popped>> /\ Monitor!TypeOK'
           /\ \A p \in Producers : pc'[p] # "done" => pc[p] # "done"
  BY <1>0, <1>1, <1>a DEF MonitorInv, Moves
<1>2. ASSUME NEW t \in Threads, Monitor!Block(t) \/ Monitor!Sleep(t) PROVE Goal
  <2>1. /\ UNCHANGED <<buffer, head, tail, count, sent, popped>>
        /\ \A p \in Producers : pc'[p] # "done" => pc[p] # "done"
    BY <1>0, <1>2, ThreadsApart DEF Monitor!Block, Monitor!Sleep, Monitor!Enters
  <2>2. Monitor!TypeOK'
    BY <1>2, ThreadsApart DEF Monitor!TypeOK, MonitorInv, Monitor!Block, Monitor!Sleep
  <2> QED BY <1>1, <2>1, <2>2
<1>3. CASE Monitor!Stopping \/ Monitor!Environment
  <2>1. /\ UNCHANGED <<buffer, head, tail, count, sent, popped, pc, mutex>>
        /\ nonempty' \subseteq nonempty /\ nonfull' \subseteq nonfull
    BY <1>3 DEF Monitor!Stopping, Monitor!Environment, Monitor!NotifyNonempty,
                Monitor!NotifyNonfull, Monitor!Stop, Monitor!Spurious, Monitor!NotifyAll
  <2>2. endSignal' \in BOOLEAN /\ main' \in {"wait", "nonempty", "nonfull", "join"}
    BY <1>0, <1>3 DEF Monitor!Stopping, Monitor!Environment, Monitor!NotifyNonempty,
                Monitor!NotifyNonfull, Monitor!Stop, Monitor!Spurious, Monitor!NotifyAll,
                Monitor!TypeOK
  <2>3. Monitor!TypeOK'
    BY <1>0, <2>1, <2>2 DEF Monitor!TypeOK
  <2> QED BY <1>1, <2>1, <2>3
<1>4. ASSUME NEW p \in Producers, Monitor!NextPortion(p), pc[p] = "call"
      PROVE  /\ sent' \in [Producers -> 0 .. Items] /\ pc' \in [Threads -> {"call", "sleep", "done"}]
             /\ Loop' /\ <<p, sent[p] + 1>> \in Portion
  <2>1. p \in Threads /\ sent[p] < Items /\ sent[p] \in 0 .. Items
    BY <1>0, <1>4, ThreadsApart
  <2>2. <<p, sent[p] + 1>> \in Portion /\ sent[p] + 1 \in 0 .. Items
    BY <2>1, NextPortionType
  <2> QED BY <1>0, <1>4, <2>1, <2>2, ThreadsApart DEF Monitor!NextPortion
<1>5. ASSUME NEW p \in Producers, Monitor!AppendPortion(p) PROVE Goal
  <2> DEFINE x == <<p, sent[p] + 1>>
  <2>1. /\ pc[p] = "call" /\ count < Size /\ buffer' = [buffer EXCEPT ![tail] = x]
        /\ tail' = (tail + 1) % Size /\ count' = count + 1 /\ Monitor!NextPortion(p)
        /\ UNCHANGED <<head, mutex, endSignal, nonfull, popped, main>>
    BY <1>5 DEF Monitor!AppendPortion, Monitor!Enters
  <2>2. nonempty' \subseteq nonempty
    BY <1>5 DEF Monitor!AppendPortion, Monitor!Notify
  <2>3. /\ sent' \in [Producers -> 0 .. Items] /\ pc' \in [Threads -> {"call", "sleep", "done"}]
        /\ Loop' /\ x \in Portion
    BY <1>4, <2>1
  <2> HIDE DEF x
  <2>4. count # Size /\ count' \in 0 .. Size
    BY <1>0, <2>1
  <2>5. /\ RingOf(buffer', head, count, Size, Portion)
        /\ Ring(buffer', head, count, Size) = Ring(buffer, head, count, Size)
        /\ buffer'[(head + count) % Size] = x
    <3>1. buffer' = Put(buffer, (head + count) % Size, x) /\ DOMAIN buffer = 0 .. Size - 1
      BY <1>0, <2>1 DEF Put
    <3> QED BY <1>b, <2>4, <3>1, RingKept
  <2>6. /\ RingOf(buffer', head, count + 1, Size, Portion)
        /\ Ring(buffer', head, count + 1, Size) = Append(Ring(buffer, head, count, Size), x)
    <3>1. buffer'[(head + count) % Size] \in Portion
      BY <2>3, <2>5
    <3>2. /\ RingOf(buffer', head, count + 1, Size, Portion)
          /\ Ring(buffer', head, count + 1, Size)
               = Append(Ring(buffer', head, count, Size), buffer'[(head + count) % Size])
      BY <2>4, <2>5, <3>1, RingGrows, Zenon
    <3> QED BY <2>5, <3>2
  <2>7. tail' = (head + (count + 1)) % Size /\ tail' \in 0 .. Size - 1
    <3>1. (((head + count) % Size) + 1) % Size = (head + (count + 1)) % Size
      BY <1>b, <2>4, RingMoves
    <3>2. (head + (count + 1)) % Size \in 0 .. Size - 1
      BY <2>6, RingMoves
    <3> QED BY <1>0, <2>1, <3>1, <3>2
  <2>8. buffer' \in [0 .. Size - 1 -> Portion \cup {Nobody}]
    BY <1>0, <2>1, <2>3
  <2>9. Len(Ring(buffer, head, count, Size)) = count
    BY <1>0, RingType
  <2>10. Monitor!TypeOK'
    BY <1>0, <2>1, <2>2, <2>3, <2>4, <2>7, <2>8 DEF Monitor!TypeOK
  <2>11. MonitorInv'
    BY <2>1, <2>3, <2>6, <2>7, <2>10 DEF MonitorInv
  <2>12. Moves(Monitor!Contents, popped, Monitor!Contents', popped', Size)
    <3>1. x \in Value
      BY <2>3 DEF Value
    <3>2. Monitor!Contents' = Append(Monitor!Contents, x) /\ Len(Monitor!Contents) < Size
      BY <1>a, <2>1, <2>6, <2>9
    <3> QED BY <2>1, <3>1, <3>2 DEF Moves
  <2> QED BY <2>11, <2>12
<1>6. ASSUME NEW p \in Producers, Monitor!AppendEnded(p) PROVE Goal
  <2>1. /\ pc[p] = "call" /\ Monitor!NextPortion(p)
        /\ UNCHANGED <<buffer, head, tail, count, mutex, endSignal, nonempty, nonfull, popped, main>>
    BY <1>6 DEF Monitor!AppendEnded, Monitor!Enters
  <2>2. /\ sent' \in [Producers -> 0 .. Items] /\ pc' \in [Threads -> {"call", "sleep", "done"}]
        /\ Loop'
    BY <1>4, <2>1
  <2>3. Monitor!TypeOK'
    BY <1>0, <2>1, <2>2 DEF Monitor!TypeOK
  <2>4. MonitorInv'
    BY <1>0, <2>1, <2>2, <2>3 DEF MonitorInv
  <2>5. Monitor!Contents' = Monitor!Contents
    BY <1>a, <2>1
  <2> QED BY <2>1, <2>4, <2>5 DEF Moves
<1>7. ASSUME NEW c \in Consumers, Monitor!RemovePortion(c) PROVE Goal
  <2> DEFINE x == buffer[head]
  <2>1. /\ count > 0 /\ popped' = popped \o <<x>>
        /\ head' = (head + 1) % Size /\ count' = count - 1
        /\ UNCHANGED <<buffer, tail, mutex, endSignal, nonempty, sent, pc, main>>
    BY <1>7 DEF Monitor!RemovePortion, Monitor!Enters
  <2>2. nonfull' \subseteq nonfull
    BY <1>7 DEF Monitor!RemovePortion, Monitor!Notify
  <2> DEFINE r == Ring(buffer, head, count, Size)
  <2>a. count # 0
    BY <1>0, <2>1
  <2>3. /\ RingOf(buffer, head', count', Size, Portion)
        /\ r # <<>> /\ Head(r) = x /\ Tail(r) = Ring(buffer, head', count', Size)
    <3>1. /\ RingOf(buffer, (head + 1) % Size, count - 1, Size, Portion)
          /\ Pops(r, x, Ring(buffer, (head + 1) % Size, count - 1, Size))
      BY <1>b, <2>a, RingShrinks
    <3> HIDE DEF r
    <3> QED BY <2>1, <3>1 DEF Pops
  <2>4. tail' = (head' + count') % Size
    <3>1. (head + count) % Size = (((head + 1) % Size) + (count - 1)) % Size
      BY <1>b, <2>a, RingMoves
    <3> QED BY <1>0, <2>1, <3>1
  <2>5. r \in Seq(Portion) /\ count' \in 0 .. Size /\ head' \in 0 .. Size - 1
    BY <1>0, <2>3, RingType
  <2> HIDE DEF r, x
  <2>6. Moves(r, popped, Tail(r), popped \o <<x>>, Size) /\ popped \o <<x>> \in Seq(Portion)
    BY <1>0, <2>3, <2>5, TakesOne
  <2>7. Monitor!TypeOK'
    BY <1>0, <2>1, <2>2, <2>5, <2>6 DEF Monitor!TypeOK
  <2>8. MonitorInv'
    BY <1>0, <2>1, <2>3, <2>4, <2>7 DEF MonitorInv
  <2>9. Monitor!Contents = r /\ Monitor!Contents' = Tail(r)
    BY <1>a, <2>1, <2>3 DEF r
  <2> QED BY <2>1, <2>6, <2>8, <2>9
<1>8. ASSUME NEW c \in Consumers, Monitor!RemoveEnded(c) PROVE Goal
  <2>1. /\ pc' = [pc EXCEPT ![c] = "done"]
        /\ UNCHANGED <<buffer, head, tail, count, mutex, endSignal, nonempty, nonfull, sent, popped,
                       main>>
    BY <1>8 DEF Monitor!RemoveEnded, Monitor!Enters
  <2>2. Monitor!TypeOK'
    BY <1>0, <2>1 DEF Monitor!TypeOK
  <2>3. \A p \in Producers : pc'[p] # "done" => pc[p] # "done"
    BY <1>0, <2>1, ThreadsApart
  <2> QED BY <1>1, <2>1, <2>2, <2>3
<1>9. ASSUME NEW t \in Threads, Monitor!Thread(t) PROVE Goal
  BY <1>2, <1>5, <1>6, <1>7, <1>8, <1>9 DEF Monitor!Thread, Monitor!Producer, Monitor!Consumer
<1> QED BY <1>3, <1>9

-----------------------------------------------------------------------------
(***************************************************************************)
(* The queues of numbers.                                                  *)
(***************************************************************************)
Numbers == 0 .. 2 * Items

LEMMA NumbersAdd ==
  ASSUME NEW q \in Seq(Numbers), NEW x \in 1 .. 2 * Items, NEW p, NEW capacity, Len(q) < capacity
  PROVE  Moves(Numbered(q), p, Numbered(Append(q, x)), p, capacity)
<1>1. x \in Numbers
  BY DEF Numbers
<1>2. Numbered(Append(q, x)) = Append(Numbered(q), <<"item", x>>)
  BY <1>1, NumberedGrows
<1>3. Len(Numbered(q)) = Len(q)
  BY NumberedType
<1>4. <<"item", x>> \in Value
  BY DEF Value
<1> QED BY <1>2, <1>3, <1>4 DEF Moves

LEMMA NumbersTake ==
  ASSUME NEW q \in Seq(Numbers), NEW x \in Numbers, NEW q2, Pops(q, x, q2),
         NEW p \in Seq(Numbers), NEW capacity
  PROVE  /\ Moves(Numbered(q), Numbered(p), Numbered(q2), Numbered(Append(p, x)), capacity)
         /\ Append(p, x) \in Seq(Numbers)
<1>1. q # <<>> /\ Head(q) = x /\ Tail(q) = q2
  BY DEF Pops
<1>2. /\ Numbered(q) # <<>> /\ Head(Numbered(q)) = <<"item", Head(q)>>
      /\ Numbered(Tail(q)) = Tail(Numbered(q))
  BY <1>1, NumberedShrinks
<1>3. Numbered(Append(p, x)) = Append(Numbered(p), <<"item", x>>)
  BY NumberedGrows
<1>4. Append(p, x) \in Seq(Numbers)
  OBVIOUS
<1> QED BY <1>1, <1>2, <1>3, <1>4 DEF Moves

-----------------------------------------------------------------------------
(***************************************************************************)
(* One producer and one consumer: the ring has the messages for the        *)
(* consumer, and behind them the slot that the producer has to itself.     *)
(***************************************************************************)
Claimed == IF pc["producer"] = "enter" THEN 0 ELSE 1
\* The end of the ring, with the message that is written but not counted
Written == IF pc["producer"] = "leave" THEN Single!Length + 1 ELSE Single!Length

SingleControl ==
  /\ Single!Length + Claimed <= Size
  /\ pc["producer"] # "enter" => sent < 2 * Items
  /\ pc["consumer"] # "enter" => taken < 2 * Items
  /\ pc["consumer"] = "ring" => Single!Length > 0
  /\ IF program = "single"
     THEN /\ pc["producer"] # "enter" => count < Size
          /\ pc["consumer"] # "enter" => count > 0
     ELSE empty + Claimed + Single!Length + (IF pc["consumer"] = "leave" THEN 1 ELSE 0) = Size

SingleInv ==
  /\ Single!TypeOK /\ SingleControl
  /\ RingOf(buffer, head, Single!Length, Size, Numbers)
  /\ tail = (head + Written) % Size
  /\ pc["producer"] = "leave" => buffer[(head + Single!Length) % Size] = sent + 1

\* The waiting alone keeps the counts and the two threads apart.
LEMMA SingleControls ==
  ASSUME Single!TypeOK, SingleControl, Single!Length \in 0 .. Size,
         Single!Producer \/ Single!Consumer
  PROVE  /\ SingleControl' /\ count' \in 0 .. Size /\ empty' \in 0 .. Size
         /\ sent' \in Numbers /\ taken' \in Numbers /\ program' = program
         /\ pc' \in [{"producer", "consumer"} -> {"enter", "ring", "leave"}]
<1> DEFINE Goal == /\ SingleControl' /\ count' \in 0 .. Size /\ empty' \in 0 .. Size
                   /\ sent' \in Numbers /\ taken' \in Numbers /\ program' = program
                   /\ pc' \in [{"producer", "consumer"} -> {"enter", "ring", "leave"}]
<1>0. /\ Items \in Nat \ {0} /\ Size \in Nat \ {0}
      /\ program \in {"single", "single_c"} /\ count \in 0 .. Size /\ empty \in 0 .. Size
      /\ sent \in 0 .. 2 * Items /\ taken \in 0 .. 2 * Items
      /\ pc \in [{"producer", "consumer"} -> {"enter", "ring", "leave"}]
  BY BufferBoundsAssumption DEF Single!TypeOK
<1>1. CASE Single!ProducerEnter
  BY <1>0, <1>1 DEF Single!ProducerEnter, Single!Goto, SingleControl, Single!Length, Claimed, Numbers
<1>2. CASE Single!Write
  BY <1>0, <1>2 DEF Single!Write, Single!Goto, SingleControl, Single!Length, Claimed, Numbers
<1>3. CASE Single!ProducerLeave
  BY <1>0, <1>3 DEF Single!ProducerLeave, Single!Goto, SingleControl, Single!Length, Claimed, Numbers
<1>4. CASE Single!ConsumerEnter
  BY <1>0, <1>4 DEF Single!ConsumerEnter, Single!Goto, SingleControl, Single!Length, Claimed, Numbers
<1>5. CASE Single!Read
  BY <1>0, <1>5 DEF Single!Read, Single!Goto, SingleControl, Single!Length, Claimed, Numbers
<1>6. CASE Single!ConsumerLeave
  BY <1>0, <1>6 DEF Single!ConsumerLeave, Single!Goto, SingleControl, Single!Length, Claimed, Numbers
<1> QED BY <1>1, <1>2, <1>3, <1>4, <1>5, <1>6 DEF Single!Producer, Single!Consumer

LEMMA SingleStep ==
  ASSUME SingleInv, Single!Producer \/ Single!Consumer
  PROVE  /\ SingleInv' /\ program' = program
         /\ Moves(Numbered(Single!Contents), Numbered(popped),
                  Numbered(Single!Contents)', Numbered(popped)', Size)
<1> DEFINE k == Single!Length
           r == Ring(buffer, head, k, Size)
<1>0. /\ Single!TypeOK /\ SingleControl /\ tail = (head + Written) % Size
      /\ pc["producer"] = "leave" => buffer[(head + Single!Length) % Size] = sent + 1
      /\ buffer \in [0 .. Size - 1 -> Numbers] /\ popped \in Seq(Numbers)
      /\ head \in 0 .. Size - 1 /\ tail \in 0 .. Size - 1 /\ count \in 0 .. Size
      /\ sent \in 0 .. 2 * Items /\ program \in {"single", "single_c"}
      /\ pc \in [{"producer", "consumer"} -> {"enter", "ring", "leave"}]
      /\ Items \in Nat \ {0} /\ Size \in Nat \ {0}
  BY BufferBoundsAssumption DEF SingleInv, Single!TypeOK, Numbers
<1>b. RingOf(buffer, head, k, Size, Numbers)
  BY DEF SingleInv
<1>c. r \in Seq(Numbers) /\ Len(r) = k /\ k \in 0 .. Size
  <2> HIDE DEF k
  <2> QED BY <1>b, RingType
<1>d. k + Claimed <= Size /\ (pc["producer"] # "enter" => k # Size)
  BY <1>0, <1>c DEF SingleControl, Claimed
<1>e. /\ SingleControl' /\ count' \in 0 .. Size /\ empty' \in 0 .. Size
      /\ sent' \in Numbers /\ taken' \in Numbers /\ program' = program
      /\ pc' \in [{"producer", "consumer"} -> {"enter", "ring", "leave"}]
  BY <1>0, <1>c, SingleControls, Zenon
<1>f. /\ Single!Contents = r
      /\ Single!Contents' = Ring(buffer', head', k', Size)
      /\ Numbered(Single!Contents)' = Numbered(Single!Contents')
      /\ Numbered(popped)' = Numbered(popped')
  BY DEF Single!Contents, Ring, Numbered
<1>g. ASSUME buffer' \in [0 .. Size - 1 -> Numbers], popped' \in Seq(Numbers),
             head' \in 0 .. Size - 1, tail' \in 0 .. Size - 1
      PROVE  Single!TypeOK'
  BY <1>0, <1>e, <1>g DEF Single!TypeOK, Numbers
<1>1. CASE Single!ProducerEnter \/ Single!ConsumerEnter \/ Single!ConsumerLeave
  <2>1. /\ UNCHANGED <<buffer, head, tail, sent, popped>>
        /\ k' = k /\ Written' = Written
        /\ pc["producer"] = "leave" <=> pc'["producer"] = "leave"
    BY <1>0, <1>1 DEF Single!ProducerEnter, Single!ConsumerEnter, Single!ConsumerLeave, Single!Goto,
                      Single!Length, Written
  <2> HIDE DEF k, r
  <2>2. Single!TypeOK'
    BY <1>0, <1>g, <2>1
  <2>3. Single!Contents' = r
    BY <1>f, <2>1 DEF r
  <2>4. SingleInv'
    BY <1>0, <1>b, <1>e, <2>1, <2>2 DEF SingleInv, k
  <2> QED BY <1>e, <1>f, <2>1, <2>3, <2>4 DEF Moves
<1>2. CASE Single!Write
  <2>1. /\ buffer' = [buffer EXCEPT ![tail] = sent + 1] /\ tail' = (tail + 1) % Size
        /\ UNCHANGED <<head, sent, popped>> /\ k' = k /\ sent < 2 * Items
        /\ Written = k /\ Written' = k + 1 /\ k # Size
    BY <1>0, <1>2, <1>d DEF Single!Write, Single!Goto, Single!Length, Written, SingleControl
  <2> HIDE DEF k, r
  <2>2. sent + 1 \in Numbers
    BY <1>0, <2>1 DEF Numbers
  <2>3. buffer' = Put(buffer, (head + k) % Size, sent + 1) /\ DOMAIN buffer = 0 .. Size - 1
    BY <1>0, <2>1 DEF Put
  <2>4. /\ RingOf(buffer', head, k, Size, Numbers)
        /\ Ring(buffer', head, k, Size) = Ring(buffer, head, k, Size)
        /\ buffer'[(head + k) % Size] = sent + 1
    <3>1. k # Size
      BY <2>1
    <3> QED BY <1>b, <2>3, <3>1, RingKept
  <2>5. tail' = (head + (k + 1)) % Size /\ tail' \in 0 .. Size - 1
    <3>1. (((head + k) % Size) + 1) % Size = (head + (k + 1)) % Size
      BY <1>b, <2>1, RingMoves
    <3>2. tail' = (head + (k + 1)) % Size
      BY <1>0, <2>1, <3>1
    <3>3. tail + 1 \in Int
      BY <1>0
    <3> QED BY <1>0, <2>1, <3>2, <3>3
  <2>6. buffer' \in [0 .. Size - 1 -> Numbers]
    BY <1>0, <2>1, <2>2
  <2>7. Single!TypeOK'
    BY <1>0, <1>g, <2>1, <2>5, <2>6
  <2>8. SingleInv'
    BY <1>e, <2>1, <2>4, <2>5, <2>7 DEF SingleInv, k
  <2>9. Single!Contents' = r
    BY <1>f, <2>1, <2>4 DEF r
  <2> QED BY <1>e, <1>f, <2>1, <2>8, <2>9 DEF Moves
<1>3. CASE Single!ProducerLeave
  <2>1. /\ UNCHANGED <<buffer, head, tail, popped>> /\ k' = k + 1 /\ sent' = sent + 1
        /\ Written = k + 1 /\ Written' = k + 1 /\ k # Size /\ sent < 2 * Items
        /\ pc["producer"] = "leave" /\ pc'["producer"] = "enter"
    BY <1>0, <1>3, <1>c, <1>d
       DEF Single!ProducerLeave, Single!Goto, Single!Length, Written, SingleControl
  <2>2. buffer[(head + k) % Size] = sent + 1 /\ sent + 1 \in 1 .. 2 * Items /\ sent + 1 \in Numbers
    BY <1>0, <2>1 DEF Numbers
  <2> HIDE DEF k, r
  <2>3. /\ RingOf(buffer, head, k + 1, Size, Numbers)
        /\ Ring(buffer, head, k + 1, Size) = Append(Ring(buffer, head, k, Size), sent + 1)
    <3>1. k # Size /\ buffer[(head + k) % Size] \in Numbers
      BY <2>1, <2>2
    <3>2. /\ RingOf(buffer, head, k + 1, Size, Numbers)
          /\ Ring(buffer, head, k + 1, Size)
               = Append(Ring(buffer, head, k, Size), buffer[(head + k) % Size])
      BY <1>b, <3>1, RingGrows, Zenon
    <3> QED BY <2>2, <3>2
  <2>4. Single!TypeOK'
    BY <1>0, <1>g, <2>1
  <2>5. SingleInv'
    BY <1>0, <1>e, <2>1, <2>3, <2>4 DEF SingleInv, k
  <2>6. Single!Contents' = Append(r, sent + 1)
    BY <1>f, <2>1, <2>3 DEF r
  <2>7. Len(r) < Size
    BY <1>0, <1>c, <2>1
  <2>8. Moves(Numbered(r), Numbered(popped), Numbered(Append(r, sent + 1)), Numbered(popped), Size)
    BY <1>c, <2>2, <2>7, NumbersAdd
  <2> QED BY <1>e, <1>f, <2>1, <2>5, <2>6, <2>8
<1>4. CASE Single!Read
  <2>1. /\ popped' = Append(popped, buffer[head]) /\ head' = (head + 1) % Size
        /\ UNCHANGED <<buffer, tail, sent>> /\ k' = k - 1 /\ k > 0
        /\ pc'["producer"] = pc["producer"]
    BY <1>0, <1>4, <1>c DEF Single!Read, Single!Goto, Single!Length, SingleControl
  <2>2. /\ pc["producer"] = "leave" => Written = k + 1 /\ Written' = k
        /\ pc["producer"] # "leave" => Written = k /\ Written' = k - 1
    BY <1>c, <2>1 DEF Written
  <2> HIDE DEF k
  <2>3. k # 0 /\ (pc["producer"] = "leave" => k # Size)
    BY <1>c, <1>d, <2>1
  <2>4. /\ RingOf(buffer, (head + 1) % Size, k - 1, Size, Numbers)
        /\ Pops(r, buffer[head], Ring(buffer, (head + 1) % Size, k - 1, Size))
        /\ buffer[head] \in Numbers
    BY <1>b, <2>3, RingShrinks
  <2>5. /\ (head + k) % Size = (((head + 1) % Size) + (k - 1)) % Size
        /\ k # Size => (head + (k + 1)) % Size = (((head + 1) % Size) + k) % Size
    <3>1. (head + k) % Size = (((head + 1) % Size) + (k - 1)) % Size
      BY <1>b, <2>3, RingMoves
    <3>2. \A i \in 0 .. Size - 1 : (((head + 1) % Size) + i) % Size = (head + (i + 1)) % Size
      BY <1>0, Slots
    <3>3. k # Size => k \in 0 .. Size - 1
      BY <1>0, <1>c
    <3> QED BY <3>1, <3>2, <3>3
  <2>6. /\ tail' = (head' + Written') % Size
        /\ pc'["producer"] = "leave" => buffer'[(head' + k') % Size] = sent' + 1
    BY <1>0, <2>1, <2>2, <2>3, <2>5 DEF k
  <2> HIDE DEF r
  <2>7. /\ Moves(Numbered(r), Numbered(popped), Numbered(Ring(buffer', head', k', Size)),
                 Numbered(popped'), Size)
        /\ popped' \in Seq(Numbers)
    BY <1>0, <1>c, <2>1, <2>4, NumbersTake
  <2>8. head' \in 0 .. Size - 1
    BY <2>1, <2>4, RingType, Zenon
  <2>9. Single!TypeOK'
    BY <1>0, <1>g, <2>1, <2>7, <2>8
  <2>10. SingleInv'
    BY <1>e, <2>1, <2>4, <2>6, <2>9 DEF SingleInv, k
  <2> QED BY <1>e, <1>f, <2>7, <2>10
<1> QED BY <1>1, <1>2, <1>3, <1>4, <1>e DEF Single!Producer, Single!Consumer

-----------------------------------------------------------------------------
(***************************************************************************)
(* The lock-free queue has no count, but two positions.                    *)
(***************************************************************************)
Distance(h, t, N) == (t - h + N) % N

LEMMA DistanceOf ==
  ASSUME NEW N \in Nat \ {0}, NEW h \in 0 .. N - 1, NEW t \in 0 .. N - 1
  PROVE  /\ Distance(h, t, N) \in 0 .. N - 1
         /\ t = (h + Distance(h, t, N)) % N
         /\ \A k \in 0 .. N - 1 : t = (h + k) % N => Distance(h, t, N) = k
<1> DEFINE l == Distance(h, t, N)
<1>0. \A a \in 0 .. 2 * N - 1 : (a < N => a % N = a) /\ (a >= N => a % N = a - N)
  BY OneRound
<1>1. l = IF t - h + N < N THEN t - h + N ELSE t - h
  <2>1. t - h + N \in 0 .. 2 * N - 1
    OBVIOUS
  <2>2. t - h + N < N => (t - h + N) % N = t - h + N
    BY <1>0, <2>1
  <2>3. t - h + N >= N => (t - h + N) % N = t - h + N - N
    BY <1>0, <2>1
  <2>4. t - h + N - N = t - h /\ (t - h + N < N \/ t - h + N >= N)
    OBVIOUS
  <2> DEFINE m == (t - h + N) % N
  <2>5. m = IF t - h + N < N THEN t - h + N ELSE t - h
    BY <2>2, <2>3, <2>4
  <2> QED BY <2>5 DEF Distance
<1> HIDE DEF l
<1>2. l \in 0 .. N - 1
  BY <1>1
<1>3. ASSUME NEW k \in 0 .. N - 1
      PROVE  (h + k) % N = IF h + k < N THEN h + k ELSE h + k - N
  <2>1. h + k \in 0 .. 2 * N - 1
    OBVIOUS
  <2> QED BY <1>0, <2>1
<1>4. t = (h + l) % N
  <2>1. (h + l) % N = IF h + l < N THEN h + l ELSE h + l - N
    BY <1>2, <1>3
  <2> DEFINE m == (h + l) % N
  <2> HIDE DEF m
  <2>2. m = IF h + l < N THEN h + l ELSE h + l - N
    BY <2>1 DEF m
  <2>3. t = m
    BY <1>1, <2>2
  <2> QED BY <2>3 DEF m
<1>5. ASSUME NEW k \in 0 .. N - 1, t = (h + k) % N PROVE l = k
  <2>1. t = IF h + k < N THEN h + k ELSE h + k - N
    BY <1>3, <1>5
  <2> QED BY <1>1, <2>1
<1> QED BY <1>2, <1>4, <1>5 DEF l

\* Positions and a buffer of the right type make a ring.
LEMMA RingAt ==
  ASSUME NEW N \in Nat \ {0}, NEW h \in 0 .. N - 1, NEW l \in 0 .. N, NEW S,
         NEW b \in [0 .. N - 1 -> S]
  PROVE  RingOf(b, h, l, N, S)
<1>1. \A i \in 0 .. N : (h + i) % N \in 0 .. N - 1
  BY Slots
<1>2. ASSUME NEW n \in 1 .. l PROVE b[(h + n - 1) % N] \in S
  <2>1. n - 1 \in 0 .. N /\ h + n - 1 = h + (n - 1)
    OBVIOUS
  <2> QED BY <1>1, <2>1
<1> QED BY <1>2 DEF RingOf

\* The l elements of a ring without the first s
Seen(b, h, l, s, N) == [n \in 1 .. l - s |-> b[(h + n - 1 + s) % N]]
Front(h, s, N) == IF s = 0 THEN h ELSE (h + 1) % N

LEMMA SeenRing ==
  ASSUME NEW N \in Nat \ {0}, NEW h \in 0 .. N - 1, NEW l \in 0 .. N, NEW b,
         NEW s \in {0, 1}, s <= l
  PROVE  Seen(b, h, l, s, N) = Ring(b, Front(h, s, N), l - s, N)
<1>1. CASE s = 0
  <2>1. \A n \in 1 .. l : h + n - 1 + 0 = h + n - 1
    OBVIOUS
  <2>2. l - 0 = l
    OBVIOUS
  <2> QED BY <1>1, <2>1, <2>2 DEF Seen, Ring, Front
<1>2. CASE s = 1
  <2>1. \A i \in 0 .. N - 1 : (((h + 1) % N) + i) % N = (h + (i + 1)) % N
    BY Slots
  <2> DEFINE g == (h + 1) % N
  <2>0. g \in Int
    OBVIOUS
  <2>2. \A i \in 0 .. N - 1 : (g + i) % N = (h + (i + 1)) % N
    BY <2>1
  <2> HIDE DEF g
  <2>3. ASSUME NEW n \in 1 .. l - 1 PROVE b[(h + n - 1 + 1) % N] = b[(g + n - 1) % N]
    <3>1. n - 1 \in 0 .. N - 1 /\ g + n - 1 = g + (n - 1) /\ h + n - 1 + 1 = h + ((n - 1) + 1)
      BY <2>0
    <3> QED BY <2>2, <3>1
  <2>4. Front(h, s, N) = g
    BY <1>2 DEF Front, g
  <2> QED BY <1>2, <2>3, <2>4 DEF Seen, Ring
<1> QED BY <1>1, <1>2

LockFreeInv ==
  /\ LockFree!TypeOK
  /\ pc["producer"] \in {"write", "store"} => LockFree!Length < Size /\ sent <= 2 * Items
  /\ pc["producer"] = "store" => buffer[tail] = sent
  /\ pc["consumer"] \in {"read", "store"} => LockFree!Length > 0

LEMMA LockFreeStep ==
  ASSUME LockFreeInv, LockFree!Producer \/ LockFree!Consumer
  PROVE  /\ LockFreeInv'
         /\ Moves(Numbered(LockFree!Contents), Numbered(popped),
                  Numbered(LockFree!Contents)', Numbered(popped)', Size)
<1> DEFINE N == Size + 1
           l == LockFree!Length
           s == LockFree!Skip
           f == Front(head, s, N)
           k == l - s
           C == LockFree!Contents
<1>0. /\ LockFree!TypeOK /\ N \in Nat \ {0} /\ Items \in Nat \ {0} /\ Size \in Nat \ {0}
      /\ buffer \in [0 .. N - 1 -> Numbers] /\ popped \in Seq(Numbers) /\ received \in Seq(Numbers)
      /\ head \in 0 .. N - 1 /\ tail \in 0 .. N - 1 /\ sent \in 1 .. 2 * Items + 1
      /\ endSignal \in BOOLEAN /\ draining \in BOOLEAN
      /\ pc \in [{"producer", "consumer"} -> {"test", "check", "write", "read", "store", "end"}]
  BY BufferBoundsAssumption DEF LockFreeInv, LockFree!TypeOK, Numbers
<1>1. /\ pc["producer"] \in {"write", "store"} => l < Size /\ sent <= 2 * Items
      /\ pc["producer"] = "store" => buffer[tail] = sent
      /\ pc["consumer"] \in {"read", "store"} => l > 0
  BY DEF LockFreeInv
<1>2. ASSUME buffer' \in [0 .. N - 1 -> Numbers], popped' \in Seq(Numbers),
             received' \in Seq(Numbers), head' \in 0 .. N - 1, tail' \in 0 .. N - 1,
             sent' \in 1 .. 2 * Items + 1, endSignal' \in BOOLEAN, draining' \in BOOLEAN,
             pc' \in [{"producer", "consumer"} -> {"test", "check", "write", "read", "store", "end"}]
      PROVE  LockFree!TypeOK'
  BY <1>2 DEF LockFree!TypeOK, Numbers
<1>3. /\ l = Distance(head, tail, N) /\ l' = Distance(head', tail', N)
      /\ s = (IF pc["consumer"] = "store" THEN 1 ELSE 0)
      /\ s' = (IF pc'["consumer"] = "store" THEN 1 ELSE 0)
      /\ C = Seen(buffer, head, l, s, N) /\ C' = Seen(buffer', head', l', s', N)
      /\ Numbered(C)' = Numbered(C') /\ Numbered(popped)' = Numbered(popped')
  BY DEF LockFree!Length, LockFree!Skip, LockFree!Contents, Distance, Seen, Numbered
<1>4. N = Size + 1
  OBVIOUS
<1>5. ASSUME LockFreeInv', Moves(Numbered(C), Numbered(popped), Numbered(C'), Numbered(popped'), Size)
      PROVE  /\ LockFreeInv'
             /\ Moves(Numbered(C), Numbered(popped), Numbered(C)', Numbered(popped)', Size)
  BY <1>3, <1>5
<1>6. ASSUME LockFree!TypeOK',
             pc'["producer"] \in {"write", "store"} => l' < Size /\ sent' <= 2 * Items,
             pc'["producer"] = "store" => buffer'[tail'] = sent',
             pc'["consumer"] \in {"read", "store"} => l' > 0
      PROVE  LockFreeInv'
  BY <1>6 DEF LockFreeInv
<1> HIDE DEF N, l, s, C
<1>7. /\ l \in 0 .. N - 1 /\ l \in 0 .. N /\ tail = (head + l) % N
      /\ \A j \in 0 .. N - 1 : tail = (head + j) % N => l = j
  <2>1. /\ Distance(head, tail, N) \in 0 .. N - 1
        /\ tail = (head + Distance(head, tail, N)) % N
        /\ \A j \in 0 .. N - 1 : tail = (head + j) % N => Distance(head, tail, N) = j
    BY <1>0, DistanceOf
  <2>2. l \in 0 .. N - 1 => l \in 0 .. N
    BY <1>0
  <2> QED BY <1>3, <2>1, <2>2
<1>8. s \in {0, 1} /\ s <= l /\ (s = 1 <=> pc["consumer"] = "store")
  BY <1>0, <1>1, <1>3, <1>7
<1>9. C = Ring(buffer, f, k, N)
  BY <1>0, <1>3, <1>7, <1>8, SeenRing DEF f, k
<1>10. RingOf(buffer, head, l, N, Numbers)
  BY <1>0, <1>7, RingAt
<1>11. RingOf(buffer, f, k, N, Numbers) /\ tail = (f + k) % N /\ k \in 0 .. N - 1 /\ k # N /\ k <= l
  <2>1. CASE s = 0
    <3>1. f = head /\ k = l
      BY <1>7, <2>1 DEF f, k, Front
    <3>2. l # N /\ l <= l
      BY <1>0, <1>7
    <3> QED BY <1>7, <1>10, <3>1, <3>2
  <2>2. CASE s = 1
    <3>1. f = (head + 1) % N /\ k = l - 1 /\ l # 0 /\ k \in 0 .. N - 1 /\ k # N
      BY <1>0, <1>7, <1>8, <2>2 DEF f, k, Front
    <3>2. RingOf(buffer, (head + 1) % N, l - 1, N, Numbers)
      BY <1>10, <3>1, RingShrinks
    <3>3. (head + l) % N = (((head + 1) % N) + (l - 1)) % N
      BY <1>10, <3>1, RingMoves
    <3> QED BY <1>7, <3>1, <3>2, <3>3
  <2> QED BY <1>8, <2>1, <2>2

<1>12. CASE LockFree!PushCheck \/ LockFree!SetDone
  <2>1. /\ UNCHANGED <<buffer, tail, head, sent, draining, popped, received>>
        /\ pc'["consumer"] = pc["consumer"] /\ endSignal' \in BOOLEAN
        /\ pc' \in [{"producer", "consumer"} -> {"test", "check", "write", "read", "store", "end"}]
        /\ pc'["producer"] # "store"
        /\ pc'["producer"] = "write" => (tail + 1) % N # head /\ sent <= 2 * Items
    BY <1>0, <1>12 DEF LockFree!PushCheck, LockFree!SetDone, LockFree!Goto, LockFree!Full,
                       LockFree!ItemsLeft, N
  <2>2. l' = l /\ C' = C
    BY <1>3, <2>1
  <2>3. (tail + 1) % N # head => l < Size
    <3> SUFFICES ASSUME l = Size PROVE (tail + 1) % N = head
      BY <1>0, <1>4, <1>7
    <3>1. l # N /\ l + 1 = N
      BY <1>0, <1>4
    <3>2. (((head + l) % N) + 1) % N = (head + (l + 1)) % N
      BY <1>10, <3>1, RingMoves
    <3> DEFINE a == head + N
    <3>3. a \in 0 .. 2 * N - 1 /\ a >= N /\ a - N = head
      BY <1>0
    <3> HIDE DEF a
    <3>4. a % N = head
      BY <1>0, <3>3, OneRound
    <3>5. (head + N) % N = head
      BY <3>4 DEF a
    <3> QED BY <1>7, <3>1, <3>2, <3>5
  <2>4. LockFree!TypeOK'
    BY <1>0, <1>2, <2>1
  <2>5. LockFreeInv'
    BY <1>0, <1>1, <1>6, <2>1, <2>2, <2>3, <2>4
  <2> QED BY <1>5, <2>1, <2>2, <2>5 DEF Moves, C
<1>13. CASE LockFree!PushWrite
  <2>1. /\ buffer' = [buffer EXCEPT ![tail] = sent] /\ pc["producer"] = "write"
        /\ UNCHANGED <<tail, head, endSignal, sent, draining, popped, received>>
        /\ pc'["consumer"] = pc["consumer"] /\ pc'["producer"] = "store"
        /\ pc' \in [{"producer", "consumer"} -> {"test", "check", "write", "read", "store", "end"}]
    BY <1>0, <1>13 DEF LockFree!PushWrite, LockFree!Goto
  <2>2. l' = l /\ s' = s
    BY <1>3, <2>1
  <2>3. sent \in Numbers
    BY <1>0, <1>1, <2>1 DEF Numbers
  <2>4. buffer' \in [0 .. N - 1 -> Numbers] /\ buffer'[tail'] = sent'
    BY <1>0, <2>1, <2>3
  <2>5. buffer' = Put(buffer, (f + k) % N, sent) /\ DOMAIN buffer = 0 .. N - 1
    BY <1>0, <1>11, <2>1 DEF Put
  <2>6. C' = Ring(buffer', f, k, N)
    <3>1. Seen(buffer', head, l, s, N) = Ring(buffer', Front(head, s, N), l - s, N)
      BY <1>0, <1>7, <1>8, SeenRing
    <3> QED BY <1>3, <2>1, <2>2, <3>1 DEF f, k
  <2>7. Ring(buffer', f, k, N) = Ring(buffer, f, k, N)
    <3>1. RingOf(buffer, f, k, N, Numbers) /\ k # N
      BY <1>11
    <3> HIDE DEF f, k
    <3> QED BY <2>5, <3>1, RingKept
  <2>8. LockFree!TypeOK'
    BY <1>0, <1>2, <2>1, <2>4
  <2>9. LockFreeInv'
    BY <1>0, <1>1, <1>6, <2>1, <2>2, <2>4, <2>8
  <2> QED BY <1>5, <1>9, <2>1, <2>6, <2>7, <2>9 DEF Moves, C
<1>14. CASE LockFree!PushStore
  <2>1. /\ tail' = (tail + 1) % N /\ sent' = sent + 1 /\ pc["producer"] = "store"
        /\ UNCHANGED <<buffer, head, endSignal, draining, popped, received>>
        /\ pc'["consumer"] = pc["consumer"] /\ pc'["producer"] = "check"
        /\ pc' \in [{"producer", "consumer"} -> {"test", "check", "write", "read", "store", "end"}]
    BY <1>0, <1>14 DEF LockFree!PushStore, LockFree!Goto, N
  <2>2. /\ sent \in Numbers /\ sent \in 1 .. 2 * Items /\ l < Size /\ l # N /\ l + 1 \in 0 .. N - 1
        /\ buffer[tail] = sent
    BY <1>0, <1>1, <1>4, <1>7, <2>1 DEF Numbers
  <2>3. tail' = (head + (l + 1)) % N /\ tail' \in 0 .. N - 1
    <3>1. (((head + l) % N) + 1) % N = (head + (l + 1)) % N
      BY <1>10, <2>2, RingMoves
    <3>2. \A i \in 0 .. N : (head + i) % N \in 0 .. N - 1
      BY <1>0, Slots
    <3>3. l + 1 \in 0 .. N
      BY <1>0, <2>2
    <3> QED BY <1>7, <2>1, <3>1, <3>2, <3>3
  <2>4. l' = l + 1
    <3>1. \A j \in 0 .. N - 1 : tail' = (head + j) % N => Distance(head, tail', N) = j
      BY <1>0, <2>3, DistanceOf
    <3> QED BY <1>3, <2>1, <2>2, <2>3, <3>1
  <2>5. C' = Ring(buffer, f, k + 1, N)
    <3>1. l + 1 \in 0 .. N /\ s <= l + 1 /\ l + 1 - s = k + 1
      BY <1>0, <1>7, <1>8, <2>2
    <3> DEFINE m == l + 1
    <3>2. m \in 0 .. N /\ s <= m
      BY <3>1
    <3> HIDE DEF m
    <3>3. Seen(buffer, head, m, s, N) = Ring(buffer, Front(head, s, N), m - s, N)
      BY <1>0, <1>8, <3>2, SeenRing
    <3>4. C' = Seen(buffer, head, m, s, N)
      BY <1>3, <2>1, <2>4 DEF m
    <3>5. m - s = k + 1
      BY <1>7, <1>8 DEF m
    <3> HIDE DEF k
    <3> QED BY <3>3, <3>4, <3>5 DEF f
  <2>6. Ring(buffer, f, k + 1, N) = Append(C, sent)
    <3>1. RingOf(buffer, f, k, N, Numbers) /\ k # N /\ buffer[(f + k) % N] = sent
      BY <1>11, <2>2
    <3>2. buffer[(f + k) % N] \in Numbers
      BY <2>2, <3>1
    <3> HIDE DEF f, k
    <3>3. Ring(buffer, f, k + 1, N) = Append(Ring(buffer, f, k, N), buffer[(f + k) % N])
      BY <3>1, <3>2, RingGrows, Zenon
    <3> QED BY <1>9, <3>1, <3>3
  <2>7. C \in Seq(Numbers) /\ Len(C) = k
    <3>1. RingOf(buffer, f, k, N, Numbers)
      BY <1>11
    <3> HIDE DEF f, k
    <3> QED BY <1>9, <3>1, RingType
  <2>8. Len(C) < Size
    BY <1>0, <1>7, <1>8, <1>11, <2>2, <2>7
  <2>9. Moves(Numbered(C), Numbered(popped), Numbered(Append(C, sent)), Numbered(popped), Size)
    BY <2>2, <2>7, <2>8, NumbersAdd
  <2>10. LockFree!TypeOK'
    <3>1. sent' \in 1 .. 2 * Items + 1
      BY <1>0, <2>1, <2>2
    <3> QED BY <1>0, <1>2, <2>1, <2>3, <3>1
  <2>11. LockFreeInv'
    BY <1>0, <1>1, <1>6, <1>7, <2>1, <2>4, <2>10
  <2> QED BY <1>5, <2>1, <2>5, <2>6, <2>9, <2>11 DEF C
<1>15. CASE LockFree!TestDone \/ LockFree!PopCheck
  <2>1. /\ UNCHANGED <<buffer, tail, head, endSignal, sent, popped, received>>
        /\ pc'["producer"] = pc["producer"] /\ draining' \in BOOLEAN
        /\ pc' \in [{"producer", "consumer"} -> {"test", "check", "write", "read", "store", "end"}]
        /\ pc'["consumer"] # "store" /\ pc["consumer"] # "store"
        /\ pc'["consumer"] = "read" => tail # head
    BY <1>0, <1>15 DEF LockFree!TestDone, LockFree!PopCheck, LockFree!Goto, LockFree!Empty
  <2>2. l' = l /\ C' = C
    BY <1>3, <2>1
  <2>3. tail # head => l > 0
    <3> SUFFICES ASSUME l = 0 PROVE tail = head
      BY <1>7
    <3>1. (head + 0) % N = head
      BY <1>0, Slots
    <3> QED BY <1>7, <3>1
  <2>4. LockFree!TypeOK'
    BY <1>0, <1>2, <2>1
  <2>5. LockFreeInv'
    BY <1>0, <1>1, <1>6, <2>1, <2>2, <2>3, <2>4
  <2> QED BY <1>5, <2>1, <2>2, <2>5 DEF Moves, C
<1>16. CASE LockFree!PopRead
  <2>1. /\ popped' = Append(popped, buffer[head])
        /\ received' = IF draining THEN received ELSE Append(received, buffer[head])
        /\ UNCHANGED <<buffer, tail, head, endSignal, sent, draining>>
        /\ pc'["producer"] = pc["producer"] /\ pc["consumer"] = "read" /\ pc'["consumer"] = "store"
        /\ pc' \in [{"producer", "consumer"} -> {"test", "check", "write", "read", "store", "end"}]
    BY <1>0, <1>16 DEF LockFree!PopRead, LockFree!Goto
  <2>2. l' = l /\ s' = 1 /\ s = 0 /\ l # 0 /\ l > 0
    BY <1>1, <1>3, <1>7, <2>1
  <2>3. /\ Pops(Ring(buffer, head, l, N), buffer[head], Ring(buffer, (head + 1) % N, l - 1, N))
        /\ buffer[head] \in Numbers
    BY <1>10, <2>2, RingShrinks
  <2>4. C = Ring(buffer, head, l, N)
    BY <1>7, <1>9, <2>2 DEF f, k, Front
  <2>5. C' = Ring(buffer, (head + 1) % N, l - 1, N)
    <3>1. Seen(buffer, head, l, 1, N) = Ring(buffer, Front(head, 1, N), l - 1, N)
      BY <1>0, <1>7, <2>2, SeenRing
    <3> QED BY <1>3, <2>1, <2>2, <3>1 DEF Front
  <2>6. C \in Seq(Numbers)
    BY <1>10, <2>4, RingType
  <2>7. /\ Moves(Numbered(C), Numbered(popped), Numbered(C'), Numbered(popped'), Size)
        /\ popped' \in Seq(Numbers)
    <3>1. Pops(C, buffer[head], C')
      BY <2>3, <2>4, <2>5
    <3> DEFINE x == buffer[head]
               c2 == C'
    <3>2. Pops(C, x, c2) /\ x \in Numbers
      BY <2>3, <3>1
    <3> HIDE DEF x, c2
    <3>3. /\ Moves(Numbered(C), Numbered(popped), Numbered(c2), Numbered(Append(popped, x)), Size)
          /\ Append(popped, x) \in Seq(Numbers)
      BY <1>0, <2>6, <3>2, NumbersTake
    <3> QED BY <2>1, <3>3 DEF x, c2
  <2>8. received' \in Seq(Numbers)
    BY <1>0, <2>1, <2>3
  <2>9. LockFree!TypeOK'
    BY <1>0, <1>2, <2>1, <2>7, <2>8
  <2>10. LockFreeInv'
    BY <1>0, <1>1, <1>6, <2>1, <2>2, <2>9
  <2> QED BY <1>5, <2>7, <2>10 DEF C
<1>17. CASE LockFree!PopStore
  <2>1. /\ head' = (head + 1) % N /\ draining' = FALSE
        /\ UNCHANGED <<buffer, tail, endSignal, sent, popped, received>>
        /\ pc'["producer"] = pc["producer"] /\ pc["consumer"] = "store"
        /\ pc'["consumer"] \in {"check", "test"}
        /\ pc' \in [{"producer", "consumer"} -> {"test", "check", "write", "read", "store", "end"}]
    BY <1>0, <1>17 DEF LockFree!PopStore, LockFree!Goto, N
  <2>2. s' = 0 /\ s = 1 /\ l # 0 /\ l - 1 \in 0 .. N - 1
    BY <1>0, <1>1, <1>3, <1>7, <2>1
  <2>3. head' \in 0 .. N - 1
    <3>1. RingOf(buffer, (head + 1) % N, l - 1, N, Numbers)
      BY <1>10, <2>2, RingShrinks
    <3> QED BY <2>1, <3>1 DEF RingOf
  <2>4. l' = l - 1
    <3>1. (head + l) % N = (((head + 1) % N) + (l - 1)) % N
      BY <1>10, <2>2, RingMoves
    <3>2. tail = (head' + (l - 1)) % N
      BY <1>7, <2>1, <3>1
    <3>3. \A j \in 0 .. N - 1 : tail = (head' + j) % N => Distance(head', tail, N) = j
      BY <1>0, <2>3, DistanceOf
    <3> QED BY <1>3, <2>1, <2>2, <3>2, <3>3
  <2>5. C = Ring(buffer, (head + 1) % N, l - 1, N)
    BY <1>9, <2>2 DEF f, k, Front
  <2>6. C' = Ring(buffer, (head + 1) % N, l - 1, N)
    <3>1. l - 1 \in 0 .. N /\ l - 1 - 0 = l - 1 /\ 0 <= l - 1
      BY <1>0, <1>7, <2>2
    <3>2. Seen(buffer, head', l - 1, 0, N) = Ring(buffer, Front(head', 0, N), l - 1 - 0, N)
      BY <1>0, <2>3, <3>1, SeenRing
    <3> QED BY <1>3, <2>1, <2>2, <2>4, <3>1, <3>2 DEF Front
  <2>7. LockFree!TypeOK'
    BY <1>0, <1>2, <2>1, <2>3
  <2>8. LockFreeInv'
    BY <1>0, <1>1, <1>6, <1>7, <2>1, <2>4, <2>7
  <2> QED BY <1>5, <2>1, <2>5, <2>6, <2>8 DEF Moves, C
<1> QED BY <1>12, <1>13, <1>14, <1>15, <1>16, <1>17 DEF LockFree!Producer, LockFree!Consumer

-----------------------------------------------------------------------------
(***************************************************************************)
(* All programs.                                                           *)
(***************************************************************************)
BuffersInv ==
  /\ program \in {"monitor", "dijkstra", "single", "single_c", "lock-free", "waiting", "safe",
                  "iterated"}
  /\ program = "monitor" => MonitorInv
  /\ program = "dijkstra" => DijkstraInv
  /\ program \in {"single", "single_c"} => SingleInv
  /\ program = "lock-free" => LockFreeInv
  /\ program = "waiting" => WaitingInv
  /\ program = "safe" => SafeInv
  /\ program = "iterated" => IteratedInv


LEMMA BuffersStart == Init => BuffersInv
<1> SUFFICES ASSUME Init PROVE BuffersInv
  OBVIOUS
<1> USE SameThreads, SamePortions, SameCount
<1>0. Items \in Nat \ {0} /\ Size \in Nat \ {0} /\ AllPortions \in Nat
  BY BufferBoundsAssumption, PortionsCounted
<1>1. CASE InitMonitor
  <2>1. Monitor!TypeOK
    BY <1>0, <1>1 DEF InitMonitor, Monitor!Init, Monitor!TypeOK
  <2>2. tail = (head + count) % Size /\ RingOf(buffer, head, count, Size, Portion)
    <3>1. head = 0 /\ tail = 0 /\ count = 0
      BY <1>1 DEF InitMonitor, Monitor!Init
    <3>2. (0 + 0) % Size = 0
      BY <1>0, Slots
    <3> QED BY <1>0, <3>1, <3>2 DEF RingOf
  <2>3. \A p \in Producers : sent[p] < Items
    BY <1>0, <1>1 DEF InitMonitor, Monitor!Init
  <2>4. program = "monitor"
    BY <1>1 DEF InitMonitor
  <2> QED BY <2>1, <2>2, <2>3, <2>4 DEF BuffersInv, MonitorInv
<1>2. CASE InitDijkstra
  <2>1. program = "dijkstra" /\ buffer = <<>> /\ count = 0 /\ empty = Size
        /\ sent = [p \in Producers |-> 0] /\ popped = <<>> /\ pc = [t \in Threads |-> "acquire"]
    BY <1>2 DEF InitDijkstra, Dijkstra!Init
  <2>2. Dijkstra!TypeOK
    BY <1>0, <2>1 DEF Dijkstra!TypeOK
  <2>3. Holding = {} /\ Cardinality(Holding) = 0
    <3>1. Holding = {}
      BY <2>1, ThreadsApart DEF Holding
    <3> QED BY <3>1, FS_EmptySet
  <2>4. empty + Cardinality(Holding) + Len(buffer) = Size
    BY <1>0, <2>1, <2>3
  <2>5. \A p \in Producers : pc[p] \in {"acquire", "buffer"} => sent[p] < Items
    BY <1>0, <2>1, ThreadsApart
  <2> QED BY <2>1, <2>2, <2>4, <2>5 DEF BuffersInv, DijkstraInv
<1>3. CASE InitSingle
  <2>1. /\ program \in {"single", "single_c"} /\ buffer = [n \in 0 .. Size - 1 |-> 0]
        /\ head = 0 /\ tail = 0 /\ count = 0 /\ empty = Size /\ sent = 0 /\ taken = 0
        /\ popped = <<>> /\ pc = [producer |-> "enter", consumer |-> "enter"]
    BY <1>3 DEF InitSingle, Single!Init
  <2>2. pc["producer"] = "enter" /\ pc["consumer"] = "enter"
        /\ pc \in [{"producer", "consumer"} -> {"enter", "ring", "leave"}]
    BY <2>1
  <2>3. Single!TypeOK
    BY <1>0, <2>1, <2>2 DEF Single!TypeOK
  <2>4. Single!Length = 0 /\ Claimed = 0 /\ Written = 0
    BY <2>1, <2>2 DEF Single!Length, Claimed, Written
  <2>5. SingleControl
    BY <1>0, <2>1, <2>2, <2>4 DEF SingleControl
  <2>6. tail = (head + Written) % Size /\ RingOf(buffer, head, Single!Length, Size, Numbers)
    <3>1. (0 + 0) % Size = 0
      BY <1>0, Slots
    <3> QED BY <1>0, <2>1, <2>4, <3>1 DEF RingOf
  <2>7. SingleInv
    BY <2>2, <2>3, <2>5, <2>6 DEF SingleInv
  <2> QED BY <2>1, <2>7 DEF BuffersInv
<1>4. CASE InitLockFree
  <2>1. /\ program = "lock-free" /\ buffer = [n \in 0 .. (Size + 1) - 1 |-> 0]
        /\ head = 0 /\ tail = 0 /\ endSignal = FALSE /\ draining = FALSE /\ sent = 1
        /\ popped = <<>> /\ received = <<>> /\ pc = [producer |-> "check", consumer |-> "test"]
    BY <1>4 DEF InitLockFree, LockFree!Init
  <2>2. pc["producer"] = "check" /\ pc["consumer"] = "test"
        /\ pc \in [{"producer", "consumer"} -> {"test", "check", "write", "read", "store", "end"}]
    BY <2>1
  <2>3. LockFree!TypeOK
    BY <1>0, <2>1, <2>2 DEF LockFree!TypeOK
  <2>4. LockFreeInv
    BY <2>2, <2>3 DEF LockFreeInv
  <2> QED BY <2>1, <2>4 DEF BuffersInv
<1>5. CASE InitWaiting
  <2>1. /\ program = "waiting" /\ buffer = <<>> /\ endSignal = FALSE /\ nonempty = {}
        /\ sent = [p \in Producers |-> 0] /\ popped = <<>> /\ pc = [t \in Threads |-> "call"]
    BY <1>5 DEF InitWaiting, Waiting!Init
  <2>2. Waiting!TypeOK
    <3>1. endSignal \in BOOLEAN
      BY <2>1
    <3>2. buffer \in Seq(Portion) /\ popped \in Seq(Portion) /\ Len(buffer) = 0
      BY <2>1
    <3>3. sent \in [Producers -> 0 .. Items]
      BY <1>0, <2>1
    <3> QED BY <1>0, <2>1, <3>1, <3>2, <3>3 DEF Waiting!TypeOK
  <2>3. Len(buffer) <= Cardinality(Upto(sent))
    <3>1. Len(buffer) = 0
      BY <2>1
    <3> QED BY <3>1, UptoType
  <2> QED BY <1>0, <2>1, <2>2, <2>3 DEF BuffersInv, WaitingInv
<1>6. CASE InitSafe
  <2>1. /\ program = "safe" /\ buffer = <<>> /\ nonempty = {}
        /\ sent = [t \in Threads |-> 0] /\ popped = <<>> /\ pc = [t \in Threads |-> "call"]
    BY <1>6 DEF InitSafe, Safe!Init
  <2>2. Safe!TypeOK
    BY <1>0, <2>1 DEF Safe!TypeOK
  <2>3. Len(buffer) <= Cardinality(Upto(Added))
    <3>1. Len(buffer) = 0
      BY <2>1
    <3> QED BY <3>1, UptoType
  <2> QED BY <1>0, <2>1, <2>2, <2>3 DEF BuffersInv, SafeInv
<1>7. CASE InitIterated
  <2>1. /\ program = "iterated" /\ buffer = <<>> /\ endSignal = FALSE /\ nonempty = {} /\ taken = 0
        /\ sent = [p \in Producers |-> 0] /\ popped = <<>> /\ main = "wait"
        /\ pc = [t \in Threads |-> IF t \in Producers THEN "closed" ELSE "more"]
    BY <1>7 DEF InitIterated, Iterated!Init
  <2>2. Iterated!TypeOK
    <3>1. endSignal \in BOOLEAN
      BY <2>1
    <3>2. buffer \in Seq(Portion) /\ popped \in Seq(Portion) /\ Len(buffer) = 0
      BY <2>1
    <3>3. sent \in [Producers -> 0 .. Items]
      BY <1>0, <2>1
    <3> QED BY <1>0, <2>1, <3>1, <3>2, <3>3 DEF Iterated!TypeOK
  <2> QED BY <1>0, <2>1, <2>2 DEF BuffersInv, IteratedInv
<1> QED BY <1>1, <1>2, <1>3, <1>4, <1>5, <1>6, <1>7 DEF Init

\* The queue that the program implements, what has been taken from it, and its capacity
Queue ==
  CASE program = "monitor" -> Monitor!Contents
    [] program \in {"single", "single_c"} -> Numbered(Single!Contents)
    [] program = "lock-free" -> Numbered(LockFree!Contents)
    [] OTHER -> buffer
Taken == IF program \in {"single", "single_c", "lock-free"} THEN Numbered(popped) ELSE popped
Bound == IF program \in {"waiting", "safe"} THEN AllPortions ELSE Size

\* A step is one of the program that was chosen, or none.
LEMMA BuffersSteps ==
  ASSUME [Next]_vars
  PROVE  \/ /\ program = "monitor" /\ UNCHANGED program
            /\ (\E t \in Threads : Monitor!Thread(t)) \/ Monitor!Stopping \/ Monitor!Environment
         \/ /\ program = "dijkstra" /\ UNCHANGED program
            /\ (\E t \in Threads : Dijkstra!Thread(t)) \/ Dijkstra!Environment
         \/ program \in {"single", "single_c"} /\ (Single!Producer \/ Single!Consumer)
         \/ /\ program = "lock-free" /\ UNCHANGED program
            /\ LockFree!Producer \/ LockFree!Consumer
         \/ /\ program = "waiting" /\ UNCHANGED program
            /\ (\E t \in Threads : Waiting!Thread(t)) \/ Waiting!Environment
         \/ /\ program = "safe" /\ UNCHANGED program
            /\ (\E t \in Threads : Safe!Thread(t)) \/ Safe!Environment
         \/ /\ program = "iterated" /\ UNCHANGED program
            /\ (\E t \in Threads : Iterated!Thread(t)) \/ Iterated!Stopping \/ Iterated!Environment
         \/ UNCHANGED vars
BY Zenon DEF Next, Thread, Producer, Consumer, Stopping, Environment, NotMonitor, NotDijkstra,
             NotSingle, NotLockFree, NotWaiting, NotSafe, NotIterated

LEMMA BuffersStutter ==
  ASSUME BuffersInv, UNCHANGED vars
  PROVE  /\ BuffersInv' /\ UNCHANGED program
         /\ Moves(Queue, Taken, Queue', Taken', Bound)
<1>0. UNCHANGED <<program, buffer, head, tail, count, empty, mutex, endSignal, nonempty,
                  nonfull, sent, taken, popped, pc, main, draining, received>>
  BY DEF vars
<1>1. program = "monitor" => MonitorInv'
  BY <1>0 DEF BuffersInv, MonitorInv, Monitor!TypeOK, RingOf
<1>2. program = "dijkstra" => DijkstraInv'
  <2>1. Holding' = Holding
    BY <1>0 DEF Holding
  <2> QED BY <1>0, <2>1 DEF BuffersInv, DijkstraInv, Dijkstra!TypeOK
<1>3. program \in {"single", "single_c"} => SingleInv'
  <2>1. Single!Length' = Single!Length /\ Claimed' = Claimed /\ Written' = Written
    BY <1>0 DEF Single!Length, Claimed, Written
  <2> QED BY <1>0, <2>1 DEF BuffersInv, SingleInv, SingleControl, Single!TypeOK, RingOf
<1>4. program = "lock-free" => LockFreeInv'
  <2>1. LockFree!Length' = LockFree!Length
    BY <1>0 DEF LockFree!Length
  <2> QED BY <1>0, <2>1 DEF BuffersInv, LockFreeInv, LockFree!TypeOK
<1>5. program = "waiting" => WaitingInv'
  BY <1>0 DEF BuffersInv, WaitingInv, Waiting!TypeOK
<1>6. program = "safe" => SafeInv'
  <2>1. Added' = Added
    BY <1>0 DEF Added
  <2> QED BY <1>0, <2>1 DEF BuffersInv, SafeInv, Safe!TypeOK
<1>7. program = "iterated" => IteratedInv'
  BY <1>0 DEF BuffersInv, IteratedInv, Iterated!TypeOK
<1>8. BuffersInv'
  BY <1>0, <1>1, <1>2, <1>3, <1>4, <1>5, <1>6, <1>7 DEF BuffersInv
<1>9. Queue' = Queue /\ Taken' = Taken
  <2>1. /\ Monitor!Contents' = Monitor!Contents
        /\ Numbered(Single!Contents)' = Numbered(Single!Contents)
        /\ Numbered(LockFree!Contents)' = Numbered(LockFree!Contents)
        /\ Numbered(popped)' = Numbered(popped)
    BY <1>0 DEF Monitor!Contents, Single!Contents, Single!Length, LockFree!Contents,
                LockFree!Length, LockFree!Skip, Numbered
  <2> QED BY <1>0, <2>1 DEF Queue, Taken
<1> QED BY <1>0, <1>8, <1>9 DEF Moves

LEMMA BuffersStep ==
  ASSUME BuffersInv, [Next]_vars
  PROVE  /\ BuffersInv' /\ UNCHANGED program
         /\ Moves(Queue, Taken, Queue', Taken', Bound)
<1>1. CASE /\ program = "monitor" /\ UNCHANGED program
           /\ (\E t \in Threads : Monitor!Thread(t)) \/ Monitor!Stopping \/ Monitor!Environment
  <2>1. MonitorInv
    BY <1>1 DEF BuffersInv
  <2>2. MonitorInv' /\ Moves(Monitor!Contents, popped, Monitor!Contents', popped', Size)
    BY <1>1, <2>1, MonitorStep
  <2> QED BY <1>1, <2>2 DEF BuffersInv, Queue, Taken, Bound
<1>2. CASE /\ program = "dijkstra" /\ UNCHANGED program
           /\ (\E t \in Threads : Dijkstra!Thread(t)) \/ Dijkstra!Environment
  <2>1. DijkstraInv
    BY <1>2 DEF BuffersInv
  <2>2. DijkstraInv' /\ Moves(buffer, popped, buffer', popped', Size)
    BY <1>2, <2>1, DijkstraStep
  <2> QED BY <1>2, <2>2 DEF BuffersInv, Queue, Taken, Bound
<1>3. CASE program \in {"single", "single_c"} /\ (Single!Producer \/ Single!Consumer)
  <2>1. SingleInv
    BY <1>3 DEF BuffersInv
  <2>2. /\ SingleInv' /\ program' = program
        /\ Moves(Numbered(Single!Contents), Numbered(popped),
                 Numbered(Single!Contents)', Numbered(popped)', Size)
    BY <1>3, <2>1, SingleStep
  <2> QED BY <1>3, <2>2 DEF BuffersInv, Queue, Taken, Bound
<1>4. CASE /\ program = "lock-free" /\ UNCHANGED program
           /\ LockFree!Producer \/ LockFree!Consumer
  <2>1. LockFreeInv
    BY <1>4 DEF BuffersInv
  <2>2. /\ LockFreeInv'
        /\ Moves(Numbered(LockFree!Contents), Numbered(popped),
                 Numbered(LockFree!Contents)', Numbered(popped)', Size)
    BY <1>4, <2>1, LockFreeStep
  <2> QED BY <1>4, <2>2 DEF BuffersInv, Queue, Taken, Bound
<1>5. CASE /\ program = "waiting" /\ UNCHANGED program
           /\ (\E t \in Threads : Waiting!Thread(t)) \/ Waiting!Environment
  <2>1. WaitingInv
    BY <1>5 DEF BuffersInv
  <2>2. WaitingInv' /\ Moves(buffer, popped, buffer', popped', AllPortions)
    BY <1>5, <2>1, WaitingStep
  <2> QED BY <1>5, <2>2 DEF BuffersInv, Queue, Taken, Bound
<1>6. CASE /\ program = "safe" /\ UNCHANGED program
           /\ (\E t \in Threads : Safe!Thread(t)) \/ Safe!Environment
  <2>1. SafeInv
    BY <1>6 DEF BuffersInv
  <2>2. SafeInv' /\ Moves(buffer, popped, buffer', popped', AllPortions)
    BY <1>6, <2>1, SafeStep
  <2> QED BY <1>6, <2>2 DEF BuffersInv, Queue, Taken, Bound
<1>7. CASE /\ program = "iterated" /\ UNCHANGED program
           /\ (\E t \in Threads : Iterated!Thread(t)) \/ Iterated!Stopping \/ Iterated!Environment
  <2>1. IteratedInv
    BY <1>7 DEF BuffersInv
  <2>2. IteratedInv' /\ Moves(buffer, popped, buffer', popped', Size)
    BY <1>7, <2>1, IteratedStep
  <2> QED BY <1>7, <2>2 DEF BuffersInv, Queue, Taken, Bound
<1>8. CASE UNCHANGED vars
  BY <1>8, BuffersStutter
<1> QED BY <1>1, <1>2, <1>3, <1>4, <1>5, <1>6, <1>7, <1>8, BuffersSteps

LEMMA BuffersAlways == Spec => []BuffersInv
<1>1. BuffersInv /\ [Next]_vars => BuffersInv'
  BY BuffersStep
<1> QED BY <1>1, BuffersStart, PTL DEF Spec

\* Whichever of the queues is chosen, its positions stay inside the ring, its counts and
\* semaphores stay between none and the capacity, a deque with a capacity never exceeds
\* it, and what is taken from a queue of portions is a portion, never the contents of a
\* slot that nobody has filled, for any number of producers, consumers and items and any
\* size.
THEOREM TypesHold == Spec => []TypeOK
<1>1. BuffersInv => TypeOK
  BY DEF BuffersInv, TypeOK, MonitorInv, DijkstraInv, SingleInv, LockFreeInv, WaitingInv, SafeInv,
         IteratedInv
<1> QED BY <1>1, BuffersAlways, PTL

\* Every step of every queue pushes one element at the end, takes the first one, or
\* changes neither, and none pushes beyond the capacity: what is taken was put in, once,
\* in that order, for any number of producers, consumers and items and any size.
THEOREM ImplementsFIFO == Spec => Implements
<1>1. Init => FIFO!Init
  <2> SUFFICES ASSUME Init PROVE FIFO!Init
    OBVIOUS
  <2>1. Bound \in Nat
    BY BufferBoundsAssumption, PortionsCounted DEF Bound
  <2>2. popped = <<>>
    BY DEF Init, InitMonitor, InitDijkstra, InitSingle, InitLockFree, InitWaiting, InitSafe,
           InitIterated, Monitor!Init, Dijkstra!Init, Single!Init, LockFree!Init, Waiting!Init,
           Safe!Init, Iterated!Init
  <2>3. Queue = <<>>
    <3>1. CASE InitMonitor
      <4>1. program = "monitor" /\ count = 0
        BY <3>1 DEF InitMonitor, Monitor!Init
      <4>2. Monitor!Contents = <<>>
        BY <4>1 DEF Monitor!Contents
      <4> QED BY <4>1, <4>2 DEF Queue
    <3>2. CASE InitSingle
      <4>1. program \in {"single", "single_c"} /\ count = 0 /\ pc["consumer"] = "enter"
        BY <3>2 DEF InitSingle, Single!Init
      <4>2. Single!Contents = <<>>
        BY <4>1 DEF Single!Contents, Single!Length
      <4>3. Numbered(Single!Contents) = <<>>
        BY <4>2 DEF Numbered
      <4> QED BY <4>1, <4>3 DEF Queue
    <3>3. CASE InitLockFree
      <4>1. program = "lock-free" /\ head = 0 /\ tail = 0 /\ pc["consumer"] = "test"
        BY <3>3 DEF InitLockFree, LockFree!Init
      <4>2. LockFree!Length = 0
        <5> DEFINE N == Size + 1
        <5>1. N \in Nat \ {0} /\ 0 \in 0 .. N - 1 /\ LockFree!Length = Distance(0, 0, N)
          BY <4>1, BufferBoundsAssumption DEF LockFree!Length, Distance
        <5> HIDE DEF N
        <5>2. (0 + 0) % N = 0
          BY <5>1, Slots
        <5> QED BY <5>1, <5>2, DistanceOf
      <4>3. LockFree!Contents = <<>>
        BY <4>1, <4>2 DEF LockFree!Contents, LockFree!Skip
      <4>4. Numbered(LockFree!Contents) = <<>>
        BY <4>3 DEF Numbered
      <4> QED BY <4>1, <4>4 DEF Queue
    <3>4. CASE InitDijkstra \/ InitWaiting \/ InitSafe \/ InitIterated
      BY <3>4 DEF InitDijkstra, InitWaiting, InitSafe, InitIterated, Dijkstra!Init, Waiting!Init,
                  Safe!Init, Iterated!Init, Queue
    <3> QED BY <3>1, <3>2, <3>3, <3>4 DEF Init
  <2>4. Taken = <<>>
    BY <2>2 DEF Taken, Numbered
  <2> QED BY <2>1, <2>3, <2>4 DEF FIFO!Init, Bound, Queue, Taken
<1>2. BuffersInv /\ [Next]_vars => [FIFO!Next]_FIFO!vars
  <2> SUFFICES ASSUME BuffersInv, [Next]_vars PROVE [FIFO!Next]_FIFO!vars
    OBVIOUS
  <2>1. UNCHANGED program /\ Moves(Queue, Taken, Queue', Taken', Bound)
    BY BuffersStep
  <2>2. Bound' = Bound
    BY <2>1 DEF Bound
  <2> HIDE DEF Bound, Queue, Taken, Value
  <2>3. (\E v \in Value : FIFO!Push(v)) \/ FIFO!Pop \/ UNCHANGED FIFO!vars
    <3> USE <2>2 DEF Bound, Queue, Taken, FIFO!Push, FIFO!Pop, FIFO!vars
    <3> QED BY <2>1 DEF Moves
  <2> QED BY <2>3 DEF FIFO!Next, Value
<1> QED BY <1>1, <1>2, BuffersAlways, PTL DEF Spec, Implements, FIFO!Spec
=============================================================================
