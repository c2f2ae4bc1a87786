------------------------ MODULE TcpTransport_proofs -------------------------
(***************************************************************************)
(* A tcp_transport link implements LossyLink, for every set of messages,   *)
(* their sizes, the size of the buffers and the number of senders.         *)
(*                                                                         *)
(* Frames of several senders may mix, so that the units on their way need  *)
(* not make frames.  But every message has one length, which is written    *)
(* when the message enters out, so that the lengths on the link are in the *)
(* order of out, and read_loop_() queues nothing without having read its   *)
(* length: what was received, what is queued, the frame being read and the *)
(* lengths still on their way make one line, each message once, in the     *)
(* order of the sends.                                                     *)
(***************************************************************************)
EXTENDS TcpTransport, SequenceTheorems, TLAPS

Unit == Messages \X Nat

TTypes ==
    /\ out \in Seq(Messages) /\ got \in Seq(Messages) /\ queue \in Seq(Messages)
    /\ bytes \in Seq(Unit) /\ Len(bytes) <= Buffer
    /\ DOMAIN writes \subseteq Messages

Elems(s) == {s[k] : k \in DOMAIN s}

\* The messages whose length is among the units b.
Lengths(b) == {b[k][1] : k \in {l \in DOMAIN b : b[l][2] = 0}}

\* x was sent before y, in the order o of the sends.
Before(o, x, y) == \E k, l \in DOMAIN o : k < l /\ o[k] = x /\ o[l] = y

Increasing(o, s) == \A k, l \in DOMAIN s : k < l => Before(o, s[k], s[l])
LengthsIncrease(o, b) ==
    \A k, l \in DOMAIN b : k < l /\ b[k][2] = 0 /\ b[l][2] = 0 => Before(o, b[k][1], b[l][1])
AllBefore(o, S, T) == \A x \in S, y \in T : Before(o, x, y)

\* The line that a message goes through: g received, q queued, E being read,
\* and b on the way.
Line(o, g, q, E, b) ==
    /\ Increasing(o, g) /\ Increasing(o, q) /\ LengthsIncrease(o, b)
    /\ AllBefore(o, Elems(g), Elems(q) \cup E \cup Lengths(b))
    /\ AllBefore(o, Elems(q), E \cup Lengths(b))
    /\ AllBefore(o, E, Lengths(b))
    /\ Elems(g) \cup Elems(q) \cup E \cup Lengths(b) \subseteq Elems(o)

Distinct(o) == \A k, l \in DOMAIN o : o[k] = o[l] => k = l

\* What is left to write of m, in the order o of the sends so far: its length
\* is written first, and puts it in this order.
LeftOf(o, m, left) ==
    /\ left \in Seq(Unit) /\ left # <<>>
    /\ \A k \in 1..Len(left) : left[k][1] = m
    /\ \A k \in 2..Len(left) : left[k][2] # 0
    /\ left[1][2] = 0 <=> m \notin Elems(o)

Expected == IF reader = "body" THEN {expects} ELSE {}

TInv ==
    /\ TTypes
    /\ Distinct(out)
    /\ \A m \in DOMAIN writes : LeftOf(out, m, writes[m])
    /\ Line(out, got, queue, Expected, bytes)

-----------------------------------------------------------------------------
(* The line, as messages go through it.                                    *)

\* Units are lost or skipped, and so may be the frame being read.
LEMMA LineShrinks ==
    ASSUME NEW o, NEW g, NEW q, NEW E, NEW b \in Seq(Unit), Line(o, g, q, E, b),
           NEW F \in SUBSET E, NEW i \in Nat \ {0}, NEW j \in 0..Len(b)
    PROVE  Line(o, g, q, F, SubSeq(b, i, j))
<1> DEFINE c == SubSeq(b, i, j)
<1>1. /\ \A k \in DOMAIN c : k + i - 1 \in DOMAIN b /\ c[k] = b[k + i - 1]
      /\ DOMAIN c \subseteq Nat
  OBVIOUS
<1> HIDE DEF c
<1>2. Lengths(c) \subseteq Lengths(b)
  BY <1>1 DEF Lengths
<1>3. LengthsIncrease(o, c)
  <2> SUFFICES ASSUME NEW k \in DOMAIN c, NEW l \in DOMAIN c, k < l, c[k][2] = 0, c[l][2] = 0
               PROVE  Before(o, c[k][1], c[l][1])
    BY DEF LengthsIncrease
  <2>1. k + i - 1 < l + i - 1
    BY <1>1
  <2> QED
    BY <1>1, <2>1 DEF Line, LengthsIncrease
<1> QED
  BY <1>2, <1>3 DEF c, Line, AllBefore

\* A length is read.
LEMMA LengthEnters ==
    ASSUME NEW o, NEW g, NEW q, NEW b \in Seq(Unit), b # <<>>, b[1][2] = 0, Line(o, g, q, {}, b)
    PROVE  Line(o, g, q, {b[1][1]}, Tail(b))
<1> DEFINE c == Tail(b)
<1>1. /\ \A k \in DOMAIN c : k + 1 \in DOMAIN b /\ 1 < k + 1 /\ c[k] = b[k + 1]
      /\ DOMAIN c \subseteq Nat /\ 1 \in DOMAIN b
  OBVIOUS
<1> HIDE DEF c
<1>2. Lengths(c) \subseteq Lengths(b) /\ b[1][1] \in Lengths(b)
  BY <1>1 DEF Lengths
<1>3. LengthsIncrease(o, c)
  <2> SUFFICES ASSUME NEW k \in DOMAIN c, NEW l \in DOMAIN c, k < l, c[k][2] = 0, c[l][2] = 0
               PROVE  Before(o, c[k][1], c[l][1])
    BY DEF LengthsIncrease
  <2>1. k + 1 < l + 1
    BY <1>1
  <2> QED
    BY <1>1, <2>1 DEF Line, LengthsIncrease
<1>4. AllBefore(o, {b[1][1]}, Lengths(c))
  <2> SUFFICES ASSUME NEW k \in DOMAIN c, c[k][2] = 0
               PROVE  Before(o, b[1][1], c[k][1])
    BY DEF AllBefore, Lengths
  <2> QED
    BY <1>1 DEF Line, LengthsIncrease
<1> QED
  BY <1>2, <1>3, <1>4 DEF c, Line, AllBefore

\* What an appended element adds.
LEMMA ElemsAppend ==
    ASSUME NEW S, NEW s \in Seq(S), NEW x \in S
    PROVE  Elems(Append(s, x)) = Elems(s) \cup {x}
<1>1. DOMAIN Append(s, x) = DOMAIN s \cup {Len(s) + 1}
  OBVIOUS
<1>2. /\ \A k \in DOMAIN s : Append(s, x)[k] = s[k]
      /\ Append(s, x)[Len(s) + 1] = x
  OBVIOUS
<1> QED
  BY <1>1, <1>2 DEF Elems

\* Something later than all of s goes to its end.
LEMMA IncreasingAppend ==
    ASSUME NEW o, NEW S, NEW s \in Seq(S), NEW x \in S, Increasing(o, s),
           \A y \in Elems(s) : Before(o, y, x)
    PROVE  Increasing(o, Append(s, x))
<1> SUFFICES ASSUME NEW k \in DOMAIN Append(s, x), NEW l \in DOMAIN Append(s, x), k < l
             PROVE  Before(o, Append(s, x)[k], Append(s, x)[l])
  BY DEF Increasing
<1>1. k \in DOMAIN s /\ Append(s, x)[k] = s[k]
  OBVIOUS
<1>2. (l \in DOMAIN s /\ Append(s, x)[l] = s[l]) \/ Append(s, x)[l] = x
  OBVIOUS
<1> QED
  BY <1>1, <1>2 DEF Increasing, Elems

\* A frame that was read goes into the queue.
LEMMA FrameIsQueued ==
    ASSUME NEW o, NEW g, NEW q \in Seq(Messages), NEW e \in Messages, NEW b,
           Line(o, g, q, {e}, b)
    PROVE  Line(o, g, Append(q, e), {}, b)
<1>1. Elems(Append(q, e)) = Elems(q) \cup {e}
  BY ElemsAppend
<1>2. Increasing(o, Append(q, e))
  BY IncreasingAppend DEF Line, AllBefore
<1> QED
  BY <1>1, <1>2 DEF Line, AllBefore

\* receive() takes the first message of the queue, whether run() gets it or not.
LEMMA FrontIsTaken ==
    ASSUME NEW o, NEW g \in Seq(Messages), NEW q \in Seq(Messages), q # <<>>, NEW E, NEW b,
           Line(o, g, q, E, b)
    PROVE  /\ Line(o, g, Tail(q), E, b)
           /\ Line(o, Append(g, Head(q)), Tail(q), E, b)
<1> DEFINE t == Tail(q)
           h == Head(q)
<1>1. /\ \A k \in DOMAIN t : k + 1 \in DOMAIN q /\ t[k] = q[k + 1] /\ k > 0
      /\ DOMAIN t \subseteq Nat /\ 1 \in DOMAIN q /\ h = q[1] /\ h \in Messages
  OBVIOUS
<1> HIDE DEF t, h
<1>2. Increasing(o, t)
  <2> SUFFICES ASSUME NEW k \in DOMAIN t, NEW l \in DOMAIN t, k < l
               PROVE  Before(o, t[k], t[l])
    BY DEF Increasing
  <2>1. k + 1 < l + 1
    BY <1>1
  <2> QED
    BY <1>1, <2>1 DEF Line, Increasing
<1>3. Elems(t) \subseteq Elems(q) /\ h \in Elems(q)
  BY <1>1 DEF Elems
<1>4. \A y \in Elems(t) : Before(o, h, y)
  <2> SUFFICES ASSUME NEW k \in DOMAIN t PROVE Before(o, h, t[k])
    BY DEF Elems
  <2>1. 1 < k + 1
    BY <1>1
  <2> QED
    BY <1>1, <2>1 DEF Line, Increasing
<1>5. Elems(Append(g, h)) = Elems(g) \cup {h}
  BY <1>1, ElemsAppend
<1>6. Increasing(o, Append(g, h))
  <2>1. \A y \in Elems(g) : Before(o, y, h)
    BY <1>3 DEF Line, AllBefore
  <2> QED
    BY <1>1, <2>1, IncreasingAppend DEF Line
<1>7. Line(o, g, t, E, b)
  BY <1>2, <1>3 DEF Line, AllBefore
<1>8. Line(o, Append(g, h), t, E, b)
  BY <1>2, <1>3, <1>4, <1>5, <1>6 DEF Line, AllBefore
<1> QED
  BY <1>7, <1>8 DEF t, h

\* The order of the sends goes on with what is sent next.
LEMMA BeforeStays ==
    ASSUME NEW S, NEW o \in Seq(S), NEW m \in S
    PROVE  /\ \A x, y : Before(o, x, y) => Before(Append(o, m), x, y)
           /\ \A x \in Elems(o) : Before(Append(o, m), x, m)
<1>1. /\ \A k \in DOMAIN o : k \in DOMAIN Append(o, m) /\ Append(o, m)[k] = o[k] /\ k < Len(o) + 1
      /\ Len(o) + 1 \in DOMAIN Append(o, m) /\ Append(o, m)[Len(o) + 1] = m
  OBVIOUS
<1> QED
  BY <1>1 DEF Before, Elems

\* The line stays in order when a message is sent that is not in it.
LEMMA LineOutlasts ==
    ASSUME NEW S, NEW o \in Seq(S), NEW m \in S, NEW g, NEW q, NEW E, NEW b,
           Line(o, g, q, E, b)
    PROVE  /\ Line(Append(o, m), g, q, E, b)
           /\ Elems(g) \cup Elems(q) \cup E \cup Lengths(b) \subseteq Elems(o)
<1>1. Increasing(Append(o, m), g) /\ Increasing(Append(o, m), q)
      /\ LengthsIncrease(Append(o, m), b)
  BY BeforeStays DEF Line, Increasing, LengthsIncrease
<1>2. /\ AllBefore(Append(o, m), Elems(g), Elems(q) \cup E \cup Lengths(b))
      /\ AllBefore(Append(o, m), Elems(q), E \cup Lengths(b))
      /\ AllBefore(Append(o, m), E, Lengths(b))
  BY BeforeStays DEF Line, AllBefore
<1>3. Elems(o) \subseteq Elems(Append(o, m))
  BY ElemsAppend
<1> QED
  BY <1>1, <1>2, <1>3 DEF Line

\* Units are written: either they have no length, or the first of them is the
\* length of the message that was sent last.
LEMMA UnitsAreWritten ==
    ASSUME NEW o, NEW g, NEW q, NEW E, NEW b \in Seq(Unit), NEW u \in Seq(Unit),
           Line(o, g, q, E, b),
           \A k \in 2..Len(u) : u[k][2] # 0,
           NEW m, u # <<>> /\ u[1][2] = 0 =>
                  /\ u[1][1] = m /\ m \in Elems(o)
                  /\ \A x \in Elems(g) \cup Elems(q) \cup E \cup Lengths(b) : Before(o, x, m)
    PROVE  Line(o, g, q, E, b \o u)
<1> DEFINE c == b \o u
           n == Len(b)
<1>1. /\ DOMAIN b = 1..n /\ n \in Nat /\ DOMAIN u = 1..Len(u) /\ Len(u) \in Nat
      /\ DOMAIN c = 1..(n + Len(u))
      /\ \A k \in 1..n : c[k] = b[k]
      /\ \A k \in 1..Len(u) : c[n + k] = u[k]
  OBVIOUS
<1> HIDE DEF c, n
<1>2. \A k \in DOMAIN c : \/ k \in DOMAIN b /\ c[k] = b[k]
                          \/ k > n /\ k - n \in 1..Len(u) /\ c[k] = u[k - n]
  <2> TAKE k \in DOMAIN c
  <2>1. CASE k <= n
    BY <1>1, <2>1
  <2>2. CASE ~(k <= n)
    <3>1. k - n \in 1..Len(u) /\ n + (k - n) = k
      BY <1>1, <2>2
    <3> QED
      BY <1>1, <2>2, <3>1
  <2> QED
    BY <2>1, <2>2
<1>3. \A k \in DOMAIN c : c[k][2] = 0 =>
         \/ k \in DOMAIN b /\ c[k] = b[k]
         \/ k = n + 1 /\ c[k] = u[1] /\ u # <<>> /\ u[1][2] = 0
  <2> SUFFICES ASSUME NEW k \in DOMAIN c, c[k][2] = 0, k > n, k - n \in 1..Len(u), c[k] = u[k - n]
               PROVE  k = n + 1 /\ c[k] = u[1] /\ u # <<>> /\ u[1][2] = 0
    BY <1>2
  <2>1. k - n \notin 2..Len(u)
    OBVIOUS
  <2>2. k - n = 1 /\ k = n + 1
    BY <1>1, <2>1
  <2> QED
    BY <2>2
<1>4. Lengths(c) \subseteq Lengths(b) \cup {x \in {m} : u # <<>> /\ u[1][2] = 0}
  BY <1>3 DEF Lengths
<1>5. LengthsIncrease(o, c)
  <2> SUFFICES ASSUME NEW k \in DOMAIN c, NEW l \in DOMAIN c, k < l, c[k][2] = 0, c[l][2] = 0
               PROVE  Before(o, c[k][1], c[l][1])
    BY DEF LengthsIncrease
  <2>1. k \in DOMAIN b /\ c[k] = b[k]
    BY <1>1, <1>3
  <2>2. CASE l \in DOMAIN b /\ c[l] = b[l]
    BY <2>1, <2>2 DEF Line, LengthsIncrease
  <2>3. CASE l = n + 1 /\ c[l] = u[1] /\ u # <<>> /\ u[1][2] = 0
    <3>1. c[k][1] \in Lengths(b)
      BY <2>1 DEF Lengths
    <3> QED
      BY <2>3, <3>1
  <2> QED
    BY <1>3, <2>2, <2>3
<1>6. CASE u # <<>> /\ u[1][2] = 0
  BY <1>4, <1>5, <1>6 DEF c, Line, AllBefore
<1>7. CASE ~(u # <<>> /\ u[1][2] = 0)
  BY <1>4, <1>5, <1>7 DEF c, Line, AllBefore
<1> QED
  BY <1>6, <1>7

-----------------------------------------------------------------------------
(* The invariant.                                                          *)

\* A function on 1..n is a sequence.
LEMMA FunctionIsSeq ==
    ASSUME NEW S, NEW n \in Nat, NEW f \in [1..n -> S]
    PROVE  f \in Seq(S)
BY SeqDef

\* A message that was not sent has its whole frame left.
LEMMA FrameIsLeft ==
    ASSUME NEW m \in Messages, NEW o \in Seq(Messages), ~Contains(o, m)
    PROVE  LeftOf(o, m, Frame(m))
<1> DEFINE f == Frame(m)
<1>1. Size[m] \in Nat \ {0}
  BY TcpAssumption DEF Messages
<1>2. f \in Seq(Unit) /\ Len(f) = Size[m] + 1 /\ \A k \in 1..Len(f) : f[k] = <<m, k - 1>>
  <2>1. \A k \in 1..(Size[m] + 1) : <<m, k - 1>> \in Unit
    BY <1>1 DEF Unit
  <2>2. f = [k \in 1..(Size[m] + 1) |-> <<m, k - 1>>] /\ Size[m] + 1 \in Nat
    BY <1>1 DEF Frame
  <2> HIDE DEF f
  <2>3. f \in [1..(Size[m] + 1) -> Unit]
    BY <2>1, <2>2
  <2>4. f \in Seq(Unit)
    BY <2>2, <2>3, FunctionIsSeq
  <2>5. DOMAIN f = 1..(Size[m] + 1)
    BY <2>3
  <2>6. Len(f) = Size[m] + 1
    BY <2>2, <2>4, <2>5, LenProperties
  <2> QED
    BY <2>2, <2>4, <2>6
<1>3. m \notin Elems(o)
  BY DEF Contains, Elems
<1> HIDE DEF f
<1>4. f # <<>> /\ 1 \in 1..Len(f) /\ f[1][2] = 0
  BY <1>1, <1>2
<1>5. \A k \in 1..Len(f) : f[k][1] = m /\ f[k][2] = k - 1
  BY <1>2
<1>6. \A k \in 2..Len(f) : f[k][2] # 0
  BY <1>1, <1>2, <1>5
<1> QED
  BY <1>2, <1>3, <1>4, <1>5, <1>6 DEF f, LeftOf

\* Which of a sequence's elements are there does not change what is left to
\* write of other messages.
LEMMA OthersLeft ==
    ASSUME NEW m \in Messages, NEW w, w # m, NEW o \in Seq(Messages), NEW left, LeftOf(o, w, left)
    PROVE  LeftOf(Append(o, m), w, left)
BY ElemsAppend DEF LeftOf

\* write() keeps the invariant, whatever part of a frame it has yet to write.
LEMMA WriteStep ==
    ASSUME TInv, NEW m \in Messages, NEW left, LeftOf(out, m, left), Written(m, left),
           UNCHANGED <<got, queue, reader, expects>>
    PROVE  TInv'
<1> DEFINE room == Buffer - Len(bytes)
           n == IF Len(left) < room THEN Len(left) ELSE room
           u == SubSeq(left, 1, n)
           rest == SubSeq(left, n + 1, Len(left))
<1>1. /\ bytes' = bytes \o u
      /\ writes' = IF rest = <<>>
                   THEN [w \in DOMAIN writes \ {m} |-> writes[w]]
                   ELSE [w \in DOMAIN writes \cup {m} |-> IF w = m THEN rest ELSE writes[w]]
      /\ out' = IF n > 0 /\ ~Contains(out, m) THEN Append(out, m) ELSE out
  BY DEF Written
<1>2. /\ bytes \in Seq(Unit) /\ Len(bytes) \in Nat /\ left \in Seq(Unit) /\ Len(left) \in Nat \ {0}
      /\ out \in Seq(Messages) /\ room \in Nat
  BY TcpAssumption DEF TInv, TTypes, LeftOf
<1> HIDE DEF room
<1>3. n \in 0..Len(left) /\ n <= room
  BY <1>2
<1> HIDE DEF n
<1>4. /\ u \in Seq(Unit) /\ Len(u) = n /\ \A k \in 1..n : u[k] = left[k]
      /\ rest \in Seq(Unit) /\ Len(rest) = Len(left) - n
      /\ \A k \in 1..(Len(left) - n) : rest[k] = left[k + n]
  BY <1>2, <1>3
<1> HIDE DEF u, rest
<1>5. bytes' \in Seq(Unit) /\ Len(bytes') <= Buffer
  <2>1. bytes' \in Seq(Unit) /\ Len(bytes') = Len(bytes) + n
    BY <1>1, <1>2, <1>4, ConcatProperties
  <2>2. n <= Buffer - Len(bytes)
    BY <1>3 DEF room
  <2> QED
    BY <1>2, <1>3, <2>1, <2>2, TcpAssumption
<1>6. Contains(out, m) <=> m \in Elems(out)
  BY <1>2 DEF Contains, Elems
<1>7. /\ out' \in Seq(Messages)
      /\ n = 0 => out' = out
      /\ n > 0 => Elems(out') = Elems(out) \cup {m}
  BY <1>1, <1>2, <1>6, ElemsAppend
<1>8. TTypes'
  <2>1. DOMAIN writes' \subseteq Messages
    BY <1>1 DEF TInv, TTypes
  <2> QED
    BY <1>5, <1>7, <2>1 DEF TInv, TTypes
<1>9. Distinct(out')
  <2>1. CASE out' = out
    BY <2>1 DEF TInv
  <2>2. CASE out' = Append(out, m) /\ m \notin Elems(out)
    <3>1. \A k \in DOMAIN out' : \/ k \in DOMAIN out /\ out'[k] = out[k] /\ out'[k] # m
                                 \/ k = Len(out) + 1 /\ out'[k] = m
      BY <1>2, <2>2 DEF Elems
    <3> QED
      BY <3>1 DEF TInv, Distinct
  <2> QED
    BY <1>1, <1>6, <2>1, <2>2
<1>10. rest # <<>> => LeftOf(out', m, rest)
  <2> SUFFICES ASSUME rest # <<>> PROVE LeftOf(out', m, rest)
    OBVIOUS
  <2>1. \A k \in 1..Len(rest) : k + n \in 1..Len(left) /\ rest[k] = left[k + n]
    BY <1>2, <1>3, <1>4
  <2>2. \A k \in 1..Len(rest) : rest[k][1] = m
    BY <2>1 DEF LeftOf
  <2>3. \A k \in 2..Len(rest) : rest[k][2] # 0
    <3> TAKE k \in 2..Len(rest)
    <3>1. k + n \in 2..Len(left) /\ k \in 1..Len(rest)
      BY <1>2, <1>3, <1>4
    <3> QED
      BY <2>1, <3>1 DEF LeftOf
  <2>4. rest[1][2] = 0 <=> m \notin Elems(out')
    <3>1. 1 \in 1..Len(rest) /\ rest[1] = left[1 + n]
      BY <1>4, <2>1
    <3>2. CASE n = 0
      BY <1>7, <3>1, <3>2 DEF LeftOf
    <3>3. CASE n > 0
      <4>1. 1 + n \in 2..Len(left)
        BY <1>2, <1>3, <2>1, <3>1, <3>3
      <4> QED
        BY <1>7, <3>1, <3>3, <4>1 DEF LeftOf
    <3> QED
      BY <1>3, <3>2, <3>3
  <2> QED
    BY <1>4, <2>2, <2>3, <2>4 DEF LeftOf
<1>11. \A w \in DOMAIN writes' : LeftOf(out', w, writes'[w])
  <2> TAKE w \in DOMAIN writes'
  <2>1. CASE w = m
    BY <1>1, <1>10, <2>1
  <2>2. CASE w # m
    <3>1. w \in DOMAIN writes /\ writes'[w] = writes[w]
      BY <1>1, <2>2
    <3>2. LeftOf(out, w, writes[w])
      BY <3>1 DEF TInv
    <3> QED
      BY <1>1, <1>2, <2>2, <3>1, <3>2, OthersLeft
  <2> QED
    BY <2>1, <2>2
<1>12. Line(out', got, queue, Expected, bytes')
  <2>1. \A k \in 2..Len(u) : u[k][2] # 0
    <3> TAKE k \in 2..Len(u)
    <3>1. k \in 2..Len(left) /\ k \in 1..n
      BY <1>2, <1>3, <1>4
    <3> QED
      BY <1>4, <3>1 DEF LeftOf
  <2>2. u # <<>> => n > 0 /\ u[1] = left[1] /\ u[1][1] = m
    <3> SUFFICES ASSUME u # <<>> PROVE n > 0 /\ u[1] = left[1] /\ u[1][1] = m
      OBVIOUS
    <3>1. n > 0 /\ 1 \in 1..n /\ 1 \in 1..Len(left)
      BY <1>2, <1>3, <1>4
    <3> QED
      BY <1>4, <3>1 DEF LeftOf
  <2>3. CASE u # <<>> /\ u[1][2] = 0
    <3>1. out' = Append(out, m) /\ m \in Elems(out')
      BY <1>1, <1>6, <1>7, <2>2, <2>3 DEF LeftOf
    <3>2. /\ Line(out', got, queue, Expected, bytes)
          /\ Elems(got) \cup Elems(queue) \cup Expected \cup Lengths(bytes) \subseteq Elems(out)
      BY <1>2, <3>1, LineOutlasts DEF TInv
    <3>3. \A x \in Elems(got) \cup Elems(queue) \cup Expected \cup Lengths(bytes) : Before(out', x, m)
      BY <1>2, <3>1, <3>2, BeforeStays
    <3> QED
      BY <1>1, <1>2, <1>4, <2>1, <2>2, <3>1, <3>2, <3>3, UnitsAreWritten
  <2>4. CASE ~(u # <<>> /\ u[1][2] = 0)
    <3>1. Line(out', got, queue, Expected, bytes)
      BY <1>1, <1>2, LineOutlasts DEF TInv
    <3> QED
      BY <1>1, <1>2, <1>4, <2>1, <2>4, <3>1, UnitsAreWritten
  <2> QED
    BY <2>3, <2>4
<1> QED
  BY <1>8, <1>9, <1>11, <1>12 DEF TInv, Expected

\* Every step of a sender, of the network or of the receiver keeps the line.
LEMMA InvStep == TInv /\ [TNext]_tvars => TInv'
<1> SUFFICES ASSUME TInv, [TNext]_tvars PROVE TInv'
  OBVIOUS
<1>a. /\ out \in Seq(Messages) /\ got \in Seq(Messages) /\ queue \in Seq(Messages)
      /\ bytes \in Seq(Unit) /\ Len(bytes) \in Nat /\ Len(bytes) <= Buffer
      /\ DOMAIN writes \subseteq Messages
      /\ Line(out, got, queue, Expected, bytes)
  BY DEF TInv, TTypes
<1>b. \A m \in Expected : m \in Messages
  BY <1>a DEF Line, Elems
<1>c. /\ {} \in SUBSET Expected /\ Expected \in SUBSET Expected /\ 1 \in Nat \ {0}
      /\ 0 \in 0..Len(bytes) /\ Len(bytes) \in 0..Len(bytes) /\ SubSeq(bytes, 1, 0) = <<>>
  BY <1>a
<1>1. CASE Connect
  <2>1. Expected' = {}
    BY <1>1 DEF Connect, Expected
  <2>2. bytes = SubSeq(bytes, 1, Len(bytes))
    BY <1>a
  <2>3. Line(out, got, queue, {}, bytes)
    BY <1>a, <1>c, <2>2, LineShrinks
  <2> QED
    BY <1>1, <2>1, <2>3 DEF Connect, TInv, TTypes
<1>2. CASE WriteFails
  <2>1. DOMAIN writes' = {}
    BY <1>2 DEF WriteFails
  <2> QED
    BY <1>2, <2>1 DEF WriteFails, TInv, TTypes, Expected
<1>3. CASE Break
  <2>1. PICK n \in 0..Len(bytes) : bytes' = SubSeq(bytes, 1, n)
    BY <1>3 DEF Break
  <2>2. bytes' \in Seq(Unit) /\ Len(bytes') <= Buffer
    BY <1>a, <2>1, TcpAssumption
  <2>3. Line(out, got, queue, Expected, bytes')
    BY <1>a, <2>1, LineShrinks
  <2> QED
    BY <1>3, <2>2, <2>3 DEF Break, TInv, TTypes, Expected
<1>4. ASSUME NEW m \in Messages, Send(m) PROVE TInv'
  <2>1. LeftOf(out, m, Frame(m)) /\ Written(m, Frame(m))
    BY <1>4, <1>a, FrameIsLeft DEF Send
  <2> QED
    BY <1>4, <2>1, WriteStep DEF Send
<1>5. ASSUME NEW m \in DOMAIN writes, Resume(m) PROVE TInv'
  <2>1. LeftOf(out, m, writes[m]) /\ m \in Messages
    BY <1>a DEF TInv
  <2> QED
    BY <1>5, <2>1, WriteStep DEF Resume
<1>6. CASE ReadLength
  <2>1. /\ reader = "length" /\ bytes # <<>> /\ Expected = {}
        /\ UNCHANGED <<writes, queue, out, got>>
    BY <1>6 DEF ReadLength, Expected
  <2>2. CASE Head(bytes)[2] = 0
    <3>1. /\ reader' = "body" /\ expects' = bytes[1][1] /\ bytes' = Tail(bytes) /\ bytes[1][2] = 0
      BY <1>6, <1>a, <2>1, <2>2 DEF ReadLength
    <3>2. bytes' \in Seq(Unit) /\ Len(bytes') <= Buffer
      BY <1>a, <2>1, <3>1, TcpAssumption
    <3>3. Line(out, got, queue, {bytes[1][1]}, bytes')
      BY <1>a, <2>1, <3>1, LengthEnters
    <3> QED
      BY <2>1, <3>1, <3>2, <3>3 DEF TInv, TTypes, Expected
  <2>3. CASE Head(bytes)[2] # 0
    <3>1. reader' = "ended" /\ bytes' = <<>>
      BY <1>6, <2>3 DEF ReadLength
    <3>2. Line(out, got, queue, {}, <<>>)
      BY <1>a, <1>c, LineShrinks
    <3> QED
      BY <2>1, <3>1, <3>2, TcpAssumption DEF TInv, TTypes, Expected
  <2> QED
    BY <2>2, <2>3
<1>7. CASE ReadBody
  <2>1. /\ Expected = {expects} /\ Expected' = {} /\ UNCHANGED <<writes, out, got>>
        /\ bytes' = SubSeq(bytes, Size[expects] + 1, Len(bytes))
        /\ queue' = queue \/ queue' = Append(queue, expects)
    BY <1>7 DEF ReadBody, Expected
  <2>2. expects \in Messages /\ Size[expects] + 1 \in Nat \ {0}
    BY <1>b, <2>1, TcpAssumption DEF Messages
  <2>3. bytes' \in Seq(Unit) /\ Len(bytes') <= Buffer
    BY <1>a, <2>1, <2>2, TcpAssumption
  <2>4. Line(out, got, queue, {}, bytes')
    BY <1>a, <1>c, <2>1, <2>2, LineShrinks
  <2>5. Line(out, got, queue, {expects}, bytes')
    BY <1>a, <2>1, <2>2, LineShrinks
  <2>6. Line(out, got, Append(queue, expects), {}, bytes')
    BY <1>a, <2>2, <2>5, FrameIsQueued
  <2>7. queue' \in Seq(Messages) /\ Line(out, got, queue', {}, bytes')
    <3>1. CASE queue' = queue
      BY <1>a, <2>4, <3>1
    <3>2. CASE queue' = Append(queue, expects)
      <4>1. queue' \in Seq(Messages)
        BY <1>a, <2>2, <3>2
      <4> QED
        BY <2>6, <3>2, <4>1
    <3> QED
      BY <2>1, <3>1, <3>2
  <2> QED
    BY <2>1, <2>3, <2>7 DEF TInv, TTypes
<1>8. CASE ReadFails
  <2>1. Expected' = {} /\ bytes' = <<>> /\ UNCHANGED <<writes, queue, out, got>>
    BY <1>8 DEF ReadFails, Expected
  <2>2. Line(out, got, queue, {}, <<>>)
    BY <1>a, <1>c, LineShrinks
  <2> QED
    BY <2>1, <2>2, TcpAssumption DEF TInv, TTypes
<1>9. CASE Receive
  <2>1. /\ queue # <<>> /\ queue' = Tail(queue)
        /\ got' = got \/ got' = Append(got, Head(queue))
        /\ UNCHANGED <<writes, out, bytes, reader, expects>>
    BY <1>9 DEF Receive
  <2>2. queue' \in Seq(Messages) /\ Head(queue) \in Messages
    BY <1>a, <2>1
  <2>3. got' \in Seq(Messages)
    <3>1. Append(got, Head(queue)) \in Seq(Messages)
      BY <1>a, <2>2
    <3> QED
      BY <1>a, <2>1, <3>1
  <2>4. Line(out, got', queue', Expected, bytes)
    BY <1>a, <2>1, FrontIsTaken
  <2> QED
    BY <2>1, <2>2, <2>3, <2>4 DEF TInv, TTypes, Expected
<1>10. CASE UNCHANGED tvars
  BY <1>10 DEF tvars, TInv, TTypes, Expected
<1> QED
  BY <1>1, <1>2, <1>3, <1>4, <1>5, <1>6, <1>7, <1>8, <1>9, <1>10 DEF TNext

\* Nothing was sent at first.
LEMMA InitInv == TInit => TInv
<1> SUFFICES ASSUME TInit PROVE TInv
  OBVIOUS
<1>1. TTypes
  BY TcpAssumption DEF TInit, TTypes
<1>2. Distinct(out) /\ \A m \in DOMAIN writes : LeftOf(out, m, writes[m])
  BY DEF TInit, Distinct
<1>3. Expected = {} /\ Elems(<<>>) = {} /\ Lengths(<<>>) = {}
  BY DEF TInit, Expected, Elems, Lengths
<1>4. Increasing(<<>>, <<>>) /\ LengthsIncrease(<<>>, <<>>)
  BY DEF Increasing, LengthsIncrease
<1>5. Line(out, got, queue, Expected, bytes)
  BY <1>3, <1>4 DEF TInit, Line, AllBefore
<1> QED
  BY <1>1, <1>2, <1>5 DEF TInv

-----------------------------------------------------------------------------
(* Every step is one of LossyLink, or none.                                *)

\* The position of a message in the order of the sends.
Position(o, x) == CHOOSE k \in DOMAIN o : o[k] = x

\* Every message is sent once, so that its position tells it.
LEMMA PositionOf ==
    ASSUME NEW o, Distinct(o), NEW k \in DOMAIN o
    PROVE  Position(o, o[k]) = k
BY DEF Position, Distinct

\* The order of the sends is that of the positions.
LEMMA PositionsInOrder ==
    ASSUME NEW o, Distinct(o), NEW x, NEW y, Before(o, x, y)
    PROVE  Position(o, x) < Position(o, y) /\ Position(o, y) \in DOMAIN o
BY PositionOf DEF Before

\* A first write is a send, receive() for run() a receipt, and all else none of
\* the link's business.
LEMMA StepRefines ==
    ASSUME TInv, TInv', [TNext]_tvars
    PROVE  [LL!LNext]_<<out, [n \in DOMAIN got |-> Position(out, got[n])]>>
<1> DEFINE received == [n \in DOMAIN got |-> Position(out, got[n])]
<1>a. /\ out \in Seq(Messages) /\ got \in Seq(Messages) /\ queue \in Seq(Messages)
      /\ Distinct(out) /\ Distinct(out')
      /\ Line(out, got, queue, Expected, bytes) /\ Line(out', got', queue', Expected', bytes')
  BY DEF TInv, TTypes
<1>1. ASSUME out' = out, got' = got
      PROVE  UNCHANGED <<out, received>>
  BY <1>1
<1>2. ASSUME NEW m \in Messages, out' = Append(out, m), got' = got
      PROVE  LL!Send(m)
  <2>1. ASSUME NEW n \in DOMAIN got
        PROVE  Position(out', got[n]) = Position(out, got[n])
    <3>1. PICK k \in DOMAIN out : out[k] = got[n]
      BY <1>a DEF Line, Elems
    <3>2. k \in DOMAIN out' /\ out'[k] = got[n]
      BY <1>2, <1>a, <3>1
    <3> QED
      BY <1>a, <3>1, <3>2, PositionOf
  <2>2. received' = received
    BY <1>2, <2>1
  <2> QED
    BY <1>2, <2>2 DEF LL!Send, Position
<1>3. ASSUME out' = out, queue # <<>>, got' = Append(got, Head(queue))
      PROVE  \E k \in DOMAIN out : LL!Receive(k)
  <2> DEFINE h == Head(queue)
             k == Position(out, h)
  <2>1. h \in Messages /\ h \in Elems(queue)
    BY <1>3, <1>a DEF Elems
  <2>2. \A n \in DOMAIN got : Before(out, got[n], h)
    BY <1>a, <2>1 DEF Line, AllBefore, Elems
  <2> HIDE DEF h
  <2>3. k \in DOMAIN out
    <3>1. PICK l \in DOMAIN out : out[l] = h
      BY <1>a, <2>1 DEF Line, Elems
    <3> QED
      BY <1>a, <3>1, PositionOf
  <2>4. \A n \in DOMAIN received : received[n] < k
    BY <1>a, <2>2, PositionsInOrder
  <2>5. received' = Append(received, k)
    <3>1. got' = Append(got, h)
      BY <1>3 DEF h
    <3>2. /\ DOMAIN got = 1..Len(got) /\ Len(got) \in Nat
          /\ DOMAIN got' = 1..(Len(got) + 1)
          /\ \A n \in 1..Len(got) : got'[n] = got[n]
          /\ got'[Len(got) + 1] = h
      BY <1>a, <2>1, <3>1
    <3>3. received' = [n \in 1..(Len(got) + 1) |-> Position(out, got'[n])]
      BY <1>3, <3>2
    <3>4. received \in Seq({Position(out, got[n]) : n \in DOMAIN got}) /\ Len(received) = Len(got)
      BY <1>a
    <3>5. Append(received, k) = [n \in 1..(Len(got) + 1) |-> IF n = Len(got) + 1 THEN k ELSE received[n]]
      BY <3>2, <3>4
    <3> QED
      BY <3>2, <3>3, <3>5
  <2> QED
    BY <1>3, <2>3, <2>4, <2>5 DEF LL!Receive, Position
<1>4. \/ out' = out /\ got' = got
      \/ \E m \in Messages : out' = Append(out, m) /\ got' = got
      \/ out' = out /\ queue # <<>> /\ got' = Append(got, Head(queue))
  <2>1. ASSUME NEW m \in Messages, NEW left, Written(m, left), got' = got
        PROVE  got' = got /\ (out' = out \/ out' = Append(out, m))
    BY <2>1 DEF Written
  <2> QED
    BY <1>a, <2>1
       DEF TNext, Connect, WriteFails, Break, Send, Resume, ReadLength, ReadBody, ReadFails, Receive,
           tvars, TInv, TTypes
<1> QED
  BY <1>1, <1>2, <1>3, <1>4 DEF LL!LNext

\* Whatever run() receives over a connection was sent, arrives whole, at most
\* once, and in the order of the sends, although several coroutines write to
\* the connection, it may break anywhere, and a timer may win over receive().
THEOREM LinkIsLossyFifo == TSpec => ImplementsLossyLink
<1>1. TInit => LL!LInit
  <2> SUFFICES ASSUME TInit PROVE LL!LInit
    OBVIOUS
  <2>1. out = <<>> /\ got = <<>>
    BY DEF TInit
  <2> QED
    BY <2>1 DEF LL!LInit
<1>2. TInv /\ [TNext]_tvars => TInv' /\ [LL!LNext]_(LL!lvars)
  BY InvStep, StepRefines DEF LL!lvars, Position
<1> QED
  BY <1>1, <1>2, InitInv, PTL DEF TSpec, ImplementsLossyLink, LL!LSpec

\* The same without the mapping: run() receives no message twice, and of two
\* that it receives the one sent first comes first.
THEOREM InOrderAtMostOnce == TSpec => [](Distinct(got) /\ Increasing(out, got))
<1>1. TInv /\ [TNext]_tvars => TInv'
  BY InvStep
<1>2. TInv => Distinct(got) /\ Increasing(out, got)
  <2> SUFFICES ASSUME TInv
               PROVE  Distinct(got) /\ Increasing(out, got)
    OBVIOUS
  <2>1. Increasing(out, got) /\ Distinct(out) /\ DOMAIN got \subseteq Nat /\ DOMAIN out \subseteq Nat
    BY DEF TInv, TTypes, Line
  <2>2. ASSUME NEW k \in DOMAIN got, NEW l \in DOMAIN got, k < l
        PROVE  got[k] # got[l]
    <3>1. Before(out, got[k], got[l])
      BY <2>1, <2>2 DEF Increasing
    <3> QED
      BY <2>1, <3>1 DEF Before, Distinct
  <2>3. Distinct(got)
    BY <2>1, <2>2 DEF Distinct
  <2> QED
    BY <2>1, <2>3
<1> QED
  BY <1>1, <1>2, InitInv, PTL DEF TSpec
=============================================================================
