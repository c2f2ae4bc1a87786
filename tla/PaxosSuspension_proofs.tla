----------------------- MODULE PaxosSuspension_proofs -----------------------
(***************************************************************************)
(* The invariant of PaxosInvariant with the sends that suspend: as long as *)
(* no call sends on in a round that it did not begin in, it holds between  *)
(* any two turns of any broadcasts, and each coroutine finds what it left. *)
(***************************************************************************)
EXTENDS PaxosReplica_proofs, PaxosSuspension

-----------------------------------------------------------------------------
(* One turn of a broadcast.                                                *)

FirstPeer(to) == {p \in to : p = Min(to)}
Turn(s, q, kind) == IF kind = "probe" THEN Probe(s) ELSE ProposeTo(s, q)

\* What a turn sends, and to whom.
LEMMA TurnSends ==
    ASSUME NEW n, NetType(n), NEW i \in Replicas, NEW s \in ReplicaRecord,
           NEW to \in SUBSET Peers(i), NEW kind, NEW n2 \in SendNext(n, i, s, to, kind)
    PROVE  \E out : /\ Sends(n, i, FirstPeer(to), out, n2)
                    /\ \A q \in to : out[q] = Turn(s, q, kind)
<1> DEFINE out == [p \in to |-> Turn(s, p, kind)]
<1>1. to \in SUBSET Replicas /\ FirstPeer(to) \in SUBSET Replicas /\ FirstPeer(to) \subseteq to
  BY DEF Peers, FirstPeer
<1>2. \A q \in to : out[q] = Turn(s, q, kind) /\ out[q] \in Message
  BY <1>1, ProposeToIs, ProbeIs DEF Turn
<1>3. n2 \in Sent(n, i, FirstPeer(to), out)
  BY DEF SendNext, FirstPeer, Turn
<1> HIDE DEF out
<1>4. Sends(n, i, FirstPeer(to), out, n2)
  BY <1>1, <1>2, <1>3 DEF Sends
<1> QED
  BY <1>2, <1>4

\* i takes a turn: at most one message more is on its way.
TakesTurn(n, i, s, to, kind, n2) ==
    /\ NetType(n2)
    /\ \A p, q \in Replicas : \A m \in Flight(n2)[p][q] :
         \/ m \in Flight(n)[p][q]
         \/ p = i /\ q \in to /\ q # i /\ m = Turn(s, q, kind)
    /\ \A p, q \in Replicas :
         \/ n2[p][q] = n[p][q]
         \/ /\ p = i /\ q \in to /\ q # i /\ q = Min(to)
            /\ n2[p][q] = Append(n[p][q], Turn(s, q, kind))

\* What is on its way after a turn.
LEMMA TurnFlight ==
    ASSUME NEW n, NetType(n), NEW i \in Replicas, NEW s \in ReplicaRecord,
           NEW to \in SUBSET Peers(i), NEW kind, NEW n2 \in SendNext(n, i, s, to, kind)
    PROVE  TakesTurn(n, i, s, to, kind, n2)
<1>1. PICK out : /\ Sends(n, i, FirstPeer(to), out, n2)
                 /\ \A q \in to : out[q] = Turn(s, q, kind)
  BY TurnSends
<1>2. \A q \in FirstPeer(to) : q \in to /\ q # i /\ q = Min(to)
  BY DEF FirstPeer, Peers
<1>3. /\ NetType(n2)
      /\ \A p, q \in Replicas : \A m \in Flight(n2)[p][q] :
           \/ m \in Flight(n)[p][q]
           \/ p = i /\ q \in FirstPeer(to) /\ m = out[q]
  BY <1>1, SentFlight
<1>4. \A p, q \in Replicas : \/ n2[p][q] = n[p][q]
                             \/ p = i /\ q \in FirstPeer(to) /\ n2[p][q] = Append(n[p][q], out[q])
  BY <1>1, SentIs
<1>5. \A p, q \in Replicas : \A m \in Flight(n2)[p][q] :
                \/ m \in Flight(n)[p][q]
                \/ p = i /\ q \in to /\ q # i /\ m = Turn(s, q, kind)
  BY <1>1, <1>2, <1>3
<1>6. \A p, q \in Replicas :
                \/ n2[p][q] = n[p][q]
                \/ /\ p = i /\ q \in to /\ q # i /\ q = Min(to)
                   /\ n2[p][q] = Append(n[p][q], Turn(s, q, kind))
  BY <1>1, <1>2, <1>4
<1> QED
  BY <1>3, <1>5, <1>6 DEF TakesTurn

\* A leader sends its log to one more peer.
LEMMA ProposesNext ==
    ASSUME NEW R, NEW n, NEW c, NetType(n), State(R, Flight(n), c), Fresh(R, n),
           NEW i \in Replicas, Leads(R, i), NEW to \in SUBSET Peers(i),
           NEW kind, kind # "probe", NEW n2 \in SendNext(n, i, R[i], to, kind)
    PROVE  NetType(n2) /\ State(R, Flight(n2), c) /\ Fresh(R, n2)
<1>1. R[i] \in ReplicaRecord
  BY StateFields DEF State
<1>2. PICK out : /\ Sends(n, i, FirstPeer(to), out, n2)
                 /\ \A q \in to : out[q] = Turn(R[i], q, kind)
  BY <1>1, TurnSends
<1>3. /\ NetType(n2)
      /\ \A p, q \in Replicas : \A m \in Flight(n2)[p][q] :
           \/ m \in Flight(n)[p][q]
           \/ p = i /\ q \in to /\ q # i /\ m = Turn(R[i], q, kind)
  <2>1. TakesTurn(n, i, R[i], to, kind, n2)
    BY <1>1, TurnFlight
  <2> QED
    BY <2>1 DEF TakesTurn
<1>4. \A q \in to : Turn(R[i], q, kind) = ProposeTo(R[i], q)
  BY DEF Turn
<1>5. \A p, q \in Replicas : \A m \in Flight(n2)[p][q] :
         m \in Flight(n)[p][q] \/ Posted(R, p, q, m)
  BY <1>3, <1>4 DEF Posted
<1>6. State(R, Flight(n2), c)
  BY <1>5, StatePosts
<1>7. Others(FirstPeer(to), out)
  <2> SUFFICES ASSUME NEW q \in FirstPeer(to)
               PROVE  ~Once(out[q])
    BY DEF Others
  <2>1. q \in to /\ q \in Replicas
    BY DEF FirstPeer, Peers
  <2>2. out[q] = ProposeTo(R[i], q)
    BY <1>2, <1>4, <2>1
  <2> QED
    BY <1>1, <2>1, <2>2, ProposeToIs DEF Once
<1>8. Fresh(R, n2)
  BY <1>2, <1>7, FreshSent
<1> QED
  BY <1>3, <1>6, <1>8

\* Unasked is about the messages on their way.
LEMMA UnaskedIs ==
    ASSUME NEW n, NetType(n), NEW i \in Replicas, NEW p \in Replicas, NEW r
    PROVE  Unasked(n, i, p, r) <=>
             /\ \A m \in Flight(n)[i][p] : m.type = "PROBE" => m.round # r
             /\ \A m \in Flight(n)[p][i] : m.type = "PREPARE" => m.round # r
<1>1. /\ \A m : m \in Flight(n)[i][p] <=> \E k \in DOMAIN n[i][p] : m = n[i][p][k]
      /\ \A m : m \in Flight(n)[p][i] <=> \E k \in DOMAIN n[p][i] : m = n[p][i][k]
  BY FlightIs
<1> QED
  BY <1>1 DEF Unasked

\* A candidate that counts no PREPARE yet probes one more peer.
LEMMA ProbesNext ==
    ASSUME NEW R, NEW n, NEW c, NetType(n), State(R, Flight(n), c), Fresh(R, n),
           NEW i \in Replicas, R[i].prepares = <<>>, Owner(R[i].election) = i,
           NEW to \in SUBSET Peers(i), \A p \in to : Unasked(n, i, p, R[i].election),
           NEW n2 \in SendNext(n, i, R[i], to, "probe")
    PROVE  NetType(n2) /\ State(R, Flight(n2), c) /\ Fresh(R, n2)
<1> DEFINE m == Probe(R[i])
           r == R[i].election
<1>1. R[i] \in ReplicaRecord
  BY StateFields DEF State
<1>2. m \in Message /\ m.type = "PROBE" /\ m.round = r
  BY <1>1, ProbeIs
<1>3. /\ NetType(n2)
      /\ \A p, q \in Replicas : \A a \in Flight(n2)[p][q] :
           \/ a \in Flight(n)[p][q]
           \/ p = i /\ q \in to /\ q # i /\ a = m
      /\ \A p, q \in Replicas :
           \/ n2[p][q] = n[p][q]
           \/ p = i /\ q \in to /\ q # i /\ n2[p][q] = Append(n[p][q], m)
  <2>1. \A q \in to : Turn(R[i], q, "probe") = m
    BY DEF Turn
  <2> HIDE DEF m
  <2>2. TakesTurn(n, i, R[i], to, "probe", n2)
    BY <1>1, TurnFlight
  <2> QED
    BY <2>1, <2>2 DEF TakesTurn
<1>4. \A p, q \in Replicas : \A a \in Flight(n2)[p][q] :
         a \in Flight(n)[p][q] \/ Posted(R, p, q, a)
  BY <1>3 DEF Posted
<1>5. State(R, Flight(n2), c)
  BY <1>4, StatePosts
<1>6. \A q \in to : q \in Replicas
  BY DEF Peers
<1>7. \A q \in to : /\ \A a \in Flight(n)[i][q] : a.type = "PROBE" => a.round # r
                    /\ \A a \in Flight(n)[q][i] : a.type = "PREPARE" => a.round # r
  BY <1>6, UnaskedIs
<1> HIDE DEF m, r
<1>8. \A p, q \in Replicas : Single(n2[p][q])
  <2> SUFFICES ASSUME NEW p \in Replicas, NEW q \in Replicas
               PROVE  Single(n2[p][q])
    OBVIOUS
  <2>1. n[p][q] \in Seq(Message) /\ Single(n[p][q])
    BY FlightIs DEF Fresh
  <2>2. CASE p = i /\ q \in to /\ n2[p][q] = Append(n[p][q], m)
    <3>1. \A k \in DOMAIN n[p][q] : n[p][q][k] \in Flight(n)[p][q]
      BY FlightIs
    <3>2. \A k \in DOMAIN n[p][q] : n[p][q][k].type = m.type => n[p][q][k].round # m.round
      BY <1>2, <1>7, <2>2, <3>1
    <3> QED
      BY <1>2, <2>1, <2>2, <3>2, SingleAppend
  <2> QED
    BY <1>3, <2>1, <2>2
<1>9. \A q \in Replicas : \A s : ~Collected(R, i, q, s)
  BY DEF Collected
<1>10. ASSUME NEW p \in Replicas, NEW q \in Replicas, NEW a \in Flight(n2)[p][q], a.type = "PROBE"
       PROVE  /\ ~Collected(R, p, q, a.round)
              /\ \A b \in Flight(n2)[q][p] : b.type = "PREPARE" => b.round # a.round
  <2>1. \A b \in Flight(n2)[q][p] : b.type = "PREPARE" => b \in Flight(n)[q][p]
    BY <1>2, <1>3
  <2>2. CASE a \in Flight(n)[p][q]
    BY <1>10, <2>1, <2>2 DEF Fresh
  <2>3. CASE p = i /\ q \in to /\ a = m
    BY <1>2, <1>7, <1>9, <2>1, <2>3
  <2> QED
    BY <1>3, <2>2, <2>3
<1>11. ASSUME NEW p \in Replicas, NEW q \in Replicas, NEW b \in Flight(n2)[q][p], b.type = "PREPARE"
       PROVE  ~Collected(R, p, q, b.round)
  BY <1>2, <1>3, <1>11 DEF Fresh
<1> QED
  BY <1>3, <1>5, <1>8, <1>10, <1>11 DEF Fresh

-----------------------------------------------------------------------------
(* What the steps that a broadcast was split into do to the state.          *)

\* A candidate, until it wins, may count its own PREPARE or none.
LEMMA PreparesState ==
    ASSUME NEW R, NEW W, NEW c, State(R, W, c), NEW i \in Replicas, ~Leads(R, i),
           R[i].election = R[i].probe, Owner(R[i].election) = i,
           NEW own, own = <<>> \/ own = <<Prepare(i, R[i], R[i].election)>>,
           NEW R2, Becomes(R, R2, i, [R[i] EXCEPT !.prepares = own])
    PROVE  State(R2, W, c)
<1> DEFINE s == R[i]
           m == Prepare(i, s, s.election)
           t == [s EXCEPT !.prepares = own]
<1>1. /\ R \in [Replicas -> ReplicaRecord] /\ s \in ReplicaRecord /\ R2 = [R EXCEPT ![i] = t]
      /\ R2[i] = t /\ Typed(R, W) /\ s.leader # i /\ Core(R, W, c)
  BY DEF Becomes, State, Core, Typed, Leads
<1>2. /\ s.probe \in Nat /\ s.ack \in Nat /\ s.election \in Nat /\ s.applied \in Nat
  BY <1>1, ReplicaFields
<1>3. m \in PrepareMessage /\ m.sender = i /\ m.round = s.election /\ Reported(m) = Held(s)
  BY <1>1, <1>2, PrepareIs
<1> HIDE DEF m
<1>4. /\ own \in Seq(PrepareMessage)
      /\ \A k \in DOMAIN own : own[k] = m
      /\ \A k, l \in DOMAIN own : k = l
  <2>1. CASE own = <<>>
    BY <2>1
  <2>2. CASE own = <<m>>
    BY <1>3, <2>2
  <2> QED
    BY <2>1, <2>2 DEF m
<1>5. /\ t \in ReplicaRecord /\ t.probe = s.probe /\ t.election = s.election /\ t.prepares = own
      /\ t.leader = s.leader /\ t.ack = s.ack /\ t.applied = s.applied
      /\ t.base = s.base /\ t.log = s.log /\ t.decided = s.decided /\ t.db = s.db
      /\ t.journal = s.journal /\ t.waiters = s.waiters /\ t.calls = s.calls
  BY <1>1, <1>4 DEF ReplicaRecord
<1> HIDE DEF t
<1>6. Held(t) = Held(s) /\ LogEnd(t) = LogEnd(s)
  BY <1>5 DEF Held, LogEnd
<1>7. /\ ReplicaIndices(s, c) /\ Settled(R, W, c, s.base, s.ack) /\ Decided(R, W, c, s.decided, s.ack)
      /\ ReplicaRounds(R, i)
  BY <1>1 DEF Core, Indices, Witnesses, Rounds
<1>8. ReplicaIndices(t, c)
  BY <1>5, <1>6, <1>7 DEF ReplicaIndices
<1>9. s.ack <= s.probe /\ s.ack < s.election
  BY <1>1, <1>2, <1>7 DEF ReplicaRounds, Leads
<1>10. t.probe >= s.probe /\ t.applied >= s.applied /\ Suffix(Held(t), Held(s)) /\ t.leader # i
  BY <1>1, <1>2, <1>5, <1>6, SuffixSelf
<1>11. \A k \in DOMAIN t.prepares :
          /\ t.prepares[k].sender = i /\ Reported(t.prepares[k]) = Held(s)
          /\ t.prepares[k].round = s.election /\ s.ack <= t.prepares[k].round
          /\ t.prepares[k].round <= t.probe
  BY <1>2, <1>3, <1>4, <1>5, <1>9
<1>12. Moves(R, W, c, i, t)
  BY <1>5, <1>7, <1>8, <1>10, <1>11 DEF Moves
<1>13. ReplicaRounds(R2, i)
  <2>1. ~Leads(R2, i)
    BY <1>1, <1>5 DEF Leads
  <2>2. t.ack <= t.probe /\ t.election <= t.probe /\ t.ack < t.election /\ ~(t.ack = t.probe)
    BY <1>2, <1>5, <1>9
  <2>3. \A k, l \in DOMAIN t.prepares : k = l
    BY <1>4, <1>5
  <2> QED
    BY <1>1, <1>5, <1>11, <2>1, <2>2, <2>3 DEF ReplicaRounds
<1>14. Core(R2, W, c)
  BY <1>1, <1>12, <1>13, MovesCore
<1>15. Becomes(R, R2, i, t)
  BY DEF t
<1> QED
  BY <1>5, <1>11, <1>14, <1>15, StateRole

\* A waiter fewer leaves the books in order.
LEMMA BooksForget ==
    ASSUME NEW R, NEW P, NEW c, Books(R, P, c), NEW R2,
           \A q \in Replicas : /\ R2[q].applied = R[q].applied /\ R2[q].journal = R[q].journal
                               /\ R2[q].calls = R[q].calls
                               /\ DOMAIN R2[q].waiters \subseteq DOMAIN R[q].waiters
                               /\ \A k \in DOMAIN R2[q].waiters : R2[q].waiters[k] = R[q].waiters[k]
    PROVE  Books(R2, P, c)
<1> DEFINE A == P \cup Sequenced(c)
<1>1. /\ \A x, y \in A : x[1] = y[1] => x[2] = y[2]
      /\ \A x \in A : \E i \in Replicas : x[1] \in DOMAIN R[i].calls
      /\ \A i \in Replicas : WaitersKept(R[i], A) /\ CallsKept(R[i], A, c)
      /\ Recorded(R, c)
  BY DEF Books
<1> HIDE DEF A
<1>2. \A x \in A : \E i \in Replicas : x[1] \in DOMAIN R2[i].calls
  BY <1>1
<1>3. \A i \in Replicas : WaitersKept(R2[i], A) /\ CallsKept(R2[i], A, c)
  <2> TAKE i \in Replicas
  <2>1. WaitersKept(R[i], A) /\ CallsKept(R[i], A, c)
    BY <1>1
  <2>2. WaitersKept(R2[i], A)
    BY <2>1 DEF WaitersKept
  <2>3. CallsKept(R2[i], A, c)
    BY <2>1 DEF CallsKept
  <2> QED
    BY <2>2, <2>3
<1>4. Recorded(R2, c)
  BY <1>1 DEF Recorded
<1> QED
  BY <1>1, <1>2, <1>3, <1>4 DEF Books, A

\* What a call leaves of the waiters when it returns.
LEMMA ReturnsIs ==
    ASSUME NEW s \in ReplicaRecord, NEW slot \in Nat, NEW t, t = Returns(s, slot)
    PROVE  /\ t \in ReplicaRecord /\ SameRole(s, t)
           /\ t.log = s.log /\ t.base = s.base /\ t.decided = s.decided /\ t.applied = s.applied
           /\ t.db = s.db /\ t.journal = s.journal /\ t.calls = s.calls
           /\ DOMAIN t.waiters = {k \in DOMAIN s.waiters : ~(k = slot /\ slot < s.applied)}
           /\ \A k \in DOMAIN t.waiters : t.waiters[k] = s.waiters[k]
<1> DEFINE w == [k \in DOMAIN s.waiters \ {slot} |-> s.waiters[k]]
<1>1. s.applied \in Nat /\ s.waiters \in WaiterTable
  BY DEF ReplicaRecord
<1>2. CASE s.applied <= slot
  <2>1. t = s
    BY <1>2 DEF Returns
  <2>2. ~(slot < s.applied)
    BY <1>1, <1>2
  <2> QED
    BY <2>1, <2>2 DEF SameRole
<1>3. CASE ~(s.applied <= slot)
  <2>1. t = [s EXCEPT !.waiters = w]
    BY <1>3 DEF Returns
  <2>2. /\ DOMAIN w = DOMAIN s.waiters \ {slot} /\ w = [k \in DOMAIN w |-> w[k]]
        /\ \A k \in DOMAIN w : w[k] = s.waiters[k]
    OBVIOUS
  <2>3. DOMAIN s.waiters \subseteq Nat /\ \A k \in DOMAIN s.waiters : s.waiters[k] \in Requests
    BY <1>1, WaiterTableIs
  <2>4. DOMAIN w \subseteq Nat /\ \A k \in DOMAIN w : w[k] \in Requests
    BY <2>2, <2>3
  <2>5. w \in WaiterTable
    BY <2>2, <2>4, WaiterTableIs
  <2> HIDE DEF w
  <2>6. /\ t \in ReplicaRecord /\ t.waiters = w
        /\ t.leader = s.leader /\ t.probe = s.probe /\ t.ack = s.ack /\ t.election = s.election
        /\ t.prepares = s.prepares /\ t.next = s.next /\ t.acks = s.acks
        /\ t.log = s.log /\ t.base = s.base /\ t.decided = s.decided /\ t.applied = s.applied
        /\ t.db = s.db /\ t.journal = s.journal /\ t.calls = s.calls
    BY <2>1, <2>5 DEF ReplicaRecord
  <2>7. slot < s.applied
    BY <1>1, <1>3
  <2> QED
    BY <2>2, <2>6, <2>7 DEF SameRole
<1> QED
  BY <1>2, <1>3

\* A call's return keeps the state.
LEMMA ReturnsState ==
    ASSUME NEW R, NEW W, NEW c, State(R, W, c), NEW i \in Replicas, NEW slot \in Nat,
           NEW R2, Becomes(R, R2, i, Returns(R[i], slot))
    PROVE  State(R2, W, c)
<1> DEFINE s == R[i]
           t == Returns(s, slot)
           P == Places(R, W)
<1>1. Core(R, W, c) /\ Typed(R, W) /\ s \in ReplicaRecord /\ Books(R, P, c)
  BY StateFields DEF State
<1>2. R2 = [R EXCEPT ![i] = t]
  BY DEF Becomes
<1> HIDE DEF t, P
<1>3. R2[i] = t /\ \A q \in Replicas \ {i} : R2[q] = R[q]
  <2>1. Becomes(R, R2, i, t)
    BY <1>2 DEF Becomes
  <2> QED
    BY <2>1, BecomesOthers
<1>4. /\ t \in ReplicaRecord /\ SameRole(s, t)
      /\ t.log = s.log /\ t.base = s.base /\ t.decided = s.decided /\ t.applied = s.applied
      /\ t.db = s.db /\ t.journal = s.journal /\ t.calls = s.calls
      /\ DOMAIN t.waiters = {k \in DOMAIN s.waiters : ~(k = slot /\ slot < s.applied)}
      /\ \A k \in DOMAIN t.waiters : t.waiters[k] = s.waiters[k]
  BY <1>1, ReturnsIs DEF t
<1>5. t.ack = s.ack /\ t.prepares = s.prepares
  BY <1>4 DEF SameRole
<1>6. Held(t) = Held(s) /\ LogEnd(t) = LogEnd(s)
  BY <1>4, <1>5 DEF Held, LogEnd
<1>7. /\ ReplicaIndices(s, c) /\ Settled(R, W, c, s.base, s.ack) /\ Decided(R, W, c, s.decided, s.ack)
  BY <1>1 DEF Core, Indices, Witnesses
<1>8. ReplicaIndices(t, c)
  BY <1>4, <1>6, <1>7 DEF ReplicaIndices
<1>9. Suffix(Held(t), Held(s)) /\ t.applied >= s.applied
  BY <1>1, <1>4, <1>6, SuffixSelf, ReplicaFields
<1>10. Core(R2, W, c)
  BY <1>1, <1>2, <1>4, <1>7, <1>8, <1>9, SettlesCore
<1>11. Books(R2, P, c)
  <2>1. \A q \in Replicas : /\ R2[q].applied = R[q].applied /\ R2[q].journal = R[q].journal
                            /\ R2[q].calls = R[q].calls
                            /\ DOMAIN R2[q].waiters \subseteq DOMAIN R[q].waiters
                            /\ \A k \in DOMAIN R2[q].waiters : R2[q].waiters[k] = R[q].waiters[k]
    <3> TAKE q \in Replicas
    <3>1. CASE q = i
      BY <1>3, <1>4, <3>1
    <3>2. CASE q # i
      <4>1. R2[q] = R[q]
        BY <1>3, <3>2
      <4> QED
        BY <4>1
    <3> QED
      BY <3>1, <3>2
  <2> QED
    BY <1>1, <2>1, BooksForget
<1>12. Places(R2, W) \subseteq P
  <2>1. \A k \in Slots(Held(R2[i])) : <<At(Held(R2[i]), k), k>> \in P
    BY <1>3, <1>4, <1>9, SuffixState DEF P
  <2>2. \A k \in DOMAIN R2[i].prepares : R2[i].prepares[k] \in Reports(R, W)
    BY <1>3, <1>5, InReports
  <2> QED
    BY <1>1, <1>3, <2>1, <2>2, PlacesStep DEF P
<1>13. Books(R2, Places(R2, W), c)
  BY <1>11, <1>12, BooksSame
<1> QED
  BY <1>10, <1>13 DEF State

-----------------------------------------------------------------------------
(* What a leader has not yet decided on.                                    *)

\* Slots that a quorum acknowledged are counted.
LEMMA QuorumCounts ==
    ASSUME NEW s \in ReplicaRecord, NEW n \in Nat, \A q \in Replicas : s.acks[q] <= n,
           NEW Q \in Quorums, NEW k \in Nat, \A q \in Q : s.acks[q] >= k
    PROVE  QuorumAcked(s) >= k
<1> DEFINE S == AckedBy(s, Quorum)
           P(p) == {q \in Replicas : s.acks[q] >= s.acks[p]}
           A == {s.acks[q] : q \in Q}
<1>1. /\ \A q \in Replicas : s.acks[q] \in Nat
      /\ Q \subseteq Replicas
  BY ReplicaFields, QuorumMembers
<1>2. S = {s.acks[j] : j \in {p \in Replicas : Cardinality(P(p)) >= Quorum}}
  BY DEF AckedBy
<1>3. S \in SUBSET Nat /\ \A y \in S : y <= n
  BY <1>1, <1>2
<1>4. \E p \in Q : \A q \in Q : s.acks[p] <= s.acks[q]
  <2>1. \E q \in Replicas : q \in Q /\ q \in Q
    BY QuorumsMeet
  <2>2. A \in SUBSET Nat /\ A # {}
    BY <1>1, <2>1
  <2>3. PICK x \in A : \A y \in A : x <= y
    BY <2>2, LeastNatural
  <2> QED
    BY <2>3
<1>5. PICK p \in Q : \A q \in Q : s.acks[p] <= s.acks[q]
  BY <1>4
<1>6. p \in Replicas /\ Q \subseteq P(p)
  BY <1>1, <1>5
<1>7. Cardinality(P(p)) >= Quorum
  <2> DEFINE T == P(p)
  <2>1. IsFiniteSet(T)
    <3>1. T \subseteq Replicas /\ IsFiniteSet(Replicas)
      BY ReplicasFinite
    <3> HIDE DEF T
    <3> QED
      BY <3>1, FS_Subset
  <2>2. IsFiniteSet(Q) /\ Cardinality(Q) <= Cardinality(T)
    <3>1. Q \subseteq T
      BY <1>6
    <3> HIDE DEF T
    <3> QED
      BY <2>1, <3>1, FS_Subset
  <2>3. Cardinality(Q) >= Quorum
    BY DEF Quorums
  <2>4. Cardinality(Q) \in Nat /\ Cardinality(T) \in Nat /\ Quorum \in Nat
    <3> HIDE DEF T
    <3> QED
      BY <2>1, <2>2, ReplicasFinite, FS_CardinalityType
  <2> HIDE DEF P
  <2> QED
    BY <2>2, <2>3, <2>4
<1>8. s.acks[p] \in S
  BY <1>2, <1>6, <1>7
<1>9. \A y \in S : y <= Max(S)
  BY <1>3, <1>8, MaxIs
<1>10. s.acks[p] <= QuorumAcked(s) /\ QuorumAcked(s) \in Nat
  BY <1>8, <1>9, QuorumAckedIs DEF QuorumAcked
<1> HIDE DEF S, P, A
<1> QED
  BY <1>1, <1>5, <1>6, <1>10

\* A quorum of several replicas has another member than i.
LEMMA QuorumHasOther ==
    ASSUME N > 1, NEW Q \in Quorums, NEW i
    PROVE  \E q \in Q : q # i
<1> SUFFICES ASSUME Q \subseteq {i}
             PROVE  FALSE
  OBVIOUS
<1>1. IsFiniteSet({i}) /\ Cardinality({i}) = 1
  BY FS_Singleton
<1>2. Cardinality(Q) <= 1 /\ Cardinality(Q) \in Nat
  <2>1. IsFiniteSet(Q) /\ Cardinality(Q) <= Cardinality({i})
    BY <1>1, FS_Subset
  <2> QED
    BY <1>1, <2>1, FS_CardinalityType
<1>3. Quorum >= 2 /\ Quorum \in Nat
  BY PaxosAssumption DEF Quorum
<1>4. Cardinality(Q) >= Quorum
  BY DEF Quorums
<1> QED
  BY <1>2, <1>3, <1>4

\* A request that only its leader holds is not counted for.
LEMMA EnqueueTallied ==
    ASSUME NEW s \in ReplicaRecord, NEW t \in ReplicaRecord, NEW i \in Replicas, Tallied(s),
           \A q \in Replicas : s.acks[q] <= s.acks[i],
           \A q \in Replicas \ {i} : t.acks[q] = s.acks[q], t.acks[i] >= s.acks[i],
           t.decided = s.decided
    PROVE  Tallied(t)
<1>1. /\ \A q \in Replicas : s.acks[q] \in Nat /\ t.acks[q] \in Nat
      /\ s.decided \in Nat
  BY ReplicaFields
<1>2. \A q \in Replicas : t.acks[q] <= t.acks[i] /\ s.acks[q] <= s.acks[i]
  <2> TAKE q \in Replicas
  <2>1. q = i \/ t.acks[q] = s.acks[q]
    OBVIOUS
  <2>2. s.acks[q] <= s.acks[i]
    OBVIOUS
  <2> QED
    BY <1>1, <2>1, <2>2
<1> SUFFICES ASSUME N > 1
             PROVE  QuorumAcked(t) <= t.decided
  BY <1>1, <1>2 DEF Tallied
<1>3. QuorumAcked(s) <= s.decided /\ QuorumAcked(s) \in Nat
  BY <1>1, <1>2, QuorumAckedIs DEF Tallied
<1>4. QuorumAcked(t) \in Nat /\ \E Q \in Quorums : \A q \in Q : t.acks[q] >= QuorumAcked(t)
  BY <1>1, <1>2, QuorumAckedIs
<1> DEFINE k == QuorumAcked(t)
<1>5. PICK Q \in Quorums : \A q \in Q : t.acks[q] >= k
  BY <1>4
<1>6. PICK p \in Q : p # i
  BY QuorumHasOther
<1>7. Q \subseteq Replicas
  BY QuorumMembers
<1>8. k \in Nat
  BY <1>4
<1> HIDE DEF k
<1>9. s.acks[i] >= k
  <2>1. p \in Replicas /\ s.acks[p] >= k /\ s.acks[p] <= s.acks[i]
    BY <1>2, <1>5, <1>6, <1>7
  <2> QED
    BY <1>1, <1>8, <2>1
<1>10. \A q \in Q : s.acks[q] >= k
  <2> TAKE q \in Q
  <2>1. q = i \/ (q \in Replicas \ {i} /\ t.acks[q] >= k)
    BY <1>5, <1>7
  <2> QED
    BY <1>9, <2>1
<1>11. QuorumAcked(s) >= k
  BY <1>1, <1>2, <1>8, <1>10, QuorumCounts
<1> QED
  BY <1>1, <1>3, <1>8, <1>11 DEF k

\* A new leader counts for the others what it has itself decided.
LEMMA AdoptTallied ==
    ASSUME NEW t \in ReplicaRecord, NEW i \in Replicas, NEW e \in Nat, e <= t.decided,
           \A q \in Replicas \ {i} : t.acks[q] = e, t.acks[i] >= e
    PROVE  Tallied(t)
<1>1. /\ \A q \in Replicas : t.acks[q] \in Nat
      /\ t.decided \in Nat
  BY ReplicaFields
<1>2. \A q \in Replicas : t.acks[q] <= t.acks[i]
  <2> TAKE q \in Replicas
  <2>1. q = i \/ t.acks[q] = e
    OBVIOUS
  <2> QED
    BY <1>1, <2>1
<1> SUFFICES ASSUME N > 1
             PROVE  QuorumAcked(t) <= t.decided
  BY <1>1, <1>2 DEF Tallied
<1>3. QuorumAcked(t) \in Nat /\ \E Q \in Quorums : \A q \in Q : t.acks[q] >= QuorumAcked(t)
  BY <1>1, <1>2, QuorumAckedIs
<1>4. PICK Q \in Quorums : \A q \in Q : t.acks[q] >= QuorumAcked(t)
  BY <1>3
<1>5. PICK p \in Q : p # i
  BY QuorumHasOther
<1>6. p \in Replicas \ {i} /\ t.acks[p] >= QuorumAcked(t)
  BY <1>4, <1>5, QuorumMembers
<1>7. QuorumAcked(t) <= e
  BY <1>3, <1>6
<1> QED
  BY <1>1, <1>3, <1>7

-----------------------------------------------------------------------------
(* The actions keep the invariant of the replicas.                          *)

\* What the invariant says of the replica that takes the step.
LEMMA WholeFacts ==
    ASSUME NEW c, Whole(rep, net, c), NEW i \in Replicas
    PROVE  /\ State(rep, Flight(net), c) /\ NetType(net) /\ Fresh(rep, net) /\ Tallied(rep[i])
           /\ rep \in [Replicas -> ReplicaRecord] /\ rep[i] \in ReplicaRecord
           /\ ReplicaRounds(rep, i)
           /\ Leads(rep, i) => LeaderIndices(rep[i], i)
           /\ rep[i].applied \in Nat /\ rep[i].decided \in Nat
           /\ rep[i].base <= rep[i].applied /\ rep[i].applied <= LogEnd(rep[i])
BY StateFields, ReplicaFields DEF Whole, State, Core, Typed, Rounds, Indices

\* A leader's turn keeps the invariant.
LEMMA TurnProgress ==
    ASSUME NEW c, Whole(rep, net, c), NEW i \in Replicas, Leads(rep, i), rep' = rep,
           NEW to \in SUBSET Peers(i), NEW kind, kind # "probe",
           net' \in SendNext(net, i, rep[i], to, kind)
    PROVE  Progress(c)
<1>1. /\ State(rep, Flight(net), c) /\ NetType(net) /\ Fresh(rep, net) /\ Tallied(rep[i])
      /\ rep[i].applied \in Nat
  BY WholeFacts
<1>2. NetType(net') /\ State(rep, Flight(net'), c) /\ Fresh(rep, net')
  BY <1>1, ProposesNext
<1>3. Midway(rep', i, c) /\ Tallied(rep'[i])
  BY <1>1, <1>2 DEF Midway
<1> QED
  BY <1>3, QuietEnds

\* A candidate's turn keeps the invariant.
LEMMA ProbeProgress ==
    ASSUME NEW c, Whole(rep, net, c), NEW i \in Replicas, rep' = rep,
           rep[i].prepares = <<>>, Owner(rep[i].election) = i,
           NEW to \in SUBSET Peers(i), \A p \in to : Unasked(net, i, p, rep[i].election),
           net' \in SendNext(net, i, rep[i], to, "probe")
    PROVE  Progress(c)
<1>1. /\ State(rep, Flight(net), c) /\ NetType(net) /\ Fresh(rep, net) /\ Tallied(rep[i])
      /\ rep[i].applied \in Nat
  BY WholeFacts
<1>2. NetType(net') /\ State(rep, Flight(net'), c) /\ Fresh(rep, net')
  BY <1>1, ProbesNext
<1>3. Midway(rep', i, c) /\ Tallied(rep'[i])
  BY <1>1, <1>2 DEF Midway
<1> QED
  BY <1>3, QuietEnds

\* t is s with the request v in the leader i's next slot.
Enqueued(i, s, v, t) ==
    /\ t.leader = s.leader /\ t.probe = s.probe /\ t.ack = s.ack /\ t.decided = s.decided
    /\ t.applied = s.applied
    /\ t.acks[i] = s.next + 1 /\ \A q \in Replicas \ {i} : t.acks[q] = s.acks[q]
    /\ t.waiters = [k \in DOMAIN s.waiters \cup {s.next} |-> IF k = s.next THEN v ELSE s.waiters[k]]
    /\ t.calls = [w \in DOMAIN s.calls \cup {v} |-> IF w = v THEN NoReply ELSE s.calls[w]]

\* The fields that a new request leaves alone, and its slot.
LEMMA EnqueueIs ==
    ASSUME NEW i \in Replicas, NEW s \in ReplicaRecord, NEW v
    PROVE  Enqueued(i, s, v, Enqueue(i, s, v))
<1> DEFINE a == [s.acks EXCEPT ![i] = s.next + 1]
           w == [k \in DOMAIN s.waiters \cup {s.next} |-> IF k = s.next THEN v ELSE s.waiters[k]]
           d == [x \in DOMAIN s.calls \cup {v} |-> IF x = v THEN NoReply ELSE s.calls[x]]
           l == Append(s.log, v)
           n == s.next + 1
           t == Enqueue(i, s, v)
<1>1. t = [s EXCEPT !.log = l, !.next = n, !.acks = a, !.waiters = w, !.calls = d]
  BY DEF Enqueue
<1>2. a[i] = s.next + 1 /\ \A q \in Replicas \ {i} : a[q] = s.acks[q]
  <2>1. s.acks \in [Replicas -> Nat]
    BY ReplicaFields
  <2> QED
    BY <2>1
<1>3. w = [k \in DOMAIN s.waiters \cup {s.next} |-> IF k = s.next THEN v ELSE s.waiters[k]]
  OBVIOUS
<1>4. d = [x \in DOMAIN s.calls \cup {v} |-> IF x = v THEN NoReply ELSE s.calls[x]]
  OBVIOUS
<1> HIDE DEF a, w, d, l, n, t
<1>5. /\ t.leader = s.leader /\ t.probe = s.probe /\ t.ack = s.ack /\ t.decided = s.decided
      /\ t.applied = s.applied
      /\ t.acks = a /\ t.waiters = w /\ t.calls = d
  BY <1>1 DEF ReplicaRecord
<1>6. Enqueued(i, s, v, t)
  BY <1>2, <1>3, <1>4, <1>5 DEF Enqueued
<1> QED
  BY <1>6 DEF t

\* A call's first turn keeps the invariant.
LEMMA CallProgress ==
    ASSUME NEW c, Whole(rep, net, c), NEW i \in Replicas, NEW v \in Requests, Call(i, v)
    PROVE  Progress(c)
<1> DEFINE s == Enqueue(i, rep[i], v)
<1>1. /\ State(rep, Flight(net), c) /\ NetType(net) /\ Fresh(rep, net) /\ Tallied(rep[i])
      /\ rep[i] \in ReplicaRecord /\ rep[i].applied \in Nat
      /\ Leads(rep, i) => LeaderIndices(rep[i], i)
  BY WholeFacts
<1>2. Leads(rep, i) /\ \A q \in Replicas : v \notin DOMAIN rep[q].calls
  BY DEF Call, Submitted, Leads
<1>3. Becomes(rep, rep', i, s) /\ net' \in SendNext(net, i, s, Peers(i), "propose")
  BY DEF Call, Becomes
<1>4. /\ s.decided = rep[i].decided
      /\ s.acks[i] = rep[i].next + 1 /\ \A q \in Replicas \ {i} : s.acks[q] = rep[i].acks[q]
  <2>1. Enqueued(i, rep[i], v, s)
    BY <1>1, EnqueueIs
  <2> HIDE DEF s
  <2> QED
    BY <2>1 DEF Enqueued
<1>5. /\ State(rep', Flight(net), c) /\ Leads(rep', i)
      /\ rep'[i].applied = rep[i].applied /\ rep'[i].prepares = rep[i].prepares
  BY <1>1, <1>2, <1>3, EnqueueState
<1> HIDE DEF s
<1>6. rep'[i] = s /\ \A q \in Replicas \ {i} : rep'[q] = rep[q]
  BY <1>1, <1>3, BecomesOthers
<1>7. Fresh(rep', net)
  <2>1. \A q \in Replicas : rep'[q].prepares = rep[q].prepares
    <3> TAKE q \in Replicas
    <3>1. q # i => rep'[q] = rep[q]
      BY <1>6
    <3> QED
      BY <1>5, <3>1
  <2> QED
    BY <1>1, <2>1, FreshSame
<1>8. NetType(net') /\ State(rep', Flight(net'), c) /\ Fresh(rep', net')
  <2>1. Peers(i) \in SUBSET Peers(i) /\ net' \in SendNext(net, i, rep'[i], Peers(i), "propose")
    BY <1>3, <1>6
  <2> QED
    BY <1>1, <1>5, <1>7, <2>1, ProposesNext
<1>9. Tallied(rep'[i])
  <2>1. s \in ReplicaRecord
    BY <1>5, <1>6, StateFields DEF State
  <2>2. /\ rep[i].next = LogEnd(rep[i]) /\ rep[i].acks[i] = LogEnd(rep[i])
        /\ \A q \in Replicas : rep[i].acks[q] <= LogEnd(rep[i])
    BY <1>1, <1>2 DEF LeaderIndices
  <2>3. LogEnd(rep[i]) \in Nat
    BY <1>1, ReplicaFields
  <2>4. s.acks[i] >= rep[i].acks[i] /\ \A q \in Replicas : rep[i].acks[q] <= rep[i].acks[i]
    BY <1>4, <2>2, <2>3
  <2> QED
    BY <1>1, <1>4, <1>6, <2>1, <2>4, EnqueueTallied
<1>10. Midway(rep', i, c)
  BY <1>1, <1>5, <1>6, <1>8 DEF Midway
<1> QED
  BY <1>9, <1>10, QuietEnds

\* A call's end keeps the invariant.
LEMMA FinishCallProgress ==
    ASSUME NEW c, Whole(rep, net, c), NEW i \in Replicas, NEW slot \in Nat,
           Becomes(rep, rep', i, Returns(ApplyDecided(i, rep[i]), slot)), net' = net
    PROVE  Progress(c)
<1> DEFINE s == ApplyDecided(i, rep[i])
           t == Returns(s, slot)
           R1 == [rep EXCEPT ![i] = s]
<1>1. /\ State(rep, Flight(net), c) /\ NetType(net) /\ Fresh(rep, net) /\ Tallied(rep[i])
      /\ rep[i].applied \in Nat /\ c \in Seq(Requests)
  BY WholeFacts DEF State, Core
<1>2. Becomes(rep, R1, i, s) /\ R1[i] = s /\ Becomes(R1, rep', i, t)
  <2>1. Becomes(rep, R1, i, s) /\ Becomes(rep, rep', i, t)
    BY DEF Becomes
  <2> HIDE DEF R1, s, t
  <2> QED
    BY <1>1, <2>1, BecomesTwice
<1> HIDE DEF R1
<1>3. /\ \E d \in Seq(Requests) : Extends(d, c) /\ State(R1, Flight(net), d)
      /\ Tallied(R1[i]) /\ SameRole(rep[i], R1[i])
      /\ R1[i].applied >= rep[i].applied
  <2>1. CASE Leads(rep, i)
    BY <1>1, <1>2, <2>1, LeaderState
  <2>2. CASE ~Leads(rep, i)
    <3>1. State(R1, Flight(net), c) /\ Tallied(R1[i]) /\ SameRole(rep[i], R1[i])
          /\ R1[i].applied >= rep[i].applied
      BY <1>1, <1>2, <2>2, FollowerState
    <3> QED
      BY <1>1, <3>1, ExtendsSelf
  <2> QED
    BY <2>1, <2>2
<1>4. PICK d \in Seq(Requests) : Extends(d, c) /\ State(R1, Flight(net), d)
  BY <1>3
<1>5. R1[i] \in ReplicaRecord
  BY <1>4, StateFields DEF State
<1>6. State(rep', Flight(net), d)
  BY <1>2, <1>4, ReturnsState
<1> HIDE DEF s
<1>7. /\ t \in ReplicaRecord /\ SameRole(R1[i], t)
      /\ t.decided = R1[i].decided /\ t.applied = R1[i].applied
  BY <1>2, <1>5, ReturnsIs
<1> HIDE DEF t
<1>8. /\ rep'[i] = t /\ \A q \in Replicas \ {i} : rep'[q] = R1[q]
      /\ \A q \in Replicas \ {i} : R1[q] = rep[q]
  <2>1. rep'[i] = t /\ \A q \in Replicas \ {i} : rep'[q] = R1[q]
    BY <1>2, <1>4, BecomesOthers
  <2>2. \A q \in Replicas \ {i} : R1[q] = rep[q]
    BY <1>1, <1>2, BecomesOthers
  <2> QED
    BY <2>1, <2>2
<1>9. Fresh(rep', net)
  <2>1. \A q \in Replicas : rep'[q].prepares = rep[q].prepares
    <3> TAKE q \in Replicas
    <3>1. q # i => rep'[q] = rep[q]
      BY <1>8
    <3>2. rep'[i].prepares = rep[i].prepares
      BY <1>3, <1>7, <1>8 DEF SameRole
    <3> QED
      BY <3>1, <3>2
  <2> QED
    BY <1>1, <2>1, FreshSame
<1>10. Tallied(rep'[i])
  <2>1. t.acks = R1[i].acks /\ t.decided >= R1[i].decided
    BY <1>5, <1>7, ReplicaFields DEF SameRole
  <2> QED
    BY <1>3, <1>5, <1>7, <1>8, <2>1, TalliedSame
<1>11. rep'[i].applied >= rep[i].applied /\ \A q \in Replicas \ {i} : rep'[q] = rep[q]
  BY <1>3, <1>7, <1>8
<1> QED
  BY <1>1, <1>4, <1>6, <1>9, <1>10, <1>11, Ends

\* What was sent of an earlier round does not ask for a new one.
LEMMA NewRoundUnasked ==
    ASSUME NEW c, Whole(rep, net, c), NEW i \in Replicas, NEW r \in Nat, r > rep[i].probe,
           NEW p \in Replicas
    PROVE  Unasked(net, i, p, r)
<1>1. /\ NetType(net) /\ Core(rep, Flight(net), c) /\ rep[i].probe \in Nat
  BY WholeFacts, ReplicaFields DEF State
<1>2. \A m \in Flight(net)[i][p] : m.type = "PROBE" => m.round # r
  <2> SUFFICES ASSUME NEW m \in Flight(net)[i][p], m.type = "PROBE"
               PROVE  m.round # r
    OBVIOUS
  <2>1. MessageRounds(rep, i, p, m)
    BY <1>1 DEF Core, Rounds
  <2>2. m.round \in Nat
    BY <1>1, FlightIs, MessageFields
  <2> QED
    BY <1>1, <2>1, <2>2 DEF MessageRounds
<1>3. \A m \in Flight(net)[p][i] : m.type = "PREPARE" => m.round # r
  <2> SUFFICES ASSUME NEW m \in Flight(net)[p][i], m.type = "PREPARE"
               PROVE  m.round # r
    OBVIOUS
  <2>1. MessageRounds(rep, p, i, m)
    BY <1>1 DEF Core, Rounds
  <2>2. m.round \in Nat
    BY <1>1, FlightIs, MessageFields
  <2> QED
    BY <1>1, <2>1, <2>2 DEF MessageRounds
<1> QED
  BY <1>1, <1>2, <1>3, UnaskedIs

\* s is u as a candidate in the round r that has yet to probe.
Candidacy(u, r, s) ==
    /\ s = [u EXCEPT !.election = r, !.probe = r, !.prepares = <<>>]
    /\ s \in ReplicaRecord /\ s.election = r /\ s.probe = r /\ s.prepares = <<>>
    /\ s.leader = u.leader /\ s.ack = u.ack /\ s.acks = u.acks /\ s.decided = u.decided
    /\ s.applied = u.applied /\ s.log = u.log /\ s.base = u.base
    /\ s.waiters = u.waiters /\ s.calls = u.calls

\* The record of a candidate.
LEMMA CandidateFields ==
    ASSUME NEW i \in Replicas, NEW u \in ReplicaRecord, ElectionRound(i) \in Nat
    PROVE  Candidacy(u, ElectionRound(i), Candidate(i, u))
<1> DEFINE r == ElectionRound(i)
           s == Candidate(i, u)
<1>1. s = [u EXCEPT !.election = r, !.probe = r, !.prepares = <<>>]
  BY DEF Candidate
<1>2. r \in Nat /\ <<>> \in Seq(PrepareMessage)
  OBVIOUS
<1> HIDE DEF r, s
<1>3. /\ s.election = r /\ s.probe = r /\ s.prepares = <<>>
      /\ s.leader = u.leader /\ s.ack = u.ack /\ s.acks = u.acks /\ s.decided = u.decided
      /\ s.applied = u.applied /\ s.log = u.log /\ s.base = u.base
      /\ s.waiters = u.waiters /\ s.calls = u.calls
  BY <1>1 DEF ReplicaRecord
<1>4. s \in ReplicaRecord
  BY <1>1, <1>2 DEF ReplicaRecord
<1>5. Candidacy(u, r, s)
  BY <1>1, <1>3, <1>4 DEF Candidacy
<1> QED
  BY <1>5 DEF r, s

\* The start of an election keeps the invariant.
LEMMA BeginElectionProgress ==
    ASSUME NEW c, Whole(rep, net, c), NEW i \in Replicas, ~Leads(rep, i),
           Becomes(rep, rep', i, Candidate(i, rep[i])),
           net' \in SendNext(net, i, Candidate(i, rep[i]), Peers(i), "probe")
    PROVE  Progress(c)
<1> DEFINE r == ElectionRound(i)
           s == Candidate(i, rep[i])
           own == <<Prepare(i, rep[i], r)>>
           t == [rep[i] EXCEPT !.election = r, !.probe = r, !.prepares = own]
           R1 == [rep EXCEPT ![i] = t]
<1>1. /\ State(rep, Flight(net), c) /\ NetType(net) /\ Fresh(rep, net) /\ Tallied(rep[i])
      /\ rep[i] \in ReplicaRecord /\ rep[i].probe \in Nat /\ rep[i].applied \in Nat
  BY WholeFacts, ReplicaFields
<1>2. r \in Nat /\ r > rep[i].probe /\ Owner(r) = i
  BY <1>1, ElectionRoundIsOwn DEF ElectionRound
<1>3. /\ s = [t EXCEPT !.prepares = <<>>] /\ t.election = r /\ t.probe = r /\ t.leader = rep[i].leader
      /\ s \in ReplicaRecord /\ s.election = r /\ s.probe = r /\ s.prepares = <<>>
      /\ s.acks = rep[i].acks /\ s.decided = rep[i].decided /\ s.applied = rep[i].applied
  <2>1. Candidacy(rep[i], r, s)
    BY <1>1, <1>2, CandidateFields
  <2> HIDE DEF r, s, own
  <2>2. s = [t EXCEPT !.prepares = <<>>] /\ t.election = r /\ t.probe = r /\ t.leader = rep[i].leader
    BY <1>1, <2>1 DEF Candidacy, ReplicaRecord
  <2> HIDE DEF t
  <2> QED
    BY <2>1, <2>2 DEF Candidacy
<1>4. Becomes(rep, R1, i, t)
  BY DEF Becomes
<1>5. State(R1, Flight(net), c)
  <2> HIDE DEF R1, r
  <2> QED
    BY <1>1, <1>2, <1>4, CandidateState
<1> HIDE DEF R1, r, own, t
<1>6. R1[i] = t /\ Becomes(R1, rep', i, s)
  BY <1>1, <1>4, BecomesTwice
<1> HIDE DEF s
<1>7. State(rep', Flight(net), c)
  <2>1. ~Leads(R1, i)
    BY <1>3, <1>6 DEF Leads
  <2>2. Becomes(R1, rep', i, [R1[i] EXCEPT !.prepares = <<>>])
    BY <1>3, <1>6
  <2>3. R1[i].election = R1[i].probe /\ Owner(R1[i].election) = i
    BY <1>2, <1>3, <1>6
  <2> QED
    BY <1>5, <2>1, <2>2, <2>3, PreparesState
<1>8. rep'[i] = s /\ \A q \in Replicas \ {i} : rep'[q] = rep[q]
  <2>1. Becomes(rep, rep', i, s)
    BY DEF s
  <2> QED
    BY <1>1, <2>1, BecomesOthers
<1>9. Fresh(rep', net)
  <2>1. \A q \in Replicas : rep'[q].prepares = rep[q].prepares \/ rep'[q].prepares = <<>>
    <3> TAKE q \in Replicas
    <3>1. q # i => rep'[q] = rep[q]
      BY <1>8
    <3>2. rep'[i].prepares = <<>>
      BY <1>3, <1>8
    <3> QED
      BY <3>1, <3>2
  <2> QED
    BY <1>1, <2>1, FreshSame
<1>10. NetType(net') /\ State(rep', Flight(net'), c) /\ Fresh(rep', net')
  <2>1. \A p \in Peers(i) : Unasked(net, i, p, r)
    BY <1>2, NewRoundUnasked DEF Peers
  <2>2. rep'[i].prepares = <<>> /\ rep'[i].election = r /\ Owner(r) = i
    BY <1>2, <1>3, <1>8
  <2>3. Peers(i) \in SUBSET Peers(i) /\ net' \in SendNext(net, i, rep'[i], Peers(i), "probe")
    BY <1>8 DEF s
  <2> QED
    BY <1>1, <1>7, <1>9, <2>1, <2>2, <2>3, ProbesNext
<1>11. Tallied(rep'[i])
  <2>1. s.decided >= rep[i].decided
    BY <1>1, <1>3, ReplicaFields
  <2> QED
    BY <1>1, <1>3, <1>8, <2>1, TalliedSame
<1>12. Midway(rep', i, c)
  BY <1>1, <1>3, <1>8, <1>10 DEF Midway
<1> QED
  BY <1>11, <1>12, QuietEnds

\* t is s after become_leader has adopted a log, whose slots below the slot e
\* it takes for decided.
Adopted(i, s, t, e) ==
    /\ e \in Nat /\ t.leader = i /\ t.probe = s.probe /\ t.ack = s.election
    /\ t.waiters = s.waiters /\ t.calls = s.calls
    /\ t.decided = MaxOf(s.decided, e)
    /\ t.acks[i] >= e /\ \A q \in Replicas \ {i} : t.acks[q] = e

\* The fields of a new leader.
LEMMA AdoptBestIs ==
    ASSUME NEW i \in Replicas, NEW s \in ReplicaRecord, s.prepares # <<>>
    PROVE  \E e \in Nat : Adopted(i, s, AdoptBest(i, s), e)
<1> DEFINE b == BestPrepare(s.prepares)
           upto == MaxOf(s.applied, MinOf(b.slot, LogEnd(s)))
           end == b.slot + Len(b.values)
           db == s.db \o Unapplied(s, upto)
           decided == MaxOf(s.decided, b.slot)
           applied == MaxOf(upto, b.slot)
           acks == [j \in Replicas |-> IF j = i THEN end ELSE b.slot]
           t == AdoptBest(i, s)
<1>1. t = [s EXCEPT !.db = db, !.decided = decided, !.applied = applied, !.log = b.values,
                    !.base = b.slot, !.next = end, !.leader = i, !.ack = s.election,
                    !.acks = acks, !.prepares = <<>>]
  BY DEF AdoptBest
<1>2. b \in PrepareMessage
  <2>1. s.prepares \in Seq(PrepareMessage)
    BY ReplicaFields
  <2>2. PICK k \in DOMAIN s.prepares : b = s.prepares[k]
    BY <2>1, BestPrepareIs
  <2> HIDE DEF b
  <2> QED
    BY <2>1, <2>2
<1> HIDE DEF b
<1>3. b.slot \in Nat /\ Len(b.values) \in Nat
  <2>1. b.slot \in Nat /\ b.values \in Seq(Requests)
    BY <1>2 DEF PrepareMessage
  <2> QED
    BY <2>1, LenProperties
<1>4. acks[i] >= b.slot /\ \A q \in Replicas \ {i} : acks[q] = b.slot
  BY <1>3
<1>5. decided = MaxOf(s.decided, b.slot)
  OBVIOUS
<1> HIDE DEF upto, end, db, decided, applied, acks, t
<1>6. /\ t.leader = i /\ t.probe = s.probe /\ t.ack = s.election
      /\ t.waiters = s.waiters /\ t.calls = s.calls /\ t.decided = decided /\ t.acks = acks
  BY <1>1 DEF ReplicaRecord
<1>7. Adopted(i, s, t, b.slot)
  BY <1>3, <1>4, <1>5, <1>6 DEF Adopted
<1> QED
  BY <1>3, <1>7 DEF t

\* A majority's last PREPARE, and the new leader's first turn, keep the
\* invariant.
LEMMA BecomeLeaderProgress ==
    ASSUME NEW c, Whole(rep, net, c), NEW i \in Replicas, NEW j \in Incoming(i),
           Gets(i, j, "PREPARE"), Counts(StepDown(rep[i], j, Msg(i, j)), Msg(i, j)),
           Len(rep[i].prepares) + 1 = Quorum,
           NEW u, u = [rep[i] EXCEPT !.prepares = Append(@, Msg(i, j))],
           Becomes(rep, rep', i, AdoptBest(i, u)),
           net' \in SendNext(Taken(i, j), i, AdoptBest(i, u), Peers(i), "propose")
    PROVE  Progress(c)
<1> DEFINE R1 == [rep EXCEPT ![i] = u]
           t == AdoptBest(i, u)
           n1 == Taken(i, j)
<1>1. /\ State(rep, Flight(net), c) /\ NetType(net) /\ Fresh(rep, net) /\ rep[i] \in ReplicaRecord
      /\ rep[i].applied \in Nat
  BY WholeFacts
<1>2. Msg(i, j).round = rep[i].election /\ Msg(i, j).round = rep[i].probe
  BY CountedIs
<1>3. Becomes(rep, R1, i, u) /\ R1[i] = u /\ Becomes(R1, rep', i, t)
  <2>1. Becomes(rep, R1, i, u)
    BY DEF Becomes
  <2> HIDE DEF R1, t
  <2>2. Becomes(rep, rep', i, t)
    BY DEF t
  <2> QED
    BY <1>1, <2>1, <2>2, BecomesTwice
<1> HIDE DEF R1, n1
<1>4. /\ State(R1, Flight(net), c) /\ R1[i].applied = rep[i].applied
      /\ R1[i].election = rep[i].election /\ R1[i].probe = rep[i].probe
      /\ Len(R1[i].prepares) = Quorum
  <2>1. /\ State(R1, Flight(net), c) /\ R1[i].applied = rep[i].applied
        /\ R1[i].election = rep[i].election /\ R1[i].probe = rep[i].probe
        /\ Len(R1[i].prepares) = Len(rep[i].prepares) + 1
    BY <1>3, CountedState
  <2> QED
    BY <2>1
<1>5. /\ State(rep', Flight(net), c) /\ Leads(rep', i) /\ rep'[i].prepares = <<>>
      /\ rep'[i].applied >= R1[i].applied
  <2>1. R1[i].election = R1[i].probe
    BY <1>2, <1>4
  <2>2. Becomes(R1, rep', i, AdoptBest(i, R1[i]))
    BY <1>3
  <2> QED
    BY <1>4, <2>1, <2>2, AdoptState
<1>6. u \in ReplicaRecord /\ u.prepares # <<>>
  <2>1. u \in ReplicaRecord
    BY <1>3, <1>4, StateFields DEF State
  <2>2. Len(u.prepares) = Quorum /\ Quorum # 0
    BY <1>3, <1>4, ReplicasFinite
  <2> QED
    BY <2>1, <2>2, EmptySeq
<1>7. PICK e \in Nat : Adopted(i, u, t, e)
  BY <1>6, AdoptBestIs
<1> HIDE DEF t
<1>8. rep'[i] = t /\ \A q \in Replicas \ {i} : rep'[q] = rep[q]
  <2>1. \A q \in Replicas \ {i} : R1[q] = rep[q]
    BY <1>1, <1>3, BecomesOthers
  <2>2. rep'[i] = t /\ \A q \in Replicas \ {i} : rep'[q] = R1[q]
    BY <1>3, <1>4, BecomesOthers
  <2> QED
    BY <2>1, <2>2
<1>9. NetType(n1) /\ State(rep', Flight(n1), c) /\ Fresh(rep', n1)
  <2>1. \A q \in Replicas : rep'[q].prepares = rep[q].prepares \/ rep'[q].prepares = <<>>
    <3> TAKE q \in Replicas
    <3>1. q # i => rep'[q] = rep[q]
      BY <1>8
    <3> QED
      BY <1>5, <3>1
  <2>2. NetType(n1)
    BY <1>1, TakenFlight DEF n1
  <2>3. State(rep', Flight(n1), c)
    BY <1>1, <1>5, TakenState DEF n1
  <2>4. Fresh(rep', n1)
    BY <1>1, <2>1, TakenFresh DEF n1
  <2> QED
    BY <2>2, <2>3, <2>4
<1>10. NetType(net') /\ State(rep', Flight(net'), c) /\ Fresh(rep', net')
  <2>1. Peers(i) \in SUBSET Peers(i) /\ net' \in SendNext(n1, i, rep'[i], Peers(i), "propose")
    BY <1>8 DEF n1, t
  <2> QED
    BY <1>5, <1>9, <2>1, ProposesNext
<1>11. Tallied(rep'[i])
  <2>1. t \in ReplicaRecord
    BY <1>5, <1>8, StateFields DEF State
  <2>2. u.decided \in Nat /\ t.decided = MaxOf(u.decided, e)
    BY <1>6, <1>7, ReplicaFields DEF Adopted
  <2>3. e <= t.decided
    BY <2>2 DEF MaxOf
  <2>4. t.acks[i] >= e /\ \A q \in Replicas \ {i} : t.acks[q] = e
    BY <1>7 DEF Adopted
  <2> QED
    BY <1>8, <2>1, <2>3, <2>4, AdoptTallied
<1>12. rep'[i].applied >= rep[i].applied
  BY <1>4, <1>5
<1>13. Midway(rep', i, c)
  BY <1>8, <1>10, <1>12 DEF Midway
<1> QED
  BY <1>11, <1>13, QuietEnds

\* The end of a leader's broadcast keeps the invariant.
LEMMA FinishProposesProgress ==
    ASSUME NEW c, Whole(rep, net, c), NEW i \in Replicas, Leads(rep, i), net' = net,
           Becomes(rep, rep', i, ApplyDecided(i, rep[i]))
    PROVE  Progress(c)
<1>1. /\ State(rep, Flight(net), c) /\ NetType(net) /\ Fresh(rep, net) /\ rep[i].applied \in Nat
  BY WholeFacts
<1>2. Midway(rep, i, c)
  BY <1>1 DEF Midway
<1> QED
  BY <1>2, LeaderEnds

\* A candidate counts its own PREPARE once it has probed every peer: this keeps
\* the invariant.
LEMMA FinishProbesProgress ==
    ASSUME NEW c, Whole(rep, net, c), NEW i \in Replicas, ~Leads(rep, i),
           rep[i].prepares = <<>>, rep[i].election = rep[i].probe, Owner(rep[i].election) = i,
           Unasked(net, i, i, rep[i].election), net' = net,
           NEW own, own = <<Prepare(i, rep[i], rep[i].election)>>,
           Becomes(rep, rep', i, [rep[i] EXCEPT !.prepares = own])
    PROVE  Progress(c)
<1> DEFINE s == rep[i]
           t == [s EXCEPT !.prepares = own]
           r == s.election
<1>1. /\ State(rep, Flight(net), c) /\ NetType(net) /\ Fresh(rep, net) /\ Tallied(s)
      /\ s \in ReplicaRecord /\ s.applied \in Nat
  BY WholeFacts
<1>2. State(rep', Flight(net), c)
  BY <1>1, PreparesState
<1>3. t.prepares = own /\ t.acks = s.acks /\ t.decided = s.decided /\ t.applied = s.applied
  BY <1>1 DEF ReplicaRecord
<1>4. rep'[i] = t /\ \A q \in Replicas \ {i} : rep'[q] = rep[q]
  <2>1. Becomes(rep, rep', i, t)
    OBVIOUS
  <2> HIDE DEF t
  <2> QED
    BY <1>1, <2>1, BecomesOthers
<1> HIDE DEF t
<1>5. \A k \in DOMAIN own : own[k].sender = i /\ own[k].round = r
  <2> DEFINE m == Prepare(i, s, r)
  <2>1. m.sender = i /\ m.round = r
    BY DEF Prepare
  <2> HIDE DEF m
  <2>2. own = <<m>>
    BY DEF m
  <2> QED
    BY <2>1, <2>2
<1>6. \A p, q \in Replicas : \A x : Collected(rep', p, q, x) =>
         \/ p = i /\ q = i /\ x = r
         \/ p # i /\ Collected(rep, p, q, x)
  <2> SUFFICES ASSUME NEW p \in Replicas, NEW q \in Replicas, NEW x, Collected(rep', p, q, x)
               PROVE  \/ p = i /\ q = i /\ x = r
                      \/ p # i /\ Collected(rep, p, q, x)
    OBVIOUS
  <2>1. PICK k \in DOMAIN rep'[p].prepares : rep'[p].prepares[k].sender = q /\ rep'[p].prepares[k].round = x
    BY DEF Collected
  <2>2. CASE p = i
    BY <1>3, <1>4, <1>5, <2>1, <2>2
  <2>3. CASE p # i
    <3>1. rep'[p] = rep[p]
      BY <1>4, <2>3
    <3> QED
      BY <2>1, <2>3, <3>1 DEF Collected
  <2> QED
    BY <2>2, <2>3
<1>7. /\ \A m \in Flight(net)[i][i] : m.type = "PROBE" => m.round # r
      /\ \A m \in Flight(net)[i][i] : m.type = "PREPARE" => m.round # r
  BY <1>1, UnaskedIs
<1> HIDE DEF r
<1>8. ASSUME NEW p \in Replicas, NEW q \in Replicas, NEW a \in Flight(net)[p][q], a.type = "PROBE"
      PROVE  /\ ~Collected(rep', p, q, a.round)
             /\ \A b \in Flight(net)[q][p] : b.type = "PREPARE" => b.round # a.round
  BY <1>1, <1>6, <1>7, <1>8 DEF Fresh
<1>9. ASSUME NEW p \in Replicas, NEW q \in Replicas, NEW b \in Flight(net)[q][p], b.type = "PREPARE"
      PROVE  ~Collected(rep', p, q, b.round)
  BY <1>1, <1>6, <1>7, <1>9 DEF Fresh
<1>10. Fresh(rep', net)
  BY <1>1, <1>8, <1>9 DEF Fresh
<1>11. Tallied(rep'[i])
  <2>1. t \in ReplicaRecord
    BY <1>2, <1>4, StateFields DEF State
  <2>2. t.decided >= s.decided
    BY <1>1, <1>3, ReplicaFields
  <2> QED
    BY <1>1, <1>3, <1>4, <2>1, <2>2, TalliedSame
<1>12. Midway(rep', i, c)
  BY <1>1, <1>2, <1>3, <1>4, <1>10 DEF Midway
<1> QED
  BY <1>11, <1>12, QuietEnds

-----------------------------------------------------------------------------
(* The invariant of the suspended coroutines.                               *)

CallRecord == [to : SUBSET Replicas, slot : Nat, round : Nat]
CallRecords == UNION {[S -> CallRecord] : S \in SUBSET Requests}
RunRecord == [kind : {"idle", "probe", "propose"}, to : SUBSET Replicas]

\* A broadcast goes to peers.
SuspendedTypes ==
    /\ run \in [Replicas -> RunRecord] /\ proposing \in [Replicas -> CallRecords]
    /\ \A i \in Replicas : /\ run[i].to \subseteq Peers(i)
                           /\ \A v \in DOMAIN proposing[i] : proposing[i][v].to \subseteq Peers(i)

\* What a replica's coroutines find.
Stands(i) ==
    /\ RunStands(rep[i], net, i, run[i])
    /\ \A v \in DOMAIN proposing[i] : CallStands(rep[i], i, v, proposing[i][v])

\* Until a call goes astray the replicas' invariant holds, and every coroutine
\* finds what it left.
Standing == SuspendedTypes /\ \A i \in Replicas : Stands(i)
SuspendedInv == stray \/ (Inv /\ Standing)

\* The tables of the calls that are sending.
LEMMA CallRecordsIs ==
    ASSUME NEW f
    PROVE  f \in CallRecords <=>
             /\ f = [x \in DOMAIN f |-> f[x]]
             /\ DOMAIN f \subseteq Requests /\ \A x \in DOMAIN f : f[x] \in CallRecord
<1>1. f \in CallRecords <=> \E S \in SUBSET Requests : f \in [S -> CallRecord]
  BY DEF CallRecords
<1>2. ASSUME f = [x \in DOMAIN f |-> f[x]], \A x \in DOMAIN f : f[x] \in CallRecord
      PROVE  f \in [DOMAIN f -> CallRecord]
  BY <1>2
<1>3. ASSUME NEW S \in SUBSET Requests, f \in [S -> CallRecord]
      PROVE  /\ f = [x \in DOMAIN f |-> f[x]]
             /\ DOMAIN f \subseteq Requests /\ \A x \in DOMAIN f : f[x] \in CallRecord
  BY <1>3
<1> QED
  BY <1>1, <1>2, <1>3

-----------------------------------------------------------------------------
(* Every step but a stray one keeps the invariant of the replicas.          *)

\* A call that goes on in its own round finds its replica leading.
LEMMA ResumeLeads ==
    ASSUME NEW c, Whole(rep, net, c), NEW i \in Replicas, NEW v, NEW d, d = proposing[i][v],
           d \in CallRecord, CallStands(rep[i], i, v, d), ResumeCall(i, v), ~stray'
    PROVE  Leads(rep, i)
<1>1. rep[i].probe = d.round
  <2>1. stray' = (stray \/ rep[i].probe # d.round)
    BY DEF ResumeCall
  <2> QED
    BY <2>1, Zenon
<1>2. /\ ReplicaRounds(rep, i) /\ rep[i].ack \in Nat /\ rep[i].probe \in Nat
  BY WholeFacts, ReplicaFields
<1>3. d.round % N = i /\ d.round <= rep[i].ack /\ d.round \in Nat
  BY DEF CallStands, CallRecord
<1>4. rep[i].ack = rep[i].probe
  BY <1>1, <1>2, <1>3 DEF ReplicaRounds
<1> QED
  BY <1>1, <1>2, <1>3, <1>4 DEF ReplicaRounds, Owner

\* Its turn keeps the invariant.
LEMMA ResumeCallProgress ==
    ASSUME NEW c, Whole(rep, net, c), NEW i \in Replicas, NEW v, NEW d, d = proposing[i][v],
           d \in CallRecord, d.to \subseteq Peers(i), CallStands(rep[i], i, v, d),
           ResumeCall(i, v), ~stray'
    PROVE  Progress(c)
<1>1. Leads(rep, i)
  BY ResumeLeads
<1>2. net' \in SendNext(net, i, rep[i], d.to, "propose") /\ rep' = rep
  BY DEF ResumeCall
<1>3. d.to \in SUBSET Peers(i)
  OBVIOUS
<1> QED
  BY <1>1, <1>2, <1>3, TurnProgress

\* A leader's timer.
LEMMA BeginRetransmitProgress ==
    ASSUME NEW c, Whole(rep, net, c), NEW i \in Replicas, BeginRetransmit(i)
    PROVE  Progress(c)
<1>1. Leads(rep, i) /\ rep' = [rep EXCEPT ![i] = rep[i]]
      /\ net' \in SendNext(net, i, rep[i], Peers(i), "propose")
  BY DEF BeginRetransmit, Broadcast, Leads
<1>2. rep' = rep
  <2>1. rep \in [Replicas -> ReplicaRecord]
    BY WholeFacts
  <2> QED
    BY <1>1, <2>1
<1>3. Peers(i) \in SUBSET Peers(i)
  OBVIOUS
<1> QED
  BY <1>1, <1>2, <1>3, TurnProgress

\* A follower's timer.
LEMMA ElectProgress ==
    ASSUME NEW c, Whole(rep, net, c), NEW i \in Replicas, BeginElection(i)
    PROVE  Progress(c)
<1>1. /\ ~Leads(rep, i) /\ Becomes(rep, rep', i, Candidate(i, rep[i]))
      /\ net' \in SendNext(net, i, Candidate(i, rep[i]), Peers(i), "probe")
  BY DEF BeginElection, Broadcast, Becomes, Leads
<1> QED
  BY <1>1, BeginElectionProgress

\* A majority's last PREPARE.
LEMMA WinProgress ==
    ASSUME NEW c, Whole(rep, net, c), NEW i \in Replicas, NEW j \in Incoming(i), BecomeLeader(i, j)
    PROVE  Progress(c)
<1> DEFINE m == Msg(i, j)
           u == [rep[i] EXCEPT !.prepares = Append(@, Msg(i, j))]
<1>1. /\ Gets(i, j, "PREPARE") /\ Counts(StepDown(rep[i], j, m), m)
      /\ Len(StepDown(rep[i], j, m).prepares) + 1 = Quorum
      /\ rep' = [rep EXCEPT ![i] = AdoptBest(i, [StepDown(rep[i], j, m) EXCEPT !.prepares = Append(@, m)])]
      /\ net' \in SendNext(Taken(i, j), i,
                           AdoptBest(i, [StepDown(rep[i], j, m) EXCEPT !.prepares = Append(@, m)]),
                           Peers(i), "propose")
  BY DEF BecomeLeader, Broadcast
<1>2. StepDown(rep[i], j, m) = rep[i]
  BY <1>1, CountedIs
<1>3. /\ Len(rep[i].prepares) + 1 = Quorum
      /\ Becomes(rep, rep', i, AdoptBest(i, u))
      /\ net' \in SendNext(Taken(i, j), i, AdoptBest(i, u), Peers(i), "propose")
  BY <1>1, <1>2 DEF Becomes
<1>4. u = [rep[i] EXCEPT !.prepares = Append(@, Msg(i, j))]
  OBVIOUS
<1> HIDE DEF u
<1> QED
  BY <1>1, <1>3, <1>4, BecomeLeaderProgress

\* A broadcast of run() that goes on.
LEMMA ResumeRunProgress ==
    ASSUME NEW c, Whole(rep, net, c), NEW i \in Replicas, NEW b, b = run[i], b \in RunRecord,
           b.to \subseteq Peers(i), RunStands(rep[i], net, i, b), ResumeRun(i)
    PROVE  Progress(c)
<1>1. /\ b.to # {} /\ b.to \in SUBSET Peers(i) /\ rep' = rep
      /\ net' \in SendNext(net, i, rep[i], b.to, b.kind)
  BY DEF ResumeRun
<1>2. b.kind \in {"probe", "propose"}
  <2>1. b.kind \in {"idle", "probe", "propose"}
    BY DEF RunRecord
  <2>2. b.kind # "idle"
    BY <1>1 DEF RunStands, Idle
  <2> QED
    BY <2>1, <2>2
<1>3. CASE b.kind = "propose"
  BY <1>1, <1>3, TurnProgress DEF RunStands, Leads
<1>4. CASE b.kind = "probe"
  <2>1. /\ rep[i].prepares = <<>> /\ Owner(rep[i].election) = i
        /\ \A p \in b.to : Unasked(net, i, p, rep[i].election)
    BY <1>4 DEF RunStands, Owner
  <2>2. net' \in SendNext(net, i, rep[i], b.to, "probe")
    BY <1>1, <1>4
  <2> QED
    BY <1>1, <2>1, <2>2, ProbeProgress
<1> QED
  BY <1>2, <1>3, <1>4

\* A broadcast of run() that ends.
LEMMA FinishRunProgress ==
    ASSUME NEW c, Whole(rep, net, c), NEW i \in Replicas, NEW b, b = run[i], b \in RunRecord,
           RunStands(rep[i], net, i, b), FinishRun(i)
    PROVE  Progress(c)
<1> DEFINE s == rep[i]
           own == <<Prepare(i, s, s.election)>>
<1>1. b.kind \in {"probe", "propose"}
  <2>1. b.kind \in {"idle", "probe", "propose"}
    BY DEF RunRecord
  <2>2. b.kind # "idle"
    BY DEF RunStands, FinishRun
  <2> QED
    BY <2>1, <2>2
<1>2. CASE b.kind = "propose"
  <2>1. Leads(rep, i)
    BY <1>2 DEF RunStands, Leads
  <2>2. Becomes(rep, rep', i, ApplyDecided(i, rep[i])) /\ net' = net
    BY <1>2 DEF FinishRun, Becomes
  <2> QED
    BY <2>1, <2>2, FinishProposesProgress
<1>3. CASE b.kind = "probe"
  <2>1. /\ ~Leads(rep, i) /\ rep[i].prepares = <<>> /\ rep[i].election = rep[i].probe
        /\ Owner(rep[i].election) = i /\ Unasked(net, i, i, rep[i].election)
    BY <1>3 DEF RunStands, Leads, Owner
  <2>2. Becomes(rep, rep', i, [rep[i] EXCEPT !.prepares = own]) /\ net' = net
    BY <1>3 DEF FinishRun, Becomes
  <2>3. own = <<Prepare(i, rep[i], rep[i].election)>>
    OBVIOUS
  <2> HIDE DEF own
  <2> QED
    BY <2>1, <2>2, <2>3, FinishProbesProgress
<1> QED
  BY <1>1, <1>2, <1>3

\* A message.
LEMMA ReceiveProgress ==
    ASSUME NEW c, Whole(rep, net, c), NEW i \in Replicas, NEW j \in Incoming(i), Receive(i, j)
    PROVE  Progress(c)
<1>1. \/ ReceiveStale(i, j) \/ ReceiveProbe(i, j) \/ ReceivePrepare(i, j)
      \/ ReceiveAsLeader(i, j) \/ ReceivePropose(i, j)
  BY DEF Receive
<1>2. CASE ReceiveStale(i, j)
  BY <1>2, ReceiveStaleProgress
<1>3. CASE ReceiveProbe(i, j)
  BY <1>3, ReceiveProbeProgress
<1>4. CASE ReceivePrepare(i, j)
  BY <1>4, ReceivePrepareProgress
<1>5. CASE ReceiveAsLeader(i, j)
  BY <1>5, ReceiveAsLeaderProgress
<1>6. CASE ReceivePropose(i, j)
  BY <1>6, ReceiveProposeProgress
<1> QED
  BY <1>1, <1>2, <1>3, <1>4, <1>5, <1>6

\* What the types say of one coroutine.
LEMMA SuspendedTypesAt ==
    ASSUME SuspendedTypes, NEW i \in Replicas
    PROVE  /\ run[i] \in RunRecord /\ run[i].to \subseteq Peers(i)
           /\ proposing[i] \in CallRecords
           /\ \A v \in DOMAIN proposing[i] :
                 /\ v \in Requests /\ proposing[i][v] \in CallRecord
                 /\ proposing[i][v].to \subseteq Peers(i) /\ proposing[i][v].slot \in Nat
                 /\ proposing[i][v].round \in Nat
<1>1. run[i] \in RunRecord /\ proposing[i] \in CallRecords /\ run[i].to \subseteq Peers(i)
      /\ \A v \in DOMAIN proposing[i] : proposing[i][v].to \subseteq Peers(i)
  BY DEF SuspendedTypes
<1>2. \A v \in DOMAIN proposing[i] : v \in Requests /\ proposing[i][v] \in CallRecord
  BY <1>1, CallRecordsIs
<1>3. \A d \in CallRecord : d.slot \in Nat /\ d.round \in Nat
  BY DEF CallRecord
<1> QED
  BY <1>1, <1>2, <1>3

\* Every step of the coroutines, as long as none goes astray.
LEMMA SuspendedProgress ==
    ASSUME NEW c, Whole(rep, net, c), SuspendedTypes, \A i \in Replicas : Stands(i), SNext, ~stray'
    PROVE  Progress(c)
<1>1. PICK i \in Replicas :
        \/ \E v \in Requests : Call(i, v)
        \/ \E v \in DOMAIN proposing[i] : ResumeCall(i, v) \/ FinishCall(i, v)
        \/ BeginElection(i) \/ BeginRetransmit(i) \/ ResumeRun(i) \/ FinishRun(i)
        \/ \E j \in Incoming(i) : BecomeLeader(i, j) \/ Receive(i, j)
  BY DEF SNext
<1>2. RunStands(rep[i], net, i, run[i]) /\ run[i] \in RunRecord /\ run[i].to \subseteq Peers(i)
  BY SuspendedTypesAt DEF Stands
<1>3. \A v \in DOMAIN proposing[i] :
         /\ CallStands(rep[i], i, v, proposing[i][v]) /\ proposing[i][v] \in CallRecord
         /\ proposing[i][v].to \subseteq Peers(i) /\ proposing[i][v].slot \in Nat
  BY SuspendedTypesAt DEF Stands
<1>4. ASSUME NEW v \in Requests, Call(i, v)
      PROVE  Progress(c)
  BY <1>4, CallProgress
<1>5. ASSUME NEW v \in DOMAIN proposing[i], ResumeCall(i, v)
      PROVE  Progress(c)
  BY <1>3, <1>5, ResumeCallProgress
<1>6. ASSUME NEW v \in DOMAIN proposing[i], FinishCall(i, v)
      PROVE  Progress(c)
  <2>1. /\ Becomes(rep, rep', i, Returns(ApplyDecided(i, rep[i]), proposing[i][v].slot))
        /\ net' = net
    BY <1>6 DEF FinishCall, Becomes
  <2> QED
    BY <1>3, <2>1, FinishCallProgress
<1>7. CASE BeginElection(i)
  BY <1>7, ElectProgress
<1>8. CASE BeginRetransmit(i)
  BY <1>8, BeginRetransmitProgress
<1>9. CASE ResumeRun(i)
  BY <1>2, <1>9, ResumeRunProgress
<1>10. CASE FinishRun(i)
  BY <1>2, <1>10, FinishRunProgress
<1>11. ASSUME NEW j \in Incoming(i), BecomeLeader(i, j)
       PROVE  Progress(c)
  BY <1>11, WinProgress
<1>12. ASSUME NEW j \in Incoming(i), Receive(i, j)
       PROVE  Progress(c)
  BY <1>12, ReceiveProgress
<1> QED
  BY <1>1, <1>4, <1>5, <1>6, <1>7, <1>8, <1>9, <1>10, <1>11, <1>12

-----------------------------------------------------------------------------
(* The types of the coroutines.                                             *)

\* run() of one replica takes a step.
LEMMA RunTypes ==
    ASSUME SuspendedTypes, NEW i \in Replicas, NEW b \in RunRecord, b.to \subseteq Peers(i),
           run' = [run EXCEPT ![i] = b], proposing' = proposing
    PROVE  SuspendedTypes' /\ run'[i] = b /\ \A q \in Replicas \ {i} : run'[q] = run[q]
<1>1. /\ run \in [Replicas -> RunRecord] /\ proposing \in [Replicas -> CallRecords]
      /\ \A q \in Replicas : /\ run[q].to \subseteq Peers(q)
                             /\ \A v \in DOMAIN proposing[q] : proposing[q][v].to \subseteq Peers(q)
  BY DEF SuspendedTypes
<1>2. run' \in [Replicas -> RunRecord] /\ run'[i] = b /\ \A q \in Replicas \ {i} : run'[q] = run[q]
  BY <1>1
<1>3. \A q \in Replicas : run'[q].to \subseteq Peers(q)
  <2> TAKE q \in Replicas
  <2>1. CASE q = i
    BY <1>2, <2>1
  <2>2. CASE q # i
    <3>1. run'[q] = run[q]
      BY <1>2, <2>2
    <3> QED
      BY <1>1, <3>1
  <2> QED
    BY <2>1, <2>2
<1> QED
  BY <1>1, <1>2, <1>3 DEF SuspendedTypes

\* The calls of one replica take a step.
LEMMA CallTypes ==
    ASSUME SuspendedTypes, NEW i \in Replicas, NEW f \in CallRecords,
           \A v \in DOMAIN f : f[v].to \subseteq Peers(i),
           proposing' = [proposing EXCEPT ![i] = f], run' = run
    PROVE  SuspendedTypes' /\ proposing'[i] = f
           /\ \A q \in Replicas \ {i} : proposing'[q] = proposing[q]
<1>1. /\ run \in [Replicas -> RunRecord] /\ proposing \in [Replicas -> CallRecords]
      /\ \A q \in Replicas : /\ run[q].to \subseteq Peers(q)
                             /\ \A v \in DOMAIN proposing[q] : proposing[q][v].to \subseteq Peers(q)
  BY DEF SuspendedTypes
<1>2. /\ proposing' \in [Replicas -> CallRecords] /\ proposing'[i] = f
      /\ \A q \in Replicas \ {i} : proposing'[q] = proposing[q]
  BY <1>1
<1>3. \A q \in Replicas : \A v \in DOMAIN proposing'[q] : proposing'[q][v].to \subseteq Peers(q)
  <2> TAKE q \in Replicas
  <2>1. CASE q = i
    BY <1>2, <2>1
  <2>2. CASE q # i
    <3>1. proposing'[q] = proposing[q]
      BY <1>2, <2>2
    <3> QED
      BY <1>1, <3>1
  <2> QED
    BY <2>1, <2>2
<1> QED
  BY <1>1, <1>2, <1>3 DEF SuspendedTypes

\* The record of a call that begins, and that of a broadcast.
LEMMA NewRecords ==
    ASSUME NEW i \in Replicas, NEW slot \in Nat, NEW round \in Nat, NEW kind \in {"probe", "propose"}
    PROVE  /\ [to |-> LaterPeers(Peers(i)), slot |-> slot, round |-> round] \in CallRecord
           /\ [kind |-> kind, to |-> LaterPeers(Peers(i))] \in RunRecord
           /\ LaterPeers(Peers(i)) \subseteq Peers(i)
<1>1. LaterPeers(Peers(i)) \subseteq Peers(i) /\ Peers(i) \subseteq Replicas
  BY DEF LaterPeers, Peers
<1>2. LaterPeers(Peers(i)) \in SUBSET Replicas
  BY <1>1
<1> DEFINE to == LaterPeers(Peers(i))
<1> HIDE DEF to
<1>3. to \in SUBSET Replicas => /\ [to |-> to, slot |-> slot, round |-> round] \in CallRecord
                                /\ [kind |-> kind, to |-> to] \in RunRecord
  BY DEF CallRecord, RunRecord
<1> QED
  BY <1>1, <1>2, <1>3 DEF to

\* What a new call adds to its replica's.
CallAdded(f, v, d, g) ==
    /\ DOMAIN g = DOMAIN f \cup {v} /\ g[v] = d
    /\ \A w \in DOMAIN f \ {v} : g[w] = f[w]

\* A call begins.
LEMMA CallKeepsTypes ==
    ASSUME SuspendedTypes, NEW i \in Replicas, NEW v \in Requests, Call(i, v),
           rep[i].next \in Nat, rep[i].probe \in Nat
    PROVE  /\ SuspendedTypes'
           /\ CallAdded(proposing[i], v,
                        [to |-> LaterPeers(Peers(i)), slot |-> rep[i].next, round |-> rep[i].probe],
                        proposing'[i])
           /\ \A q \in Replicas \ {i} : proposing'[q] = proposing[q]
<1> DEFINE d == [to |-> LaterPeers(Peers(i)), slot |-> rep[i].next, round |-> rep[i].probe]
           f == [w \in DOMAIN proposing[i] \cup {v} |-> IF w = v THEN d ELSE proposing[i][w]]
<1>1. proposing' = [proposing EXCEPT ![i] = f] /\ run' = run
  BY DEF Call
<1>2. d \in CallRecord /\ d.to \subseteq Peers(i)
  BY NewRecords
<1> HIDE DEF d
<1>3. DOMAIN f = DOMAIN proposing[i] \cup {v} /\ f = [w \in DOMAIN f |-> f[w]]
  OBVIOUS
<1>4. \A w \in DOMAIN f : f[w] = IF w = v THEN d ELSE proposing[i][w]
  OBVIOUS
<1>5. /\ DOMAIN proposing[i] \subseteq Requests
      /\ \A w \in DOMAIN proposing[i] : /\ proposing[i][w] \in CallRecord
                                        /\ proposing[i][w].to \subseteq Peers(i)
  BY SuspendedTypesAt
<1> HIDE DEF f
<1>6. DOMAIN f \subseteq Requests /\ \A w \in DOMAIN f : f[w] \in CallRecord /\ f[w].to \subseteq Peers(i)
  <2>1. \A w \in DOMAIN f : f[w] \in CallRecord /\ f[w].to \subseteq Peers(i)
    <3> TAKE w \in DOMAIN f
    <3>1. CASE w = v
      BY <1>2, <1>4, <3>1
    <3>2. CASE w # v
      <4>1. w \in DOMAIN proposing[i] /\ f[w] = proposing[i][w]
        BY <1>3, <1>4, <3>2
      <4> QED
        BY <1>5, <4>1
    <3> QED
      BY <3>1, <3>2
  <2> QED
    BY <1>3, <1>5, <2>1
<1>7. f \in CallRecords
  BY <1>3, <1>6, CallRecordsIs
<1>8. /\ SuspendedTypes' /\ proposing'[i] = f
      /\ \A q \in Replicas \ {i} : proposing'[q] = proposing[q]
  BY <1>1, <1>6, <1>7, CallTypes
<1>9. CallAdded(proposing[i], v, d, f)
  BY <1>3, <1>4 DEF CallAdded
<1> QED
  BY <1>8, <1>9 DEF d

\* A call goes on.
CallResumed(f, v, g) ==
    /\ DOMAIN g = DOMAIN f
    /\ g[v].slot = f[v].slot /\ g[v].round = f[v].round
    /\ \A w \in DOMAIN f \ {v} : g[w] = f[w]

\* The calls' types when a call goes on.
LEMMA ResumeKeepsTypes ==
    ASSUME SuspendedTypes, NEW i \in Replicas, NEW v \in DOMAIN proposing[i], ResumeCall(i, v)
    PROVE  /\ SuspendedTypes' /\ CallResumed(proposing[i], v, proposing'[i])
           /\ \A q \in Replicas \ {i} : proposing'[q] = proposing[q]
<1> DEFINE d == [proposing[i][v] EXCEPT !.to = LaterPeers(@)]
           f == [proposing[i] EXCEPT ![v] = d]
<1>1. proposing' = [proposing EXCEPT ![i] = f] /\ run' = run
  BY DEF ResumeCall
<1>2. /\ proposing[i] \in CallRecords /\ DOMAIN proposing[i] \subseteq Requests
      /\ \A w \in DOMAIN proposing[i] : /\ proposing[i][w] \in CallRecord
                                        /\ proposing[i][w].to \subseteq Peers(i)
  BY SuspendedTypesAt
<1>3. d \in CallRecord /\ d.to \subseteq Peers(i) /\ d.slot = proposing[i][v].slot
      /\ d.round = proposing[i][v].round
  <2>1. proposing[i][v] \in CallRecord /\ proposing[i][v].to \subseteq Peers(i)
    BY <1>2
  <2>2. LaterPeers(proposing[i][v].to) \subseteq proposing[i][v].to
    BY DEF LaterPeers
  <2> QED
    BY <2>1, <2>2 DEF CallRecord
<1> HIDE DEF d
<1>4. DOMAIN f = DOMAIN proposing[i] /\ f[v] = d /\ \A w \in DOMAIN f \ {v} : f[w] = proposing[i][w]
  OBVIOUS
<1>5. f = [w \in DOMAIN f |-> f[w]]
  BY <1>2, CallRecordsIs
<1> HIDE DEF f
<1>6. DOMAIN f \subseteq Requests /\ \A w \in DOMAIN f : f[w] \in CallRecord /\ f[w].to \subseteq Peers(i)
  <2>1. \A w \in DOMAIN f : f[w] \in CallRecord /\ f[w].to \subseteq Peers(i)
    <3> TAKE w \in DOMAIN f
    <3>1. CASE w = v
      BY <1>3, <1>4, <3>1
    <3>2. CASE w # v
      BY <1>2, <1>4, <3>2
    <3> QED
      BY <3>1, <3>2
  <2> QED
    BY <1>2, <1>4, <2>1
<1>7. f \in CallRecords
  BY <1>5, <1>6, CallRecordsIs
<1>8. /\ SuspendedTypes' /\ proposing'[i] = f
      /\ \A q \in Replicas \ {i} : proposing'[q] = proposing[q]
  BY <1>1, <1>6, <1>7, CallTypes
<1>9. CallResumed(proposing[i], v, f)
  BY <1>3, <1>4 DEF CallResumed
<1> QED
  BY <1>8, <1>9

\* A call ends.
CallRemoved(f, v, g) ==
    /\ DOMAIN g = DOMAIN f \ {v}
    /\ \A w \in DOMAIN g : g[w] = f[w]

\* The calls' types when a call ends.
LEMMA FinishKeepsTypes ==
    ASSUME SuspendedTypes, NEW i \in Replicas, NEW v \in DOMAIN proposing[i], FinishCall(i, v)
    PROVE  /\ SuspendedTypes' /\ CallRemoved(proposing[i], v, proposing'[i])
           /\ \A q \in Replicas \ {i} : proposing'[q] = proposing[q]
<1> DEFINE f == [w \in DOMAIN proposing[i] \ {v} |-> proposing[i][w]]
<1>1. proposing' = [proposing EXCEPT ![i] = f] /\ run' = run
  BY DEF FinishCall
<1>2. /\ DOMAIN proposing[i] \subseteq Requests
      /\ \A w \in DOMAIN proposing[i] : /\ proposing[i][w] \in CallRecord
                                        /\ proposing[i][w].to \subseteq Peers(i)
  BY SuspendedTypesAt
<1>3. DOMAIN f = DOMAIN proposing[i] \ {v} /\ f = [w \in DOMAIN f |-> f[w]]
      /\ \A w \in DOMAIN f : f[w] = proposing[i][w]
  OBVIOUS
<1> HIDE DEF f
<1>4. DOMAIN f \subseteq Requests /\ \A w \in DOMAIN f : f[w] \in CallRecord /\ f[w].to \subseteq Peers(i)
  BY <1>2, <1>3
<1>5. f \in CallRecords
  BY <1>3, <1>4, CallRecordsIs
<1>6. /\ SuspendedTypes' /\ proposing'[i] = f
      /\ \A q \in Replicas \ {i} : proposing'[q] = proposing[q]
  BY <1>1, <1>4, <1>5, CallTypes
<1>7. CallRemoved(proposing[i], v, f)
  BY <1>3 DEF CallRemoved
<1> QED
  BY <1>6, <1>7

\* run() of i begins a broadcast.
LEMMA BroadcastKeepsTypes ==
    ASSUME SuspendedTypes, NEW i \in Replicas, NEW n, NEW s, NEW kind \in {"probe", "propose"},
           Broadcast(n, i, s, kind)
    PROVE  /\ SuspendedTypes' /\ run'[i].kind = kind /\ run'[i].to = LaterPeers(Peers(i))
           /\ \A q \in Replicas \ {i} : run'[q] = run[q]
<1> DEFINE b == [kind |-> kind, to |-> LaterPeers(Peers(i))]
<1>1. run' = [run EXCEPT ![i] = b] /\ proposing' = proposing
  BY DEF Broadcast
<1>2. b \in RunRecord /\ b.to \subseteq Peers(i)
  BY NewRecords
<1>3. b.kind = kind /\ b.to = LaterPeers(Peers(i))
  OBVIOUS
<1> HIDE DEF b
<1> QED
  BY <1>1, <1>2, <1>3, RunTypes

\* run() of i goes on with a broadcast.
LEMMA ResumeRunKeepsTypes ==
    ASSUME SuspendedTypes, NEW i \in Replicas, ResumeRun(i)
    PROVE  /\ SuspendedTypes' /\ run'[i].kind = run[i].kind /\ run'[i].to = LaterPeers(run[i].to)
           /\ \A q \in Replicas \ {i} : run'[q] = run[q]
<1> DEFINE b == [run[i] EXCEPT !.to = LaterPeers(@)]
<1>1. run' = [run EXCEPT ![i] = b] /\ proposing' = proposing
  BY DEF ResumeRun
<1>2. run[i] \in RunRecord /\ run[i].to \subseteq Peers(i)
  BY SuspendedTypesAt
<1>3. LaterPeers(run[i].to) \subseteq run[i].to
  BY DEF LaterPeers
<1>4. b \in RunRecord /\ b.to \subseteq Peers(i) /\ b.kind = run[i].kind /\ b.to = LaterPeers(run[i].to)
  BY <1>2, <1>3 DEF RunRecord
<1> HIDE DEF b
<1> QED
  BY <1>1, <1>4, RunTypes

\* run() of i ends a broadcast.
LEMMA FinishRunKeepsTypes ==
    ASSUME SuspendedTypes, NEW i \in Replicas, FinishRun(i)
    PROVE  SuspendedTypes' /\ run'[i] = Idle /\ \A q \in Replicas \ {i} : run'[q] = run[q]
<1>1. run' = [run EXCEPT ![i] = Idle] /\ proposing' = proposing
  BY DEF FinishRun
<1>2. Idle \in RunRecord /\ Idle.to \subseteq Peers(i)
  BY DEF Idle, RunRecord
<1> HIDE DEF Idle
<1> QED
  BY <1>1, <1>2, RunTypes

-----------------------------------------------------------------------------
(* What the handlers leave of the calls.                                    *)

\* A call that stands in s stands in t.
CallsStay(i, s, t) ==
    \A v : \A d \in CallRecord : CallStands(s, i, v, d) => CallStands(t, i, v, d)

\* One thing after the other.
LEMMA StayTwice ==
    ASSUME NEW i, NEW s, NEW t, NEW u, CallsStay(i, s, t), CallsStay(i, t, u)
    PROVE  CallsStay(i, s, u)
BY DEF CallsStay

\* A handler that touches neither the calls nor what they wait for.
LEMMA SameCalls ==
    ASSUME NEW i, NEW s, NEW t, t.calls = s.calls, t.waiters = s.waiters, t.ack = s.ack,
           t.probe = s.probe, t.applied = s.applied, LogEnd(t) = LogEnd(s)
    PROVE  CallsStay(i, s, t)
BY DEF CallsStay, CallStands

\* A replica that moves to another round leaves its calls behind.
LEMMA AwayCalls ==
    ASSUME NEW i, NEW s, NEW t, s.ack \in Nat, t.ack \in Nat, t.ack >= s.ack,
           DOMAIN s.calls \subseteq DOMAIN t.calls,
           \A r \in Nat : r <= s.ack /\ r % N = i => t.probe # r
    PROVE  CallsStay(i, s, t)
<1> SUFFICES ASSUME NEW v, NEW d \in CallRecord, CallStands(s, i, v, d)
             PROVE  CallStands(t, i, v, d)
  BY DEF CallsStay
<1>1. v \in DOMAIN s.calls /\ d.round % N = i /\ d.round <= s.ack /\ d.round \in Nat
  BY DEF CallStands, CallRecord
<1>2. t.probe # d.round /\ d.round <= t.ack
  BY <1>1
<1> QED
  BY <1>1, <1>2 DEF CallStands

\* A higher round.
LEMMA StepDownCalls ==
    ASSUME NEW i, NEW s \in ReplicaRecord, s.ack <= s.probe, NEW j \in Replicas, NEW m,
           m.round \in Nat
    PROVE  CallsStay(i, s, StepDown(s, j, m))
<1>0. s.ack \in Nat /\ s.probe \in Nat
  BY ReplicaFields
<1>1. CASE m.round > s.probe
  <2> DEFINE r == m.round
             t == [s EXCEPT !.probe = r, !.leader = j]
  <2>1. StepDown(s, j, m) = t
    BY <1>1 DEF StepDown
  <2>2. r \in Nat /\ r > s.probe
    BY <1>1
  <2> HIDE DEF r
  <2>3. t.ack = s.ack /\ t.calls = s.calls /\ t.probe = r
    BY DEF ReplicaRecord
  <2> HIDE DEF t
  <2>4. \A x \in Nat : x <= s.ack => t.probe # x
    BY <1>0, <2>2, <2>3
  <2>5. CallsStay(i, s, t)
    BY <1>0, <2>3, <2>4, AwayCalls
  <2> QED
    BY <2>1, <2>5
<1>2. CASE ~(m.round > s.probe)
  <2>1. StepDown(s, j, m) = s
    BY <1>2 DEF StepDown
  <2> QED
    BY <2>1 DEF CallsStay
<1> QED
  BY <1>1, <1>2

\* What apply_decided leaves of the calls: a waiter less is a response more.
LEMMA AppliedCalls ==
    ASSUME NEW i, NEW s \in ReplicaRecord, NEW t, Applied(i, s, t),
           s.base <= s.applied, s.applied <= LogEnd(s)
    PROVE  CallsStay(i, s, t)
<1> SUFFICES ASSUME NEW v, NEW d \in CallRecord, CallStands(s, i, v, d)
             PROVE  CallStands(t, i, v, d)
  BY DEF CallsStay
<1>1. /\ s.applied \in Nat /\ LogEnd(s) \in Nat /\ s.base \in Nat /\ Held(s) \in Log
      /\ Held(s).slot = s.base /\ EndOf(Held(s)) = LogEnd(s)
      /\ d.slot \in Nat
  BY ReplicaFields DEF CallRecord
<1>2. /\ t \in ReplicaRecord /\ t.ack = s.ack /\ t.probe = s.probe /\ LogEnd(t) = LogEnd(s)
      /\ t.applied \in Nat /\ t.applied = MaxOf(s.applied, MinOf(t.decided, LogEnd(s)))
      /\ t.decided \in Nat /\ Answered(s, t)
  BY ReplicaFields DEF Applied, SameRole
<1>3. t.applied <= LogEnd(s)
  BY <1>1, <1>2 DEF MaxOf, MinOf
<1> DEFINE due(k) == k \in DOMAIN s.waiters /\ s.applied <= k /\ k < t.applied
<1>4. /\ DOMAIN t.calls = DOMAIN s.calls
      /\ \A x \in DOMAIN s.calls :
           \/ t.calls[x] = s.calls[x] /\ \A k : due(k) => s.waiters[k] # x
           \/ \E k : due(k) /\ s.waiters[k] = x /\ t.calls[x] = At(Held(s), k)
      /\ DOMAIN t.waiters = {k \in DOMAIN s.waiters : ~due(k)}
      /\ \A k \in DOMAIN t.waiters : t.waiters[k] = s.waiters[k]
  BY <1>2 DEF Answered
<1>5. DOMAIN s.waiters \subseteq Nat
  <2>1. s.waiters \in WaiterTable
    BY DEF ReplicaRecord
  <2> QED
    BY <2>1, WaiterTableIs
<1>6. \A k : due(k) => At(Held(s), k) # NoReply
  <2> SUFFICES ASSUME NEW k, due(k)
               PROVE  At(Held(s), k) # NoReply
    OBVIOUS
  <2>1. k \in Nat /\ s.base <= k /\ k < LogEnd(s)
    BY <1>1, <1>2, <1>3, <1>5
  <2>2. k \in Slots(Held(s))
    BY <1>1, <2>1, LogFields
  <2>3. At(Held(s), k) \in Requests
    BY <1>1, <2>2, LogFields
  <2> QED
    BY <2>3, PaxosAssumption DEF Requests, NoReply
<1>7. v \in DOMAIN s.calls /\ d.round % N = i /\ d.round <= s.ack
  BY DEF CallStands
<1>8. ASSUME s.probe = d.round
      PROVE  \/ t.calls[v] # NoReply
             \/ t.applied <= d.slot /\ d.slot \in DOMAIN t.waiters /\ t.waiters[d.slot] = v
  <2>1. \/ s.calls[v] # NoReply
        \/ s.applied <= d.slot /\ d.slot \in DOMAIN s.waiters /\ s.waiters[d.slot] = v
    BY <1>8 DEF CallStands
  <2>2. \/ t.calls[v] = s.calls[v] /\ \A k : due(k) => s.waiters[k] # v
        \/ \E k : due(k) /\ s.waiters[k] = v /\ t.calls[v] = At(Held(s), k)
    BY <1>4, <1>7
  <2>3. CASE \E k : due(k) /\ t.calls[v] = At(Held(s), k)
    BY <1>6, <2>3
  <2>4. CASE t.calls[v] = s.calls[v] /\ s.calls[v] # NoReply
    BY <2>4
  <2>5. CASE /\ \A k : due(k) => s.waiters[k] # v
             /\ s.applied <= d.slot /\ d.slot \in DOMAIN s.waiters /\ s.waiters[d.slot] = v
    <3>1. ~due(d.slot)
      BY <2>5
    <3>2. d.slot \in DOMAIN t.waiters
      BY <1>4, <2>5, <3>1
    <3>3. t.waiters[d.slot] = v
      BY <1>4, <2>5, <3>2
    <3>4. t.applied <= d.slot
      BY <1>1, <1>2, <2>5, <3>1
    <3> QED
      BY <3>2, <3>3, <3>4
  <2> HIDE DEF due
  <2> QED
    BY <2>1, <2>2, <2>3, <2>4, <2>5
<1>9. s.probe = d.round => d.slot < LogEnd(t)
  BY <1>2 DEF CallStands
<1> HIDE DEF due
<1> QED
  BY <1>2, <1>4, <1>7, <1>8, <1>9 DEF CallStands

\* What a call that returns leaves of the others.
LEMMA ReturnsCalls ==
    ASSUME NEW i, NEW s \in ReplicaRecord, NEW slot \in Nat
    PROVE  CallsStay(i, s, Returns(s, slot))
<1> DEFINE t == Returns(s, slot)
<1>1. /\ SameRole(s, t) /\ t.log = s.log /\ t.base = s.base /\ t.applied = s.applied
      /\ t.calls = s.calls
      /\ DOMAIN t.waiters = {k \in DOMAIN s.waiters : ~(k = slot /\ slot < s.applied)}
      /\ \A k \in DOMAIN t.waiters : t.waiters[k] = s.waiters[k]
  BY ReturnsIs
<1> HIDE DEF t
<1>2. s.applied \in Nat /\ LogEnd(t) = LogEnd(s) /\ t.ack = s.ack /\ t.probe = s.probe
  BY <1>1, ReplicaFields DEF SameRole, LogEnd
<1>3. ASSUME NEW v, NEW d \in CallRecord, CallStands(s, i, v, d)
      PROVE  CallStands(t, i, v, d)
  <2>1. s.applied <= d.slot /\ d.slot \in DOMAIN s.waiters => d.slot \in DOMAIN t.waiters
    BY <1>1, <1>2
  <2>2. \/ t.calls[v] # NoReply
        \/ t.applied <= d.slot /\ d.slot \in DOMAIN t.waiters /\ t.waiters[d.slot] = v
        \/ s.probe # d.round
    BY <1>1, <1>3, <2>1 DEF CallStands
  <2>3. v \in DOMAIN t.calls /\ d.round % N = i /\ d.round <= t.ack
        /\ (t.probe = d.round => d.slot < LogEnd(t))
    BY <1>1, <1>2, <1>3 DEF CallStands
  <2> QED
    BY <1>2, <2>2, <2>3 DEF CallStands
<1> QED
  BY <1>3 DEF CallsStay, t

\* A new request: the other calls stand, and its own does.
LEMMA EnqueuedCalls ==
    ASSUME NEW i \in Replicas, NEW s \in ReplicaRecord, NEW v \in Requests, NEW t,
           t = Enqueue(i, s, v), v \notin DOMAIN s.calls,
           s.next = LogEnd(s), s.applied <= LogEnd(s), s.ack = s.probe, s.probe % N = i
    PROVE  /\ CallsStay(i, s, t)
           /\ \A d \in CallRecord : d.slot = s.next /\ d.round = s.probe => CallStands(t, i, v, d)
<1>1. Enqueued(i, s, v, t)
  BY EnqueueIs
<1>2. LogEnd(t) = LogEnd(s) + 1
  <2>1. s.log \in Seq(Requests) /\ s.base \in Nat
    BY ReplicaFields
  <2>2. Len(Append(s.log, v)) = Len(s.log) + 1 /\ Len(s.log) \in Nat
    BY <2>1, AppendProperties, LenProperties
  <2> DEFINE l == Append(s.log, v)
             w == [k \in DOMAIN s.waiters \cup {s.next} |-> IF k = s.next THEN v ELSE s.waiters[k]]
             x == [y \in DOMAIN s.calls \cup {v} |-> IF y = v THEN NoReply ELSE s.calls[y]]
             n == s.next + 1
             a == [s.acks EXCEPT ![i] = s.next + 1]
  <2>3. t = [s EXCEPT !.log = l, !.next = n, !.acks = a, !.waiters = w, !.calls = x]
    BY DEF Enqueue
  <2> HIDE DEF l, w, x, n, a
  <2>4. t.log = l /\ t.base = s.base
    BY <2>3 DEF ReplicaRecord
  <2> QED
    BY <2>1, <2>2, <2>4 DEF LogEnd, l
<1> DEFINE e == s.next
<1>3. /\ t.probe = s.probe /\ t.ack = s.ack /\ t.applied = s.applied
      /\ DOMAIN t.waiters = DOMAIN s.waiters \cup {e} /\ t.waiters[e] = v
      /\ \A k \in DOMAIN s.waiters : k # e => t.waiters[k] = s.waiters[k]
      /\ DOMAIN t.calls = DOMAIN s.calls \cup {v}
      /\ \A w \in DOMAIN s.calls : t.calls[w] = s.calls[w]
  <2> DEFINE wt == [k \in DOMAIN s.waiters \cup {e} |-> IF k = e THEN v ELSE s.waiters[k]]
             ct == [w \in DOMAIN s.calls \cup {v} |-> IF w = v THEN NoReply ELSE s.calls[w]]
  <2>1. t.probe = s.probe /\ t.ack = s.ack /\ t.applied = s.applied /\ t.waiters = wt /\ t.calls = ct
    BY <1>1 DEF Enqueued
  <2>2. /\ DOMAIN wt = DOMAIN s.waiters \cup {e} /\ wt[e] = v
        /\ \A k \in DOMAIN s.waiters : k # e => wt[k] = s.waiters[k]
        /\ DOMAIN ct = DOMAIN s.calls \cup {v}
        /\ \A w \in DOMAIN s.calls : ct[w] = s.calls[w]
    OBVIOUS
  <2> HIDE DEF wt, ct, e
  <2> QED
    BY <2>1, <2>2
<1>4. /\ e \in Nat /\ e = LogEnd(s) /\ s.applied \in Nat /\ s.ack \in Nat
  BY ReplicaFields
<1> HIDE DEF e
<1>5. ASSUME NEW w, NEW d \in CallRecord, CallStands(s, i, w, d)
      PROVE  CallStands(t, i, w, d)
  <2>1. d.slot \in Nat
    BY DEF CallRecord
  <2>2. w \in DOMAIN s.calls /\ d.round % N = i /\ d.round <= s.ack
    BY <1>5 DEF CallStands
  <2>3. ASSUME s.probe = d.round
        PROVE  /\ d.slot < LogEnd(t)
               /\ \/ t.calls[w] # NoReply
                  \/ t.applied <= d.slot /\ d.slot \in DOMAIN t.waiters /\ t.waiters[d.slot] = w
    <3>1. /\ d.slot < LogEnd(s)
          /\ \/ s.calls[w] # NoReply
             \/ s.applied <= d.slot /\ d.slot \in DOMAIN s.waiters /\ s.waiters[d.slot] = w
      BY <1>5, <2>3 DEF CallStands
    <3>2. d.slot # e /\ d.slot < LogEnd(t)
      BY <1>2, <1>4, <2>1, <3>1
    <3> QED
      BY <1>3, <2>2, <3>1, <3>2
  <2> QED
    BY <1>3, <2>2, <2>3 DEF CallStands
<1>6. ASSUME NEW d \in CallRecord, d.slot = e, d.round = s.probe
      PROVE  CallStands(t, i, v, d)
  <2>1. v \in DOMAIN t.calls /\ d.round % N = i /\ d.round <= t.ack
    BY <1>3, <1>4, <1>6
  <2>2. d.slot < LogEnd(t) /\ t.applied <= d.slot /\ d.slot \in DOMAIN t.waiters /\ t.waiters[d.slot] = v
    BY <1>2, <1>3, <1>4, <1>6
  <2> QED
    BY <2>1, <2>2 DEF CallStands
<1> QED
  BY <1>5, <1>6 DEF CallsStay, e

\* A candidate has left its calls' rounds.
LEMMA CandidateCalls ==
    ASSUME NEW i, NEW u \in ReplicaRecord, u.ack <= u.probe, NEW r \in Nat, r > u.probe,
           NEW s, Candidacy(u, r, s)
    PROVE  CallsStay(i, u, s)
<1>1. u.ack \in Nat /\ u.probe \in Nat
  BY ReplicaFields
<1>2. s.ack = u.ack /\ s.calls = u.calls /\ s.probe = r
  BY DEF Candidacy
<1>3. \A x \in Nat : x <= u.ack => s.probe # x
  BY <1>1, <1>2
<1> QED
  BY <1>1, <1>2, <1>3, AwayCalls

\* A new leader has, too.
LEMMA LeaderCalls ==
    ASSUME NEW i, NEW u \in ReplicaRecord, u.ack < u.election, u.election = u.probe,
           NEW e, NEW t, Adopted(i, u, t, e)
    PROVE  CallsStay(i, u, t)
<1>1. u.ack \in Nat /\ u.probe \in Nat /\ u.election \in Nat
  BY ReplicaFields
<1>2. t.ack = u.election /\ t.calls = u.calls /\ t.probe = u.probe
  BY DEF Adopted
<1>3. \A x \in Nat : x <= u.ack => t.probe # x
  BY <1>1, <1>2
<1> QED
  BY <1>1, <1>2, <1>3, AwayCalls

-----------------------------------------------------------------------------
(* What a step sends.                                                       *)

\* In a step of i only i sends, and a PREPARE only in answer to a PROBE.
OnlyAnswers(i) ==
    \A p, q \in Replicas : \A m \in Flight(net')[p][q] :
       \/ m \in Flight(net)[p][q]
       \/ /\ p = i /\ q # i
          /\ m.type = "PREPARE" => \E a \in Flight(net)[q][i] : a.type = "PROBE" /\ a.round = m.round

\* A turn of a broadcast that has sent from the network n.
LEMMA TurnAnswers ==
    ASSUME NEW n, \A p, q \in Replicas : \A m \in Flight(n)[p][q] : m \in Flight(net)[p][q],
           NetType(n), NEW i \in Replicas, NEW s \in ReplicaRecord, NEW to \in SUBSET Peers(i),
           NEW kind, net' \in SendNext(n, i, s, to, kind)
    PROVE  OnlyAnswers(i)
<1>1. TakesTurn(n, i, s, to, kind, net')
  BY TurnFlight
<1>2. \A q \in to : Turn(s, q, kind).type \in {"PROBE", "PROPOSE"}
  BY DEF Turn, Probe, ProposeTo
<1>3. \A p, q \in Replicas : \A m \in Flight(net')[p][q] :
         \/ m \in Flight(n)[p][q]
         \/ p = i /\ q \in to /\ q # i /\ m = Turn(s, q, kind)
  BY <1>1 DEF TakesTurn
<1> QED
  BY <1>2, <1>3 DEF OnlyAnswers

\* A message that is taken.
LEMMA TakenAnswers ==
    ASSUME NetType(net), NEW i \in Replicas, NEW j \in Incoming(i), net' = Taken(i, j)
    PROVE  OnlyAnswers(i)
BY TakenFlight DEF OnlyAnswers

\* A reply to j.
LEMMA ReplyAnswers ==
    ASSUME NetType(net), NEW i \in Replicas, NEW j \in Incoming(i), NEW m \in Message,
           NEW out, out[j] = m, net' \in Sent(Taken(i, j), i, {j}, out),
           m.type = "PREPARE" => \E a \in Flight(net)[j][i] : a.type = "PROBE" /\ a.round = m.round
    PROVE  OnlyAnswers(i)
<1> DEFINE n1 == Taken(i, j)
<1>1. j \in Replicas /\ j # i
  BY IncomingIs
<1>2. NetType(n1) /\ \A p, q \in Replicas : \A b \in Flight(n1)[p][q] : b \in Flight(net)[p][q]
  BY TakenFlight
<1>3. net' \in Sent(n1, i, {j}, out)
  OBVIOUS
<1> HIDE DEF n1
<1>4. Sends(n1, i, {j}, out, net')
  BY <1>1, <1>2, <1>3 DEF Sends
<1>5. \A p, q \in Replicas : \A b \in Flight(net')[p][q] :
         \/ b \in Flight(n1)[p][q]
         \/ p = i /\ q \in {j} /\ b = out[q]
  BY <1>4, SentFlight
<1>6. \A p, q \in Replicas : \A b \in Flight(net')[p][q] :
         \/ b \in Flight(net)[p][q]
         \/ p = i /\ q = j /\ b = m
  BY <1>2, <1>5
<1> QED
  BY <1>1, <1>6 DEF OnlyAnswers

\* The messages of i.
LEMMA ReceiveAnswers ==
    ASSUME NEW c, Whole(rep, net, c), NEW i \in Replicas, NEW j \in Incoming(i), Receive(i, j),
           rep'[i] \in ReplicaRecord
    PROVE  OnlyAnswers(i)
<1>1. NetType(net) /\ rep \in [Replicas -> ReplicaRecord]
  BY WholeFacts
<1>2. \/ ReceiveStale(i, j) \/ ReceiveProbe(i, j) \/ ReceivePrepare(i, j)
      \/ ReceiveAsLeader(i, j) \/ ReceivePropose(i, j)
  BY DEF Receive
<1>3. CASE ReceiveStale(i, j) \/ ReceivePrepare(i, j) \/ ReceiveAsLeader(i, j)
  <2>1. net' = Taken(i, j)
    BY <1>3 DEF ReceiveStale, ReceivePrepare, ReceiveAsLeader
  <2> QED
    BY <1>1, <2>1, TakenAnswers
<1>4. CASE ReceiveProbe(i, j)
  <2> DEFINE a == Msg(i, j)
             s == StepDown(rep[i], j, a)
             m == Prepare(i, s, a.round)
             out == [p \in {j} |-> m]
  <2>1. a \in Flight(net)[j][i] /\ a.round \in Nat /\ a.type = "PROBE"
    BY <1>1, <1>4, IncomingIs DEF ReceiveProbe, Gets
  <2>2. net' \in Sent(Taken(i, j), i, {j}, out) /\ rep' = [rep EXCEPT ![i] = s]
    BY <1>4 DEF ReceiveProbe
  <2>3. s \in ReplicaRecord
    <3> HIDE DEF s
    <3> QED
      BY <1>1, <2>2
  <2> HIDE DEF a, s
  <2>4. m \in Message /\ m.round = a.round
    BY <2>1, <2>3, PrepareIs
  <2>5. out[j] = m
    OBVIOUS
  <2> HIDE DEF m, out
  <2> QED
    BY <1>1, <2>1, <2>2, <2>4, <2>5, ReplyAnswers
<1>5. CASE ReceivePropose(i, j)
  <2>1. PICK t : rep' = [rep EXCEPT ![i] = t] /\ net' \in Sent(Taken(i, j), i, {j}, [p \in {j} |-> Ack(t)])
    BY <1>5 DEF ReceivePropose
  <2>2. t \in ReplicaRecord
    BY <1>1, <2>1
  <2>3. Ack(t) \in Message /\ Ack(t).type = "ACK"
    BY <2>2, AckIs
  <2> DEFINE m == Ack(t)
             out == [p \in {j} |-> m]
  <2>4. out[j] = m /\ net' \in Sent(Taken(i, j), i, {j}, out)
    BY <2>1
  <2>5. m \in Message /\ m.type # "PREPARE"
    BY <2>3
  <2> HIDE DEF m, out
  <2> QED
    BY <1>1, <2>4, <2>5, ReplyAnswers
<1> QED
  BY <1>2, <1>3, <1>4, <1>5

-----------------------------------------------------------------------------
(* Every step leaves the coroutines what they go on with.                   *)

\* The state after a step that keeps the replicas' invariant.
LEMMA ProgressFacts ==
    ASSUME NEW c, Progress(c), NEW i \in Replicas
    PROVE  NetType(net') /\ rep' \in [Replicas -> ReplicaRecord] /\ rep'[i] \in ReplicaRecord
<1>1. PICK d \in Seq(Requests) : Whole(rep', net', d)
  BY DEF Progress
<1>2. NetType(net') /\ Core(rep', Flight(net'), d)
  BY <1>1 DEF Whole, State
<1> QED
  BY <1>2, StateFields DEF Core, Typed

\* The other replicas' coroutines find what they did.
LEMMA OtherStands ==
    ASSUME NetType(net), NetType(net'), NEW i \in Replicas, OnlyAnswers(i), NEW q \in Replicas,
           q # i, rep'[q] = rep[q], run'[q] = run[q], proposing'[q] = proposing[q],
           run[q].to \subseteq Peers(q), Stands(q)
    PROVE  Stands(q)'
<1> DEFINE b == run[q]
           r == rep[q].election
<1>1. RunStands(rep[q], net, q, b)
  BY DEF Stands
<1>2. ASSUME b.kind = "probe", NEW p \in b.to \cup {q}
      PROVE  Unasked(net', q, p, r)
  <2>1. p \in Replicas
    BY DEF Peers
  <2>2. Unasked(net, q, p, r)
    BY <1>1, <1>2 DEF RunStands
  <2> HIDE DEF r
  <2>3. /\ \A m \in Flight(net)[q][p] : m.type = "PROBE" => m.round # r
        /\ \A m \in Flight(net)[p][q] : m.type = "PREPARE" => m.round # r
    BY <2>1, <2>2, UnaskedIs
  <2>4. \A m \in Flight(net')[q][p] : m.type = "PROBE" => m.round # r
    BY <2>1, <2>3 DEF OnlyAnswers
  <2>5. \A m \in Flight(net')[p][q] : m.type = "PREPARE" => m.round # r
    BY <2>1, <2>3 DEF OnlyAnswers
  <2> QED
    BY <2>1, <2>4, <2>5, UnaskedIs
<1>3. RunStands(rep[q], net', q, b)
  BY <1>1, <1>2 DEF RunStands
<1>4. RunStands(rep'[q], net', q, run'[q])
  BY <1>3
<1>5. \A v \in DOMAIN proposing'[q] : CallStands(rep'[q], q, v, proposing'[q][v])
  BY DEF Stands
<1> QED
  BY <1>4, <1>5 DEF Stands

\* i takes a step and leaves the others alone.
OnlyOf(i) ==
    /\ NetType(net) /\ NetType(net') /\ OnlyAnswers(i)
    /\ \A q \in Replicas \ {i} : rep'[q] = rep[q] /\ run'[q] = run[q] /\ proposing'[q] = proposing[q]

\* It is enough to look at its own coroutines.
LEMMA StandsStep ==
    ASSUME Standing, SuspendedTypes', NEW i \in Replicas, OnlyOf(i),
           RunStands(rep'[i], net', i, run'[i]),
           \A v \in DOMAIN proposing'[i] : CallStands(rep'[i], i, v, proposing'[i][v])
    PROVE  Standing'
<1>1. Stands(i)'
  BY DEF Stands
<1>2. ASSUME NEW q \in Replicas, q # i
      PROVE  Stands(q)'
  <2>1. run[q].to \subseteq Peers(q) /\ Stands(q)
    BY SuspendedTypesAt DEF Standing
  <2>2. rep'[q] = rep[q] /\ run'[q] = run[q] /\ proposing'[q] = proposing[q]
    BY <1>2 DEF OnlyOf
  <2> QED
    BY <1>2, <2>1, <2>2, OtherStands DEF OnlyOf
<1>3. \A q \in Replicas : Stands(q)'
  BY <1>1, <1>2
<1> QED
  BY <1>3 DEF Standing

\* Its calls, if the step is none of them.
LEMMA CallsCarried ==
    ASSUME Standing, NEW i \in Replicas, proposing'[i] = proposing[i],
           CallsStay(i, rep[i], rep'[i])
    PROVE  \A v \in DOMAIN proposing'[i] : CallStands(rep'[i], i, v, proposing'[i][v])
<1> SUFFICES ASSUME NEW v \in DOMAIN proposing[i]
             PROVE  CallStands(rep'[i], i, v, proposing[i][v])
  OBVIOUS
<1>1. CallStands(rep[i], i, v, proposing[i][v]) /\ proposing[i][v] \in CallRecord
  BY SuspendedTypesAt DEF Standing, Stands
<1> QED
  BY <1>1 DEF CallsStay

\* A leader's broadcasts.
LEMMA LeaderRun ==
    ASSUME NEW i, NEW s, NEW n, NEW b, RunStands(s, n, i, b), s.leader = i,
           NEW t, t.leader = i, NEW n2
    PROVE  RunStands(t, n2, i, b)
BY DEF RunStands

\* No broadcast.
LEMMA IdleRun ==
    ASSUME NEW i, NEW t, NEW n2
    PROVE  RunStands(t, n2, i, Idle)
BY DEF RunStands, Idle

\* A broadcast of PROPOSEs.
LEMMA ProposeRun ==
    ASSUME NEW i, NEW t, t.leader = i, NEW n2, NEW b, b.kind = "propose"
    PROVE  RunStands(t, n2, i, b)
BY DEF RunStands

\* A broadcast of PROBEs after a turn.
LEMMA ProbeRun ==
    ASSUME NEW i \in Replicas, NEW s, NEW n, NEW to \in SUBSET Peers(i), NEW n2,
           TakesTurn(n, i, s, to, "probe", n2),
           s.leader # i, s.prepares = <<>>, s.election = s.probe, s.election % N = i,
           \A p \in to \cup {i} : Unasked(n, i, p, s.election),
           NEW b, b.kind = "probe", b.to = LaterPeers(to)
    PROVE  RunStands(s, n2, i, b)
<1> DEFINE r == s.election
<1>1. ASSUME NEW p \in b.to \cup {i}
      PROVE  Unasked(n2, i, p, r)
  <2>1. p \in to \cup {i} /\ (p = i \/ p # Min(to)) /\ p \in Replicas
    BY DEF LaterPeers, Peers
  <2>2. Unasked(n, i, p, r)
    BY <2>1
  <2>3. n2[i][p] = n[i][p]
    BY <2>1 DEF TakesTurn
  <2>4. n2[p][i] = n[p][i]
    BY <2>1 DEF TakesTurn
  <2> HIDE DEF r
  <2> QED
    BY <2>2, <2>3, <2>4 DEF Unasked
<1> QED
  BY <1>1 DEF RunStands

\* A call begins.
LEMMA CallStanding ==
    ASSUME NEW c, Whole(rep, net, c), Progress(c), Standing, NEW i \in Replicas,
           NEW v \in Requests, Call(i, v)
    PROVE  Standing'
<1> DEFINE s == Enqueue(i, rep[i], v)
           d == [to |-> LaterPeers(Peers(i)), slot |-> rep[i].next, round |-> rep[i].probe]
<1>1. /\ rep \in [Replicas -> ReplicaRecord] /\ rep[i] \in ReplicaRecord /\ NetType(net)
      /\ NetType(net') /\ rep'[i] \in ReplicaRecord
      /\ rep[i].next \in Nat /\ rep[i].probe \in Nat
  BY WholeFacts, ProgressFacts, ReplicaFields
<1>2. /\ Leads(rep, i) /\ v \notin DOMAIN rep[i].calls /\ rep' = [rep EXCEPT ![i] = s]
      /\ net' \in SendNext(net, i, s, Peers(i), "propose") /\ run' = run
  BY DEF Call, Submitted, Leads
<1>3. s = Enqueue(i, rep[i], v)
  OBVIOUS
<1> HIDE DEF s
<1>4. rep'[i] = s /\ \A q \in Replicas \ {i} : rep'[q] = rep[q]
  BY <1>1, <1>2
<1>5. /\ SuspendedTypes' /\ CallAdded(proposing[i], v, d, proposing'[i])
      /\ \A q \in Replicas \ {i} : proposing'[q] = proposing[q]
  BY <1>1, CallKeepsTypes DEF Standing
<1>6. d \in CallRecord /\ d.slot = rep[i].next /\ d.round = rep[i].probe
  <2>1. "probe" \in {"probe", "propose"}
    OBVIOUS
  <2> QED
    BY <1>1, <2>1, NewRecords
<1> HIDE DEF d
<1>7. OnlyAnswers(i)
  <2>1. Peers(i) \in SUBSET Peers(i)
    OBVIOUS
  <2> QED
    BY <1>1, <1>2, <1>4, <2>1, TurnAnswers
<1>8. OnlyOf(i)
  BY <1>1, <1>2, <1>4, <1>5, <1>7 DEF OnlyOf
<1>9. RunStands(rep'[i], net', i, run'[i])
  <2>1. Enqueued(i, rep[i], v, s)
    BY <1>1, <1>3, EnqueueIs
  <2>2. rep[i].leader = i /\ rep'[i].leader = i
    BY <1>2, <1>4, <2>1 DEF Enqueued, Leads
  <2>3. RunStands(rep[i], net, i, run[i])
    BY DEF Standing, Stands
  <2> QED
    BY <1>2, <2>2, <2>3, LeaderRun
<1>10. /\ CallsStay(i, rep[i], s)
       /\ \A x \in CallRecord : x.slot = rep[i].next /\ x.round = rep[i].probe => CallStands(s, i, v, x)
  <2>1. /\ rep[i].next = LogEnd(rep[i]) /\ rep[i].applied <= LogEnd(rep[i])
        /\ rep[i].ack = rep[i].probe /\ rep[i].probe % N = i
    BY <1>2, WholeFacts DEF LeaderIndices, ReplicaRounds, Owner
  <2> QED
    BY <1>1, <1>2, <1>3, <2>1, EnqueuedCalls
<1>11. \A w \in DOMAIN proposing'[i] : CallStands(rep'[i], i, w, proposing'[i][w])
  <2> SUFFICES ASSUME NEW w \in DOMAIN proposing'[i]
               PROVE  CallStands(s, i, w, proposing'[i][w])
    BY <1>4
  <2>1. CASE w = v
    BY <1>5, <1>6, <1>10, <2>1 DEF CallAdded
  <2>2. CASE w # v
    <3>1. w \in DOMAIN proposing[i] /\ proposing'[i][w] = proposing[i][w]
      BY <1>5, <2>2 DEF CallAdded
    <3>2. CallStands(rep[i], i, w, proposing[i][w]) /\ proposing[i][w] \in CallRecord
      BY <3>1, SuspendedTypesAt DEF Standing, Stands
    <3> QED
      BY <1>10, <3>1, <3>2 DEF CallsStay
  <2> QED
    BY <2>1, <2>2
<1> QED
  BY <1>5, <1>8, <1>9, <1>11, StandsStep

\* A call goes on in its own round.
LEMMA ResumeCallStanding ==
    ASSUME NEW c, Whole(rep, net, c), Progress(c), Standing, NEW i \in Replicas,
           NEW v \in DOMAIN proposing[i], ResumeCall(i, v), Leads(rep, i)
    PROVE  Standing'
<1>1. /\ rep[i] \in ReplicaRecord /\ NetType(net) /\ NetType(net')
  BY WholeFacts, ProgressFacts
<1>2. /\ net' \in SendNext(net, i, rep[i], proposing[i][v].to, "propose")
      /\ rep' = rep /\ run' = run
  BY DEF ResumeCall
<1>3. /\ SuspendedTypes' /\ CallResumed(proposing[i], v, proposing'[i])
      /\ \A q \in Replicas \ {i} : proposing'[q] = proposing[q]
  BY ResumeKeepsTypes DEF Standing
<1>4. proposing[i][v].to \in SUBSET Peers(i)
  BY SuspendedTypesAt DEF Standing
<1>5. OnlyAnswers(i)
  BY <1>1, <1>2, <1>4, TurnAnswers
<1>6. OnlyOf(i)
  BY <1>1, <1>2, <1>3, <1>5 DEF OnlyOf
<1>7. RunStands(rep'[i], net', i, run'[i])
  <2>1. RunStands(rep[i], net, i, run[i]) /\ rep[i].leader = i
    BY DEF Standing, Stands, Leads
  <2> QED
    BY <1>2, <2>1, LeaderRun
<1>8. \A w \in DOMAIN proposing'[i] : CallStands(rep'[i], i, w, proposing'[i][w])
  <2> SUFFICES ASSUME NEW w \in DOMAIN proposing'[i]
               PROVE  CallStands(rep[i], i, w, proposing'[i][w])
    BY <1>2
  <2>1. /\ w \in DOMAIN proposing[i] /\ proposing'[i][w].slot = proposing[i][w].slot
        /\ proposing'[i][w].round = proposing[i][w].round
    BY <1>3 DEF CallResumed
  <2>2. CallStands(rep[i], i, w, proposing[i][w])
    BY <2>1 DEF Standing, Stands
  <2> QED
    BY <2>1, <2>2 DEF CallStands
<1> QED
  BY <1>3, <1>6, <1>7, <1>8, StandsStep

\* What a replica applies is what apply_decided says.
LEMMA AppliesAt ==
    ASSUME NEW R, NEW n, NEW c, State(R, n, c), NEW i \in Replicas, Leads(R, i) \/ Tallied(R[i]),
           NEW R2, Becomes(R, R2, i, ApplyDecided(i, R[i]))
    PROVE  /\ Applied(i, R[i], R2[i]) /\ R2[i] \in ReplicaRecord /\ CallsStay(i, R[i], R2[i])
           /\ R2[i].leader = R[i].leader /\ R2[i].probe = R[i].probe
           /\ R2[i].ack = R[i].ack /\ R2[i].election = R[i].election
           /\ R2[i].prepares = R[i].prepares
<1>1. Core(R, n, c)
  BY DEF State
<1>2. Applied(i, R[i], R2[i])
  BY <1>1, LeaderApplies, FollowerApplies
<1>3. R[i] \in ReplicaRecord /\ R[i].base <= R[i].applied /\ R[i].applied <= LogEnd(R[i])
  BY <1>1, StateFields
<1>4. CallsStay(i, R[i], R2[i])
  BY <1>2, <1>3, AppliedCalls
<1> QED
  BY <1>2, <1>4 DEF Applied, SameRole

\* A call's sends are over.
LEMMA FinishCallStanding ==
    ASSUME NEW c, Whole(rep, net, c), Progress(c), Standing, NEW i \in Replicas,
           NEW v \in DOMAIN proposing[i], FinishCall(i, v)
    PROVE  Standing'
<1> DEFINE s == ApplyDecided(i, rep[i])
           slot == proposing[i][v].slot
           t == Returns(s, slot)
           R1 == [rep EXCEPT ![i] = s]
<1>1. /\ rep \in [Replicas -> ReplicaRecord] /\ rep[i] \in ReplicaRecord /\ NetType(net)
      /\ NetType(net') /\ State(rep, Flight(net), c) /\ Tallied(rep[i])
  BY WholeFacts, ProgressFacts
<1>2. rep' = [rep EXCEPT ![i] = t] /\ net' = net /\ run' = run
  BY DEF FinishCall
<1>3. slot \in Nat
  BY SuspendedTypesAt DEF Standing
<1>4. Becomes(rep, R1, i, s)
  BY DEF Becomes
<1>5. R1[i] = s
  <2> HIDE DEF s
  <2> QED
    BY <1>1
<1> HIDE DEF R1
<1>6. /\ R1[i] \in ReplicaRecord /\ CallsStay(i, rep[i], R1[i])
      /\ R1[i].leader = rep[i].leader /\ R1[i].probe = rep[i].probe
      /\ R1[i].election = rep[i].election /\ R1[i].prepares = rep[i].prepares
  BY <1>1, <1>4, AppliesAt
<1> HIDE DEF s, slot
<1>7. SameRole(R1[i], t) /\ CallsStay(i, R1[i], t)
  BY <1>3, <1>5, <1>6, ReturnsIs, ReturnsCalls
<1> HIDE DEF t
<1>8. rep'[i] = t /\ \A q \in Replicas \ {i} : rep'[q] = rep[q]
  BY <1>1, <1>2
<1>9. /\ SuspendedTypes' /\ CallRemoved(proposing[i], v, proposing'[i])
      /\ \A q \in Replicas \ {i} : proposing'[q] = proposing[q]
  BY FinishKeepsTypes DEF Standing
<1>10. OnlyOf(i)
  <2>1. OnlyAnswers(i)
    BY <1>2 DEF OnlyAnswers
  <2> QED
    BY <1>1, <1>2, <1>8, <1>9, <2>1 DEF OnlyOf
<1>11. RunStands(rep'[i], net', i, run'[i])
  <2>1. /\ t.leader = rep[i].leader /\ t.probe = rep[i].probe
        /\ t.election = rep[i].election /\ t.prepares = rep[i].prepares
    BY <1>6, <1>7 DEF SameRole
  <2>2. RunStands(rep[i], net, i, run[i])
    BY DEF Standing, Stands
  <2>3. RunStands(t, net, i, run[i])
    BY <2>1, <2>2 DEF RunStands
  <2> QED
    BY <1>2, <1>8, <2>3
<1>12. CallsStay(i, rep[i], t)
  BY <1>6, <1>7, StayTwice
<1>13. \A w \in DOMAIN proposing'[i] : CallStands(rep'[i], i, w, proposing'[i][w])
  <2> SUFFICES ASSUME NEW w \in DOMAIN proposing'[i]
               PROVE  CallStands(t, i, w, proposing'[i][w])
    BY <1>8
  <2>1. w \in DOMAIN proposing[i] /\ proposing'[i][w] = proposing[i][w]
    BY <1>9 DEF CallRemoved
  <2>2. CallStands(rep[i], i, w, proposing[i][w]) /\ proposing[i][w] \in CallRecord
    BY <2>1, SuspendedTypesAt DEF Standing, Stands
  <2> QED
    BY <1>12, <2>1, <2>2 DEF CallsStay
<1> QED
  BY <1>9, <1>10, <1>11, <1>13, StandsStep

\* A broadcast of run() begins: its first turn has sent from the network n.
Begins(n, i, s, kind) ==
    /\ Broadcast(n, i, s, kind) /\ kind \in {"probe", "propose"}
    /\ \A p, q \in Replicas : \A m \in Flight(n)[p][q] : m \in Flight(net)[p][q]
    /\ NetType(n)

\* What it leaves of the others.
LEMMA BroadcastStanding ==
    ASSUME NEW c, Whole(rep, net, c), Progress(c), Standing, NEW i \in Replicas,
           NEW n, NEW s, NEW kind, Begins(n, i, s, kind), CallsStay(i, rep[i], s),
           RunStands(s, net', i, run'[i])
    PROVE  Standing'
<1>1. /\ rep \in [Replicas -> ReplicaRecord] /\ NetType(net) /\ NetType(net')
      /\ rep'[i] \in ReplicaRecord
  BY WholeFacts, ProgressFacts
<1>2. /\ rep' = [rep EXCEPT ![i] = s] /\ net' \in SendNext(n, i, s, Peers(i), kind)
      /\ proposing' = proposing
  BY DEF Begins, Broadcast
<1>3. rep'[i] = s /\ \A q \in Replicas \ {i} : rep'[q] = rep[q]
  BY <1>1, <1>2
<1>4. SuspendedTypes' /\ \A q \in Replicas \ {i} : run'[q] = run[q]
  BY BroadcastKeepsTypes DEF Standing, Begins
<1>5. OnlyAnswers(i)
  <2>1. Peers(i) \in SUBSET Peers(i)
    OBVIOUS
  <2> QED
    BY <1>1, <1>2, <1>3, <2>1, TurnAnswers DEF Begins
<1>6. OnlyOf(i)
  BY <1>1, <1>2, <1>3, <1>4, <1>5 DEF OnlyOf
<1>7. \A v \in DOMAIN proposing'[i] : CallStands(rep'[i], i, v, proposing'[i][v])
  BY <1>2, <1>3, CallsCarried
<1>8. RunStands(rep'[i], net', i, run'[i])
  BY <1>3
<1> QED
  BY <1>4, <1>6, <1>7, <1>8, StandsStep

\* An election begins.
LEMMA ElectStanding ==
    ASSUME NEW c, Whole(rep, net, c), Progress(c), Standing, NEW i \in Replicas, BeginElection(i)
    PROVE  Standing'
<1> DEFINE r == ElectionRound(i)
           s == Candidate(i, rep[i])
<1>1. /\ rep[i] \in ReplicaRecord /\ NetType(net) /\ rep[i].probe \in Nat /\ rep[i].ack <= rep[i].probe
  BY WholeFacts, ReplicaFields DEF ReplicaRounds
<1>2. r \in Nat /\ r > rep[i].probe /\ r % N = i
  BY <1>1, ElectionRoundIsOwn DEF ElectionRound, Owner
<1>3. Candidacy(rep[i], r, s)
  BY <1>1, <1>2, CandidateFields
<1>4. Broadcast(net, i, s, "probe") /\ rep[i].leader # i
  BY DEF BeginElection
<1>5. Begins(net, i, s, "probe")
  BY <1>1, <1>4 DEF Begins
<1>6. net' \in SendNext(net, i, s, Peers(i), "probe")
  BY <1>4 DEF Broadcast
<1> HIDE DEF r, s
<1>7. CallsStay(i, rep[i], s)
  BY <1>1, <1>2, <1>3, CandidateCalls
<1>8. /\ s \in ReplicaRecord /\ s.election = r /\ s.probe = r /\ s.prepares = <<>> /\ s.leader # i
  BY <1>3, <1>4 DEF Candidacy
<1>9. RunStands(s, net', i, run'[i])
  <2>1. Peers(i) \in SUBSET Peers(i)
    OBVIOUS
  <2>2. TakesTurn(net, i, s, Peers(i), "probe", net')
    BY <1>1, <1>6, <1>8, <2>1, TurnFlight
  <2>3. \A p \in Peers(i) \cup {i} : Unasked(net, i, p, r)
    BY <1>2, NewRoundUnasked DEF Peers
  <2>4. run'[i].kind = "probe" /\ run'[i].to = LaterPeers(Peers(i))
    BY <1>4, BroadcastKeepsTypes DEF Standing
  <2> QED
    BY <1>2, <1>8, <2>1, <2>2, <2>3, <2>4, ProbeRun
<1> QED
  BY <1>5, <1>7, <1>9, BroadcastStanding

\* A leader sends its log again.
LEMMA RetransmitStanding ==
    ASSUME NEW c, Whole(rep, net, c), Progress(c), Standing, NEW i \in Replicas, BeginRetransmit(i)
    PROVE  Standing'
<1>1. Begins(net, i, rep[i], "propose") /\ rep[i].leader = i
  BY WholeFacts DEF BeginRetransmit, Begins
<1>2. run'[i].kind = "propose"
  BY <1>1, BroadcastKeepsTypes DEF Standing, Begins
<1>3. RunStands(rep[i], net', i, run'[i])
  BY <1>1, <1>2, ProposeRun
<1>4. CallsStay(i, rep[i], rep[i])
  BY DEF CallsStay
<1> QED
  BY <1>1, <1>3, <1>4, BroadcastStanding

\* An election is won.
LEMMA WinStanding ==
    ASSUME NEW c, Whole(rep, net, c), Progress(c), Standing, NEW i \in Replicas,
           NEW j \in Incoming(i), BecomeLeader(i, j)
    PROVE  Standing'
<1> DEFINE m == Msg(i, j)
           s == rep[i]
           u == [s EXCEPT !.prepares = Append(@, m)]
           t == AdoptBest(i, u)
<1>1. /\ s \in ReplicaRecord /\ NetType(net) /\ ReplicaRounds(rep, i) /\ Core(rep, Flight(net), c)
      /\ s.ack \in Nat /\ s.probe \in Nat /\ s.election \in Nat
  BY WholeFacts, ReplicaFields DEF State
<1>2. /\ Gets(i, j, "PREPARE") /\ Counts(StepDown(s, j, m), m)
      /\ Broadcast(Taken(i, j), i,
                   AdoptBest(i, [StepDown(s, j, m) EXCEPT !.prepares = Append(@, m)]), "propose")
  BY DEF BecomeLeader
<1>3. /\ StepDown(s, j, m) = s /\ m.type = "PREPARE" /\ m.round = s.election /\ m.round = s.probe
      /\ s.prepares # <<>>
  BY <1>2, CountedIs
<1>4. Broadcast(Taken(i, j), i, t, "propose")
  BY <1>2, <1>3
<1>5. m \in PrepareMessage
  BY <1>1, <1>3, IncomingIs, MessageFields
<1> HIDE DEF m
<1>6. s.ack < s.election /\ s.election = s.probe
  BY <1>1, <1>3 DEF ReplicaRounds
<1>7. /\ u \in ReplicaRecord /\ u.prepares # <<>> /\ u.ack = s.ack /\ u.election = s.election
      /\ u.probe = s.probe /\ u.calls = s.calls /\ u.waiters = s.waiters /\ u.applied = s.applied
      /\ u.log = s.log /\ u.base = s.base
  <2> DEFINE l == Append(s.prepares, m)
  <2>1. l \in Seq(PrepareMessage) /\ l # <<>>
    <3>1. s.prepares \in Seq(PrepareMessage)
      BY <1>1, ReplicaFields
    <3> QED
      BY <1>5, <3>1, AppendProperties
  <2>2. u = [s EXCEPT !.prepares = l]
    OBVIOUS
  <2> HIDE DEF l, u
  <2> QED
    BY <1>1, <2>1, <2>2 DEF ReplicaRecord
<1>8. PICK e \in Nat : Adopted(i, u, t, e)
  BY <1>7, AdoptBestIs
<1> HIDE DEF u, t
<1>9. CallsStay(i, s, u)
  <2>1. LogEnd(u) = LogEnd(s)
    BY <1>7 DEF LogEnd
  <2> QED
    BY <1>7, <2>1, SameCalls
<1>10. CallsStay(i, u, t)
  BY <1>6, <1>7, <1>8, LeaderCalls
<1>11. CallsStay(i, s, t) /\ t.leader = i
  BY <1>8, <1>9, <1>10, StayTwice DEF Adopted
<1>12. Begins(Taken(i, j), i, t, "propose")
  BY <1>1, <1>4, TakenFlight DEF Begins
<1>13. RunStands(t, net', i, run'[i])
  <2>1. run'[i].kind = "propose"
    BY <1>4, BroadcastKeepsTypes DEF Standing
  <2> QED
    BY <1>11, <2>1, ProposeRun
<1> QED
  BY <1>11, <1>12, <1>13, BroadcastStanding

\* A broadcast of run() goes on.
LEMMA ResumeRunStanding ==
    ASSUME NEW c, Whole(rep, net, c), Progress(c), Standing, NEW i \in Replicas, ResumeRun(i)
    PROVE  Standing'
<1> DEFINE s == rep[i]
<1>1. /\ s \in ReplicaRecord /\ NetType(net) /\ NetType(net')
  BY WholeFacts, ProgressFacts
<1>2. /\ net' \in SendNext(net, i, s, run[i].to, run[i].kind)
      /\ rep' = rep /\ proposing' = proposing /\ run[i].to # {}
  BY DEF ResumeRun
<1>3. /\ SuspendedTypes' /\ run'[i].kind = run[i].kind /\ run'[i].to = LaterPeers(run[i].to)
      /\ \A q \in Replicas \ {i} : run'[q] = run[q]
  BY ResumeRunKeepsTypes DEF Standing
<1>4. run[i] \in RunRecord /\ run[i].to \in SUBSET Peers(i)
  BY SuspendedTypesAt DEF Standing
<1> HIDE DEF s
<1>5. OnlyAnswers(i)
  BY <1>1, <1>2, <1>4, TurnAnswers
<1>6. OnlyOf(i)
  BY <1>1, <1>2, <1>3, <1>5 DEF OnlyOf
<1>7. \A v \in DOMAIN proposing'[i] : CallStands(rep'[i], i, v, proposing'[i][v])
  <2>1. CallsStay(i, rep[i], rep'[i])
    BY <1>2 DEF CallsStay
  <2> QED
    BY <1>2, <2>1, CallsCarried
<1>8. RunStands(s, net, i, run[i])
  BY DEF Standing, Stands, s
<1>9. RunStands(s, net', i, run'[i])
  <2>1. run[i].kind \in {"idle", "probe", "propose"} /\ run[i].kind # "idle"
    BY <1>2, <1>4, <1>8 DEF RunRecord, RunStands, Idle
  <2>2. CASE run[i].kind = "propose"
    <3>1. s.leader = i
      BY <1>8, <2>2 DEF RunStands
    <3> QED
      BY <1>3, <2>2, <3>1, ProposeRun
  <2>3. CASE run[i].kind = "probe"
    <3>1. TakesTurn(net, i, s, run[i].to, "probe", net')
      BY <1>1, <1>2, <1>4, <2>3, TurnFlight
    <3>2. /\ s.leader # i /\ s.prepares = <<>> /\ s.election = s.probe /\ s.election % N = i
          /\ \A p \in run[i].to \cup {i} : Unasked(net, i, p, s.election)
      BY <1>8, <2>3 DEF RunStands
    <3> QED
      BY <1>3, <1>4, <2>3, <3>1, <3>2, ProbeRun
  <2> QED
    BY <2>1, <2>2, <2>3
<1>10. RunStands(rep'[i], net', i, run'[i])
  BY <1>2, <1>9 DEF s
<1> QED
  BY <1>3, <1>6, <1>7, <1>10, StandsStep

\* A broadcast of run() ends.
LEMMA FinishRunStanding ==
    ASSUME NEW c, Whole(rep, net, c), Progress(c), Standing, NEW i \in Replicas, FinishRun(i)
    PROVE  Standing'
<1> DEFINE s == rep[i]
           own == <<Prepare(i, s, s.election)>>
           u == [s EXCEPT !.prepares = own]
           t == IF run[i].kind = "probe" THEN u ELSE ApplyDecided(i, s)
<1>1. /\ rep \in [Replicas -> ReplicaRecord] /\ s \in ReplicaRecord /\ NetType(net)
      /\ NetType(net') /\ State(rep, Flight(net), c) /\ Tallied(s)
  BY WholeFacts, ProgressFacts
<1>2. rep' = [rep EXCEPT ![i] = t] /\ net' = net /\ proposing' = proposing
  BY DEF FinishRun
<1>3. CallsStay(i, s, t)
  <2>1. CASE run[i].kind = "probe"
    <3>1. /\ u.calls = s.calls /\ u.waiters = s.waiters /\ u.ack = s.ack /\ u.probe = s.probe
          /\ u.applied = s.applied /\ u.log = s.log /\ u.base = s.base
      <4> HIDE DEF own
      <4> QED
        BY <1>1 DEF ReplicaRecord
    <3> HIDE DEF u
    <3>2. LogEnd(u) = LogEnd(s)
      BY <3>1 DEF LogEnd
    <3>3. CallsStay(i, s, u)
      BY <3>1, <3>2, SameCalls
    <3> QED
      BY <2>1, <3>3
  <2>2. CASE run[i].kind # "probe"
    <3>1. Becomes(rep, rep', i, ApplyDecided(i, rep[i])) /\ t = ApplyDecided(i, rep[i])
      BY <1>2, <2>2 DEF Becomes
    <3> HIDE DEF t
    <3>2. CallsStay(i, rep[i], rep'[i])
      BY <1>1, <3>1, AppliesAt
    <3>3. rep'[i] = t
      BY <1>1, <1>2
    <3> QED
      BY <3>2, <3>3
  <2> QED
    BY <2>1, <2>2
<1> HIDE DEF t, u, own
<1>4. rep'[i] = t /\ \A q \in Replicas \ {i} : rep'[q] = rep[q]
  BY <1>1, <1>2
<1>5. SuspendedTypes' /\ run'[i] = Idle /\ \A q \in Replicas \ {i} : run'[q] = run[q]
  BY FinishRunKeepsTypes DEF Standing
<1>6. OnlyOf(i)
  <2>1. OnlyAnswers(i)
    BY <1>2 DEF OnlyAnswers
  <2> QED
    BY <1>1, <1>2, <1>4, <1>5, <2>1 DEF OnlyOf
<1>7. \A v \in DOMAIN proposing'[i] : CallStands(rep'[i], i, v, proposing'[i][v])
  BY <1>2, <1>3, <1>4, CallsCarried
<1>8. RunStands(rep'[i], net', i, run'[i])
  BY <1>5, IdleRun
<1> QED
  BY <1>5, <1>6, <1>7, <1>8, StandsStep

\* The calls of a follower that accepts a proposal keep their entries.
LEMMA AcceptKeepsCalls ==
    ASSUME NEW R, NEW W, NEW c, State(R, W, c), NEW i \in Replicas, NEW j \in Replicas, NEW m,
           Accepts(R, W, i, j, m), NEW t, t = AcceptPropose(i, R[i], m)
    PROVE  DOMAIN t.calls = DOMAIN R[i].calls
<1> DEFINE t1 == TakenOver(R[i], m)
           R1 == [R EXCEPT ![i] = t1]
           t3 == ApplyDecided(i, t1)
           R3 == [R1 EXCEPT ![i] = t3]
<1>0. R \in [Replicas -> ReplicaRecord]
  BY DEF State, Core, Typed
<1>1. Becomes(R, R1, i, t1) /\ R1[i] = t1
  <2> HIDE DEF t1
  <2> QED
    BY <1>0 DEF Becomes
<1>2. Becomes(R1, R3, i, t3) /\ R3[i] = t3
  <2> HIDE DEF t1, t3
  <2> QED
    BY <1>0 DEF Becomes
<1> HIDE DEF R1, R3
<1>3. /\ State(R1, W, c)
      /\ t = LET u == ApplyDecided(i, R1[i])
             IN  DropBelow(u, MinOf(MinOf(m.trunc, u.applied), LogEnd(u)))
      /\ R1[i].leader = R[i].leader /\ R1[i].acks = R[i].acks
      /\ R1[i].decided >= R[i].decided /\ R1[i].calls = R[i].calls
  <2> HIDE DEF t1, t3
  <2>1. Becomes(R, R1, i, TakenOver(R[i], m))
    BY <1>1 DEF t1
  <2> USE DEF Accepts
  <2>2. /\ State(R1, W, c)
        /\ t = LET u == ApplyDecided(i, R1[i])
               IN  DropBelow(u, MinOf(MinOf(m.trunc, u.applied), LogEnd(u)))
    BY <2>1, TakenOverState
  <2>3. /\ R1[i].leader = R[i].leader /\ R1[i].acks = R[i].acks /\ R1[i].decided >= R[i].decided
    BY <2>1, TakenOverState
  <2>4. R1[i].calls = R[i].calls
    BY <2>1, TakenOverCore DEF State
  <2> QED
    BY <2>2, <2>3, <2>4
<1>4. ~Leads(R1, i) /\ Tallied(R1[i])
  <2>1. R[i] \in ReplicaRecord /\ R1[i] \in ReplicaRecord
    BY <1>3, StateFields DEF State
  <2> QED
    BY <1>3, <2>1, TalliedSame DEF Leads, Accepts
<1>5. Becomes(R1, R3, i, ApplyDecided(i, R1[i])) /\ R3[i] = ApplyDecided(i, R1[i])
  BY <1>1, <1>2
<1> HIDE DEF t1, t3
<1>6. /\ Applied(i, R1[i], R3[i]) /\ R3[i] \in ReplicaRecord
  BY <1>3, <1>4, <1>5, AppliesAt
<1>7. DOMAIN R3[i].calls = DOMAIN R1[i].calls
  BY <1>6 DEF Applied, Answered
<1> DEFINE u == R3[i]
           k == MinOf(MinOf(m.trunc, u.applied), LogEnd(u))
<1>8. t = DropBelow(u, k)
  BY <1>3, <1>5
<1>9. k \in Nat /\ k <= LogEnd(u)
  <2>1. m.trunc \in Nat
    BY MessageFields DEF Accepts, State, Core, Typed
  <2>2. u.applied \in Nat /\ LogEnd(u) \in Nat
    BY <1>6, ReplicaFields
  <2> HIDE DEF u
  <2> QED
    BY <2>1, <2>2 DEF MinOf
<1> HIDE DEF k
<1>10. t.calls = u.calls
  BY <1>6, <1>8, <1>9, DropBelowIs
<1> QED
  BY <1>3, <1>7, <1>10

\* A PROPOSE takes its receiver to a round that is not its own.
LEMMA ProposeCalls ==
    ASSUME NEW c, Whole(rep, net, c), NEW i \in Replicas, NEW j \in Incoming(i), ReceivePropose(i, j)
    PROVE  CallsStay(i, rep[i], rep'[i])
<1> DEFINE m == Msg(i, j)
           s == [StepDown(rep[i], j, m) EXCEPT !.leader = j]
           shorter == m.round = s.ack /\ m.slot + Len(m.values) < LogEnd(s)
           t == IF shorter THEN s ELSE AcceptPropose(i, s, m)
           R1 == [rep EXCEPT ![i] = s]
<1>1. /\ State(rep, Flight(net), c) /\ NetType(net) /\ Tallied(rep[i]) /\ rep[i] \in ReplicaRecord
      /\ rep[i].ack \in Nat /\ rep[i].probe \in Nat /\ rep[i].ack <= rep[i].probe
      /\ rep \in [Replicas -> ReplicaRecord]
  BY WholeFacts, ReplicaFields DEF ReplicaRounds
<1>2. /\ j \in Replicas /\ j # i /\ m \in Flight(net)[j][i] /\ m.round \in Nat
  BY <1>1, IncomingIs
<1>3. /\ m.type = "PROPOSE" /\ m.round >= rep[i].probe /\ StepDown(rep[i], j, m).leader # i
      /\ rep' = [rep EXCEPT ![i] = t]
  BY DEF ReceivePropose, Gets
<1>4. Owner(m.round) = j
  <2>1. MessageRounds(rep, j, i, m)
    BY <1>1, <1>2 DEF State, Core, Rounds
  <2> QED
    BY <1>3, <2>1 DEF MessageRounds
<1>5. Becomes(rep, R1, i, s) /\ R1[i] = s /\ rep'[i] = t
  <2>1. Becomes(rep, R1, i, s)
    BY DEF Becomes
  <2> HIDE DEF s, t
  <2> QED
    BY <1>1, <1>3, <2>1
<1> HIDE DEF R1, m
<1>6. s = [rep[i] EXCEPT !.probe = m.round, !.leader = j]
  <2>1. Followed(rep[i], j, m)
    BY <1>1, <1>2, <1>3, FollowIs
  <2> QED
    BY <2>1 DEF Followed
<1> HIDE DEF s
<1> DEFINE r == m.round
<1>7. /\ s.probe = r /\ s.leader = j /\ s.acks = rep[i].acks /\ s.decided = rep[i].decided
      /\ s.ack = rep[i].ack /\ s.calls = rep[i].calls /\ s \in ReplicaRecord
  <2>1. s = [rep[i] EXCEPT !.probe = r, !.leader = j] /\ r \in Nat
    BY <1>2, <1>6
  <2> HIDE DEF r
  <2> QED
    BY <1>1, <1>2, <2>1 DEF ReplicaRecord
<1>8. State(R1, Flight(net), c)
  <2>1. r > rep[i].probe \/ ~Leads(rep, i)
    <3>1. r = rep[i].probe => StepDown(rep[i], j, m) = rep[i]
      BY <1>2 DEF StepDown
    <3> QED
      BY <1>1, <1>2, <1>3, <3>1 DEF Leads
  <2>2. Becomes(rep, R1, i, [rep[i] EXCEPT !.probe = r, !.leader = j])
    BY <1>5, <1>6
  <2>3. r \in Nat /\ r >= rep[i].probe
    BY <1>2, <1>3
  <2> HIDE DEF r
  <2> QED
    BY <1>1, <1>2, <2>1, <2>2, <2>3, FollowsState
<1>9. t.probe = r /\ t.ack \in Nat /\ t.ack >= rep[i].ack /\ DOMAIN t.calls = DOMAIN rep[i].calls
  <2>1. CASE shorter
    BY <1>1, <1>7, <2>1
  <2>2. CASE ~shorter
    <3> DEFINE a == AcceptPropose(i, R1[i], m)
               R2 == [R1 EXCEPT ![i] = a]
    <3>1. t = a
      BY <1>5, <2>2
    <3>2. Accepts(R1, Flight(net), i, j, m)
      <4>1. ~Leads(R1, i)
        BY <1>2, <1>5, <1>7 DEF Leads
      <4>2. Tallied(R1[i])
        <5>1. s.decided >= rep[i].decided
          BY <1>1, <1>7, ReplicaFields
        <5> QED
          BY <1>1, <1>5, <1>7, <5>1, TalliedSame
      <4>3. ~(m.round = R1[i].ack /\ m.slot + Len(m.values) < LogEnd(R1[i])) /\ m.round = R1[i].probe
        BY <1>5, <1>7, <2>2
      <4> QED
        BY <1>2, <1>3, <4>1, <4>2, <4>3 DEF Accepts
    <3>3. Becomes(R1, R2, i, AcceptPropose(i, R1[i], m))
      BY DEF Becomes
    <3>4. R2[i] = a
      <4> HIDE DEF a
      <4>1. R1 \in [Replicas -> ReplicaRecord]
        BY <1>8 DEF State, Core, Typed
      <4> QED
        BY <4>1
    <3> HIDE DEF R2
    <3>5. R2[i].ack = m.round /\ R2[i].probe = m.round
      BY <1>2, <1>8, <3>2, <3>3, AcceptState
    <3>6. DOMAIN a.calls = DOMAIN R1[i].calls
      BY <1>2, <1>8, <3>2, AcceptKeepsCalls
    <3> HIDE DEF a, t
    <3> QED
      BY <1>1, <1>2, <1>3, <1>5, <1>7, <3>1, <3>4, <3>5, <3>6
  <2> QED
    BY <2>1, <2>2
<1> HIDE DEF t
<1>10. \A x \in Nat : x <= rep[i].ack /\ x % N = i => t.probe # x
  BY <1>2, <1>4, <1>9 DEF Owner
<1>11. CallsStay(i, rep[i], t)
  BY <1>1, <1>9, <1>10, AwayCalls
<1> QED
  BY <1>5, <1>11

\* A leader counts and applies.
LEMMA LeaderReceiveCalls ==
    ASSUME NEW c, Whole(rep, net, c), NEW i \in Replicas, NEW j \in Incoming(i), ReceiveAsLeader(i, j)
    PROVE  CallsStay(i, rep[i], rep'[i])
<1> DEFINE m == Msg(i, j)
           s == StepDown(rep[i], j, m)
           t == IF m.type = "ACK" THEN [s EXCEPT !.acks[j] = MaxOf(@, m.slot)] ELSE s
           R1 == [rep EXCEPT ![i] = t]
<1>1. State(rep, Flight(net), c) /\ NetType(net) /\ rep[i] \in ReplicaRecord /\ rep[i].probe \in Nat
  BY WholeFacts, ReplicaFields
<1>2. j \in Replicas /\ j # i /\ m \in Flight(net)[j][i] /\ m.round \in Nat
  BY <1>1, IncomingIs
<1>3. /\ m.round >= rep[i].probe /\ s.leader = i /\ rep' = [rep EXCEPT ![i] = ApplyDecided(i, t)]
  BY DEF ReceiveAsLeader, Gets
<1>4. s = rep[i] /\ m.round = rep[i].probe /\ Leads(rep, i)
  <2> HIDE DEF m
  <2>1. ~(m.round > rep[i].probe)
    <3> SUFFICES ASSUME m.round > rep[i].probe
                 PROVE  FALSE
      OBVIOUS
    <3>1. s.leader = j
      BY <1>1, <1>2, <1>3, StepDownIs
    <3> QED
      BY <1>2, <1>3, <3>1
  <2>2. s = rep[i]
    BY <2>1 DEF StepDown
  <2> QED
    BY <1>1, <1>2, <1>3, <2>1, <2>2 DEF Leads
<1>5. Becomes(rep, R1, i, t) /\ R1[i] = t /\ Becomes(R1, rep', i, ApplyDecided(i, t))
  <2>1. Becomes(rep, R1, i, t) /\ Becomes(rep, rep', i, ApplyDecided(i, t))
    BY <1>3 DEF Becomes
  <2> HIDE DEF R1, t
  <2> QED
    BY <1>1, <2>1, BecomesTwice
<1> HIDE DEF R1, s, m
<1>6. State(R1, Flight(net), c) /\ Leads(R1, i) /\ CallsStay(i, rep[i], R1[i])
  <2>1. CASE m.type = "ACK"
    <3> DEFINE a == [rep[i].acks EXCEPT ![j] = MaxOf(@, m.slot)]
    <3>1. m.round = rep[i].ack
      BY <1>1, <1>4 DEF State, Core, Rounds, ReplicaRounds
    <3>2. Becomes(rep, R1, i, [rep[i] EXCEPT !.acks[j] = MaxOf(@, m.slot)])
      BY <1>4, <1>5, <2>1
    <3>3. State(R1, Flight(net), c)
      BY <1>1, <1>2, <1>4, <2>1, <3>1, <3>2, CountsState
    <3>4. t = [rep[i] EXCEPT !.acks = a]
      BY <1>4, <2>1
    <3> HIDE DEF a, t
    <3>5. /\ t.calls = rep[i].calls /\ t.waiters = rep[i].waiters /\ t.ack = rep[i].ack
          /\ t.probe = rep[i].probe /\ t.applied = rep[i].applied /\ t.leader = rep[i].leader
          /\ t.log = rep[i].log /\ t.base = rep[i].base
      BY <1>1, <3>4 DEF ReplicaRecord
    <3>6. LogEnd(t) = LogEnd(rep[i])
      BY <3>5 DEF LogEnd
    <3>7. CallsStay(i, rep[i], t)
      BY <3>5, <3>6, SameCalls
    <3> QED
      BY <1>4, <1>5, <3>3, <3>5, <3>7 DEF Leads
  <2>2. CASE m.type # "ACK"
    <3>1. R1 = [rep EXCEPT ![i] = rep[i]]
      BY <1>4, <1>5, <2>2 DEF Becomes
    <3>2. R1 = rep
      BY <1>1, <3>1 DEF State, Core, Typed
    <3> QED
      BY <1>1, <1>4, <3>2 DEF CallsStay
  <2> QED
    BY <2>1, <2>2
<1>7. Becomes(R1, rep', i, ApplyDecided(i, R1[i]))
  BY <1>5
<1> HIDE DEF t
<1>8. CallsStay(i, R1[i], rep'[i])
  BY <1>6, <1>7, AppliesAt
<1> QED
  BY <1>6, <1>8, StayTwice

\* A message that starts no broadcast.
LEMMA ReceiveCalls ==
    ASSUME NEW c, Whole(rep, net, c), NEW i \in Replicas, NEW j \in Incoming(i), Receive(i, j)
    PROVE  CallsStay(i, rep[i], rep'[i]) /\ \A q \in Replicas \ {i} : rep'[q] = rep[q]
<1> DEFINE m == Msg(i, j)
           s == StepDown(rep[i], j, m)
<1>1. /\ NetType(net) /\ rep[i] \in ReplicaRecord /\ rep[i].ack <= rep[i].probe
      /\ rep \in [Replicas -> ReplicaRecord]
  BY WholeFacts DEF ReplicaRounds
<1>2. j \in Replicas /\ m.round \in Nat /\ m.round >= rep[i].probe => s \in ReplicaRecord
  BY <1>1, StepDownIs
<1>3. j \in Replicas /\ m.round \in Nat /\ CallsStay(i, rep[i], s)
  BY <1>1, IncomingIs, StepDownCalls
<1> HIDE DEF s
<1>4. \/ ReceiveStale(i, j) \/ ReceiveProbe(i, j) \/ ReceivePrepare(i, j)
      \/ ReceiveAsLeader(i, j) \/ ReceivePropose(i, j)
  BY DEF Receive
<1>5. CASE ReceiveStale(i, j)
  BY <1>5 DEF ReceiveStale, CallsStay
<1>6. CASE ReceiveProbe(i, j)
  <2>1. rep' = [rep EXCEPT ![i] = s]
    BY <1>6 DEF ReceiveProbe, s
  <2> QED
    BY <1>1, <1>3, <2>1
<1>7. CASE ReceivePrepare(i, j)
  <2> DEFINE l == Append(s.prepares, m)
             u == [s EXCEPT !.prepares = l]
  <2>1. rep' = [rep EXCEPT ![i] = IF Counts(s, m) THEN u ELSE s] /\ m.round >= rep[i].probe
    BY <1>7 DEF ReceivePrepare, Gets, s
  <2>2. s \in ReplicaRecord
    BY <1>2, <1>3, <2>1
  <2> HIDE DEF l
  <2>3. /\ u.calls = s.calls /\ u.waiters = s.waiters /\ u.ack = s.ack /\ u.probe = s.probe
        /\ u.applied = s.applied /\ u.log = s.log /\ u.base = s.base
    BY <2>2 DEF ReplicaRecord
  <2> HIDE DEF u
  <2>4. LogEnd(u) = LogEnd(s)
    BY <2>3 DEF LogEnd
  <2>5. CallsStay(i, s, u)
    BY <2>3, <2>4, SameCalls
  <2>6. CallsStay(i, rep[i], u)
    BY <1>3, <2>5, StayTwice
  <2> QED
    BY <1>1, <1>3, <2>1, <2>6
<1>8. CASE ReceiveAsLeader(i, j)
  <2>1. \E t : rep' = [rep EXCEPT ![i] = t]
    BY <1>8 DEF ReceiveAsLeader
  <2> QED
    BY <1>1, <1>8, <2>1, LeaderReceiveCalls
<1>9. CASE ReceivePropose(i, j)
  <2>1. \E t : rep' = [rep EXCEPT ![i] = t]
    BY <1>9 DEF ReceivePropose
  <2> QED
    BY <1>1, <1>9, <2>1, ProposeCalls
<1> QED
  BY <1>4, <1>5, <1>6, <1>7, <1>8, <1>9

\* run() takes a message that starts no broadcast.
LEMMA ReceiveStanding ==
    ASSUME NEW c, Whole(rep, net, c), Progress(c), Standing, NEW i \in Replicas,
           NEW j \in Incoming(i), Receive(i, j)
    PROVE  Standing'
<1>1. NetType(net) /\ NetType(net') /\ rep'[i] \in ReplicaRecord
  BY WholeFacts, ProgressFacts
<1>2. run[i] = Idle /\ run' = run /\ proposing' = proposing
  BY DEF Receive
<1>3. CallsStay(i, rep[i], rep'[i]) /\ \A q \in Replicas \ {i} : rep'[q] = rep[q]
  BY ReceiveCalls
<1>4. OnlyOf(i)
  <2>1. OnlyAnswers(i)
    BY <1>1, ReceiveAnswers
  <2> QED
    BY <1>1, <1>2, <1>3, <2>1 DEF OnlyOf
<1>5. SuspendedTypes'
  BY <1>2 DEF Standing, SuspendedTypes
<1>6. RunStands(rep'[i], net', i, run'[i])
  BY <1>2, IdleRun
<1>7. \A v \in DOMAIN proposing'[i] : CallStands(rep'[i], i, v, proposing'[i][v])
  BY <1>2, <1>3, CallsCarried
<1> QED
  BY <1>4, <1>5, <1>6, <1>7, StandsStep

\* Every step of the coroutines, as long as none goes astray.
LEMMA StepKeepsStanding ==
    ASSUME NEW c, Whole(rep, net, c), Progress(c), Standing, SNext, ~stray'
    PROVE  Standing'
<1>1. PICK i \in Replicas :
        \/ \E v \in Requests : Call(i, v)
        \/ \E v \in DOMAIN proposing[i] : ResumeCall(i, v) \/ FinishCall(i, v)
        \/ BeginElection(i) \/ BeginRetransmit(i) \/ ResumeRun(i) \/ FinishRun(i)
        \/ \E j \in Incoming(i) : BecomeLeader(i, j) \/ Receive(i, j)
  BY DEF SNext
<1>2. ASSUME NEW v \in Requests, Call(i, v)
      PROVE  Standing'
  BY <1>2, CallStanding
<1>3. ASSUME NEW v \in DOMAIN proposing[i], ResumeCall(i, v)
      PROVE  Standing'
  <2>1. CallStands(rep[i], i, v, proposing[i][v]) /\ proposing[i][v] \in CallRecord
    BY SuspendedTypesAt DEF Standing, Stands
  <2>2. Leads(rep, i)
    BY <1>3, <2>1, ResumeLeads
  <2> QED
    BY <1>3, <2>2, ResumeCallStanding
<1>4. ASSUME NEW v \in DOMAIN proposing[i], FinishCall(i, v)
      PROVE  Standing'
  BY <1>4, FinishCallStanding
<1>5. CASE BeginElection(i)
  BY <1>5, ElectStanding
<1>6. CASE BeginRetransmit(i)
  BY <1>6, RetransmitStanding
<1>7. CASE ResumeRun(i)
  BY <1>7, ResumeRunStanding
<1>8. CASE FinishRun(i)
  BY <1>8, FinishRunStanding
<1>9. ASSUME NEW j \in Incoming(i), BecomeLeader(i, j)
      PROVE  Standing'
  BY <1>9, WinStanding
<1>10. ASSUME NEW j \in Incoming(i), Receive(i, j)
       PROVE  Standing'
  BY <1>10, ReceiveStanding
<1> QED
  BY <1>1, <1>2, <1>3, <1>4, <1>5, <1>6, <1>7, <1>8, <1>9, <1>10

-----------------------------------------------------------------------------
(* The invariant.                                                           *)

\* What has gone astray stays so.
LEMMA StrayStays ==
    ASSUME stray, SNext
    PROVE  stray'
<1>1. PICK i \in Replicas :
        \/ \E v \in Requests : Call(i, v)
        \/ \E v \in DOMAIN proposing[i] : ResumeCall(i, v) \/ FinishCall(i, v)
        \/ BeginElection(i) \/ BeginRetransmit(i) \/ ResumeRun(i) \/ FinishRun(i)
        \/ \E j \in Incoming(i) : BecomeLeader(i, j) \/ Receive(i, j)
  BY DEF SNext
<1>2. ASSUME NEW v, ResumeCall(i, v)
      PROVE  stray'
  <2>1. stray' = (stray \/ rep[i].probe # proposing[i][v].round)
    BY <1>2 DEF ResumeCall
  <2> QED
    BY <2>1, Zenon
<1>3. ASSUME \/ \E v : Call(i, v) \/ FinishCall(i, v)
             \/ BeginElection(i) \/ BeginRetransmit(i) \/ ResumeRun(i) \/ FinishRun(i)
             \/ \E j : BecomeLeader(i, j) \/ Receive(i, j)
      PROVE  stray'
  <2>1. stray' = stray
    BY <1>3 DEF Call, FinishCall, BeginElection, BeginRetransmit, ResumeRun, FinishRun,
                BecomeLeader, Receive, Broadcast
  <2> QED
    BY <2>1, Zenon
<1> QED
  BY <1>1, <1>2, <1>3

\* A step that keeps the replicas' invariant.
LEMMA ProgressInv ==
    ASSUME NEW c, Progress(c)
    PROVE  Inv'
BY DEF Progress, Inv

\* The invariant holds when the replicas start.
LEMMA InitStanding == SInit => Inv /\ Standing
<1> SUFFICES ASSUME SInit
             PROVE  Inv /\ Standing
  OBVIOUS
<1>1. Init /\ run = [i \in Replicas |-> Idle] /\ proposing = [i \in Replicas |-> NoFunction]
  BY DEF SInit
<1>2. Inv
  <2>1. <<>> \in Seq(Requests)
    BY EmptySeq
  <2> QED
    BY <1>1, <2>1, InitWhole DEF Inv
<1>3. DOMAIN NoFunction = {} /\ NoFunction \in CallRecords
  <2>1. DOMAIN NoFunction = {} /\ NoFunction = [x \in DOMAIN NoFunction |-> NoFunction[x]]
    BY DEF NoFunction
  <2> QED
    BY <2>1, CallRecordsIs
<1>4. Idle \in RunRecord /\ \A i : Idle.to \subseteq Peers(i)
  BY DEF Idle, RunRecord
<1>5. \A i \in Replicas : run[i] = Idle /\ proposing[i] = NoFunction
  BY <1>1
<1>6. SuspendedTypes
  BY <1>1, <1>3, <1>4, <1>5 DEF SuspendedTypes
<1>7. \A i \in Replicas : Stands(i)
  BY <1>3, <1>5, IdleRun DEF Stands
<1> QED
  BY <1>2, <1>6, <1>7 DEF Standing

\* The invariant is inductive.
LEMMA StepKeepsSuspended ==
    ASSUME SuspendedInv, [SNext]_svars
    PROVE  SuspendedInv'
<1>1. CASE UNCHANGED svars
  <2>1. rep' = rep /\ net' = net /\ run' = run /\ proposing' = proposing /\ stray' = stray
    BY <1>1 DEF svars
  <2>2. Inv => Inv'
    <3> SUFFICES ASSUME NEW c \in Seq(Requests), Whole(rep, net, c)
                 PROVE  Inv'
      BY DEF Inv
    <3>1. Whole(rep', net', c)
      BY <2>1
    <3> QED
      BY <3>1 DEF Inv
  <2>3. Standing => Standing'
    BY <2>1 DEF Standing, SuspendedTypes, Stands
  <2>4. stray => stray'
    BY <2>1, Zenon
  <2> QED
    BY <2>2, <2>3, <2>4, Zenon DEF SuspendedInv
<1>2. CASE SNext
  <2>1. CASE stray'
    BY <2>1, Zenon DEF SuspendedInv
  <2>2. CASE ~stray'
    <3>1. ~stray
      BY <1>2, <2>2, StrayStays
    <3>2. Inv /\ Standing
      BY <3>1, Zenon DEF SuspendedInv
    <3>3. PICK c \in Seq(Requests) : Whole(rep, net, c)
      BY <3>2 DEF Inv
    <3>4. Progress(c)
      BY <1>2, <2>2, <3>2, <3>3, SuspendedProgress DEF Standing
    <3>5. Inv'
      BY <3>4, ProgressInv
    <3>6. Standing'
      BY <1>2, <2>2, <3>2, <3>3, <3>4, StepKeepsStanding
    <3> QED
      BY <3>5, <3>6, Zenon DEF SuspendedInv
  <2> QED
    BY <2>1, <2>2
<1> QED
  BY <1>1, <1>2

\* With sends that suspend, too, the invariant of the replicas holds and every
\* coroutine finds what it left, until a call sends on in another round.
THEOREM SuspendedInvariance == SSpec => []SuspendedInv
<1>1. SInit => SuspendedInv
  BY InitStanding, Zenon DEF SuspendedInv
<1>2. SuspendedInv /\ [SNext]_svars => SuspendedInv'
  BY StepKeepsSuspended
<1> QED
  BY <1>1, <1>2, PTL DEF SSpec

-----------------------------------------------------------------------------
(* The properties.                                                          *)

\* Replicas whose sends suspend agree on the order of execution, until a call
\* sends on in another round than its own.
THEOREM SuspendedAgree == SSpec => []AgreementUnlessStray
<1>1. SuspendedInv => AgreementUnlessStray
  BY InvAgreement, Zenon DEF SuspendedInv, AgreementUnlessStray
<1> QED
  BY <1>1, SuspendedInvariance, PTL

\* Until then, too, the logs of one round agree and an answered request is in
\* the log of every later leader.
THEOREM SuspendedRounds == SSpec => []RoundsUnlessStray
<1>1. SuspendedInv => RoundsUnlessStray
  BY InvLogsOfOneRoundAgree, InvAnsweredSurvives, Zenon DEF SuspendedInv, RoundsUnlessStray
<1> QED
  BY <1>1, SuspendedInvariance, PTL

\* Until then a coroutine that a send suspended finds what it left behind.
THEOREM SuspendedStands == SSpec => []SuspendedStand
<1>1. Standing => \A i \in Replicas :
                    /\ RunStands(rep[i], net, i, run[i])
                    /\ \A v \in DOMAIN proposing[i] : CallStands(rep[i], i, v, proposing[i][v])
  BY DEF Standing, Stands
<1>2. SuspendedInv => SuspendedStand
  BY <1>1, Zenon DEF SuspendedInv, SuspendedStand
<1> QED
  BY <1>2, SuspendedInvariance, PTL

\* A call leaves the table when it ends and at no other time.
LEMMA OnlyFinished ==
    ASSUME SuspendedTypes, NEW c, Whole(rep, net, c), SNext, NEW i \in Replicas,
           NEW v \in DOMAIN proposing[i], v \notin DOMAIN proposing'[i]
    PROVE  FinishCall(i, v)
<1>1. PICK q \in Replicas :
        \/ \E w \in Requests : Call(q, w)
        \/ \E w \in DOMAIN proposing[q] : ResumeCall(q, w) \/ FinishCall(q, w)
        \/ BeginElection(q) \/ BeginRetransmit(q) \/ ResumeRun(q) \/ FinishRun(q)
        \/ \E j \in Incoming(q) : BecomeLeader(q, j) \/ Receive(q, j)
  BY DEF SNext
<1>2. rep[q] \in ReplicaRecord /\ rep[q].next \in Nat /\ rep[q].probe \in Nat
  BY WholeFacts, ReplicaFields
<1>3. ASSUME NEW w \in Requests, Call(q, w)
      PROVE  FALSE
  <2>1. /\ DOMAIN proposing'[q] = DOMAIN proposing[q] \cup {w}
        /\ \A x \in Replicas \ {q} : proposing'[x] = proposing[x]
    BY <1>2, <1>3, CallKeepsTypes DEF CallAdded
  <2> QED
    BY <2>1
<1>4. ASSUME NEW w \in DOMAIN proposing[q], ResumeCall(q, w)
      PROVE  FALSE
  <2>1. /\ DOMAIN proposing'[q] = DOMAIN proposing[q]
        /\ \A x \in Replicas \ {q} : proposing'[x] = proposing[x]
    BY <1>4, ResumeKeepsTypes DEF CallResumed
  <2> QED
    BY <2>1
<1>5. ASSUME NEW w \in DOMAIN proposing[q], FinishCall(q, w)
      PROVE  FinishCall(i, v)
  <2>1. /\ DOMAIN proposing'[q] = DOMAIN proposing[q] \ {w}
        /\ \A x \in Replicas \ {q} : proposing'[x] = proposing[x]
    BY <1>5, FinishKeepsTypes DEF CallRemoved
  <2>2. q = i /\ w = v
    BY <2>1
  <2> QED
    BY <1>5, <2>2
<1>6. ASSUME \/ BeginElection(q) \/ BeginRetransmit(q) \/ ResumeRun(q) \/ FinishRun(q)
             \/ \E j : BecomeLeader(q, j) \/ Receive(q, j)
      PROVE  FALSE
  <2>1. proposing' = proposing
    BY <1>6 DEF BeginElection, BeginRetransmit, ResumeRun, FinishRun, BecomeLeader, Receive,
                Broadcast
  <2> QED
    BY <2>1
<1> QED
  BY <1>1, <1>3, <1>4, <1>5, <1>6

\* The end of a call leaves it what it had.
LEMMA FinishCallStays ==
    ASSUME NEW c, Whole(rep, net, c), NEW i \in Replicas, NEW v \in DOMAIN proposing[i],
           proposing[i][v].slot \in Nat, FinishCall(i, v)
    PROVE  CallsStay(i, rep[i], rep'[i]) /\ rep'[i].probe = rep[i].probe
<1> DEFINE s == ApplyDecided(i, rep[i])
           slot == proposing[i][v].slot
           t == Returns(s, slot)
           R1 == [rep EXCEPT ![i] = s]
<1>1. /\ rep \in [Replicas -> ReplicaRecord] /\ State(rep, Flight(net), c) /\ Tallied(rep[i])
  BY WholeFacts
<1>2. rep' = [rep EXCEPT ![i] = t]
  BY DEF FinishCall
<1>3. Becomes(rep, R1, i, s)
  BY DEF Becomes
<1>4. R1[i] = s
  <2> HIDE DEF s
  <2> QED
    BY <1>1
<1> HIDE DEF R1
<1>5. R1[i] \in ReplicaRecord /\ CallsStay(i, rep[i], R1[i]) /\ R1[i].probe = rep[i].probe
  BY <1>1, <1>3, AppliesAt
<1> HIDE DEF s, slot
<1>6. SameRole(R1[i], t) /\ CallsStay(i, R1[i], t)
  <2>1. slot \in Nat
    BY DEF slot
  <2> QED
    BY <1>4, <1>5, <2>1, ReturnsIs, ReturnsCalls
<1> HIDE DEF t
<1>7. rep'[i] = t
  BY <1>1, <1>2
<1>8. CallsStay(i, rep[i], t)
  BY <1>5, <1>6, StayTwice
<1> QED
  BY <1>5, <1>6, <1>7, <1>8 DEF SameRole

\* A call that ends in its round has its response, or waits for it.
LEMMA FinishedCallWaits ==
    ASSUME Inv, Standing, SNext, NEW i \in Replicas,
           NEW v \in DOMAIN proposing[i] \ DOMAIN proposing'[i],
           rep[i].probe = proposing[i][v].round
    PROVE  \/ rep'[i].calls[v] # NoReply
           \/ \E k \in DOMAIN rep'[i].waiters : rep'[i].waiters[k] = v
<1>1. PICK c \in Seq(Requests) : Whole(rep, net, c)
  BY DEF Inv
<1>2. FinishCall(i, v)
  BY <1>1, OnlyFinished DEF Standing
<1>3. proposing[i][v] \in CallRecord /\ proposing[i][v].slot \in Nat
  BY SuspendedTypesAt DEF Standing
<1>4. CallStands(rep[i], i, v, proposing[i][v])
  BY DEF Standing, Stands
<1>5. CallsStay(i, rep[i], rep'[i]) /\ rep'[i].probe = rep[i].probe
  BY <1>1, <1>2, <1>3, FinishCallStays
<1>6. CallStands(rep'[i], i, v, proposing[i][v])
  BY <1>3, <1>4, <1>5 DEF CallsStay
<1> QED
  BY <1>5, <1>6 DEF CallStands

\* Until a call goes astray none returns, in the round it began in, before its
\* response is filled in.
THEOREM NoEmptyReplies == SSpec => NoEmptyReply
<1> DEFINE A == \A i \in Replicas : \A v \in DOMAIN proposing[i] \ DOMAIN proposing'[i] :
                  ~stray /\ rep[i].probe = proposing[i][v].round =>
                     \/ rep'[i].calls[v] # NoReply
                     \/ \E k \in DOMAIN rep'[i].waiters : rep'[i].waiters[k] = v
<1>1. SuspendedInv /\ SNext => A
  <2> SUFFICES ASSUME SuspendedInv, SNext, ~stray,
                      NEW i \in Replicas, NEW v \in DOMAIN proposing[i] \ DOMAIN proposing'[i],
                      rep[i].probe = proposing[i][v].round
               PROVE  \/ rep'[i].calls[v] # NoReply
                      \/ \E k \in DOMAIN rep'[i].waiters : rep'[i].waiters[k] = v
    OBVIOUS
  <2>1. Inv /\ Standing
    BY Zenon DEF SuspendedInv
  <2> QED
    BY <2>1, FinishedCallWaits
<1>2. SuspendedInv /\ [SNext]_svars => [A]_svars
  BY <1>1
<1> QED
  BY <1>2, SuspendedInvariance, PTL DEF SSpec, NoEmptyReply

\* Until a call goes astray the replicas implement one replicated log, wherever
\* their coroutines are suspended.
THEOREM SuspendedRefinement == SSpec => ReplicatedLogUnlessStray
<1> DEFINE db == [i \in Replicas |-> rep[i].db]
<1>1. SInit => RL!Init
  BY RefinesInit DEF SInit
<1>2. SuspendedInv /\ [SNext]_svars => [stray' \/ RL!Next]_<<LongestDb, db>>
  <2>1. ASSUME SuspendedInv, SNext, ~stray'
        PROVE  [RL!Next]_<<LongestDb, db>>
    <3>1. ~stray
      BY <2>1, StrayStays
    <3>2. Inv /\ Standing
      BY <2>1, <3>1, Zenon DEF SuspendedInv
    <3>3. PICK c \in Seq(Requests) : Whole(rep, net, c)
      BY <3>2 DEF Inv
    <3>4. Progress(c)
      BY <2>1, <3>2, <3>3, SuspendedProgress DEF Standing
    <3> QED
      BY <3>3, <3>4, StepRefines
  <2>2. UNCHANGED svars => UNCHANGED <<LongestDb, db>>
    BY DEF svars, LongestDb, Dbs
  <2> HIDE DEF db
  <2> QED
    BY <2>1, <2>2, Zenon
<1> QED
  BY <1>1, <1>2, SuspendedInvariance, PTL DEF SSpec, ReplicatedLogUnlessStray
=============================================================================
