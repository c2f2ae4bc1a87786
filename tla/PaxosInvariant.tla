--------------------------- MODULE PaxosInvariant ---------------------------
(***************************************************************************)
(* Why the replicas of PaxosReplica agree: the inductive invariant.        *)
(*                                                                         *)
(* It speaks of the records R of the replicas, the set W[p][q] of the      *)
(* messages on their way from p to q, and the sequence c of the requests   *)
(* chosen so far, of which every db is a prefix.  All three are            *)
(* parameters, so that a handler can be followed through its parts.  No    *)
(* clause asks for a message: one that is lost, late or received leaves    *)
(* the invariant as true as one that is still on its way.                  *)
(***************************************************************************)
EXTENDS PaxosReplica

Flight(n) == [p \in Replicas |-> [q \in Replicas |-> {n[p][q][k] : k \in DOMAIN n[p][q]}]]

Quorums == {Q \in SUBSET Replicas : Cardinality(Q) >= Quorum}

\* The replica that elections give the round r to.
Owner(r) == r % N

-----------------------------------------------------------------------------
(* Types.                                                                  *)

PrepareMessage == [type : {"PREPARE"}, sender : Replicas, slot : Nat, values : Seq(Requests),
                   round : Nat, ack : Nat]
ProposeMessage == [type : {"PROPOSE"}, slot : Nat, values : Seq(Requests), decided : Nat,
                   round : Nat, trunc : Nat]
ProbeMessage == [type : {"PROBE"}, round : Nat]
AckMessage == [type : {"ACK"}, slot : Nat, round : Nat]
Message == PrepareMessage \cup ProposeMessage \cup ProbeMessage \cup AckMessage

WaiterTable == UNION {[S -> Requests] : S \in SUBSET Nat}
CallTable == UNION {[S -> Requests \cup {NoReply}] : S \in SUBSET Requests}

ReplicaRecord ==
    [leader : Replicas, probe : Nat, ack : Nat, election : Nat,
     prepares : Seq(PrepareMessage), log : Seq(Requests), base : Nat, next : Nat,
     acks : [Replicas -> Nat], decided : Nat, applied : Nat, db : Seq(Requests),
     journal : Seq(Requests), waiters : WaiterTable, calls : CallTable]

Typed(R, W) ==
    /\ R \in [Replicas -> ReplicaRecord]
    /\ \A p, q \in Replicas : W[p][q] \subseteq Message

-----------------------------------------------------------------------------
(* Logs: a part of the sequence of requests, and the round it was last     *)
(* written in.  A replica holds one, a PREPARE reports one and a PROPOSE   *)
(* offers one.                                                             *)

Log == [round : Nat, slot : Nat, values : Seq(Requests)]

EndOf(t) == t.slot + Len(t.values)
At(t, k) == t.values[k - t.slot + 1]
Slots(t) == t.slot..(EndOf(t) - 1)

Held(s) == [round |-> s.ack, slot |-> s.base, values |-> s.log]
Reported(m) == [round |-> m.ack, slot |-> m.slot, values |-> m.values]
Offered(m) == [round |-> m.round, slot |-> m.slot, values |-> m.values]

\* The PREPAREs on their way, and those that candidates collected.
Reports(R, W) ==
    {m \in UNION {UNION {W[p][q] : q \in Replicas} : p \in Replicas} : m.type = "PREPARE"}
       \cup UNION {{R[i].prepares[k] : k \in DOMAIN R[i].prepares} : i \in Replicas}

Proposals(W) ==
    {m \in UNION {UNION {W[p][q] : q \in Replicas} : p \in Replicas} : m.type = "PROPOSE"}

Logs(R, W) ==
    {Held(R[i]) : i \in Replicas} \cup {Reported(m) : m \in Reports(R, W)}
       \cup {Offered(m) : m \in Proposals(W)}

Agree(t, u) == \A k \in Slots(t) \cap Slots(u) : At(t, k) = At(u, k)

\* t has the requests of c wherever it has one below n; and it reaches n.
Matches(t, c, n) == \A k \in Slots(t) : k < n => At(t, k) = c[k + 1]
Covers(t, c, n) == EndOf(t) >= n /\ Matches(t, c, n)

\* t is what is left of u after its first entries are dropped.
Suffix(t, u) ==
    /\ t.round = u.round /\ EndOf(t) = EndOf(u) /\ u.slot <= t.slot
    /\ \A k \in Slots(t) : At(t, k) = At(u, k)

Leads(R, i) == R[i].leader = i

-----------------------------------------------------------------------------
(* What is chosen.                                                         *)

\* The first n requests of c are chosen: the replicas Q accepted them in the
\* round r or later, and every log of a later round has them.
Chosen(R, W, c, Q, n, r) ==
    /\ n <= Len(c)
    /\ R[Owner(r)].ack >= r
    /\ \A q \in Q : R[q].ack >= r /\ Covers(Held(R[q]), c, n)
    /\ \A m \in Reports(R, W) : m.sender \in Q /\ m.round > r
                                  => m.ack >= r /\ Covers(Reported(m), c, n)
    /\ \A t \in Logs(R, W) : /\ t.round > r => Covers(t, c, n)
                             /\ t.round = r => Matches(t, c, n)
    /\ \A i \in Replicas : Leads(R, i) /\ R[i].ack = r => Covers(Held(R[i]), c, n)

\* Chosen by all, so that it may be truncated, or by a quorum, so that it may
\* be applied, in a round up to r.
Settled(R, W, c, n, r) == \E s \in 0..r : Chosen(R, W, c, Replicas, n, s)
Decided(R, W, c, n, r) == \E Q \in Quorums, s \in 0..r : Chosen(R, W, c, Q, n, s)

\* What q has told, or may yet tell, of the round r shows n slots.
Voted(R, W, q, n, r) ==
    /\ R[q].ack >= r
    /\ R[q].ack = r => LogEnd(R[q]) >= n
    /\ \A m \in Reports(R, W) : m.sender = q /\ m.round > r
                                  => m.ack >= r /\ (m.ack = r => EndOf(m) >= n)
Backed(R, W, c, q, n, r) == Settled(R, W, c, n, r) \/ Voted(R, W, q, n, r)

\* q counts, or may yet count, for n slots of the leader i.
Accepted(R, W, i, q, n) ==
    \/ R[i].acks[q] >= n
    \/ \E m \in W[q][i] : m.type = "ACK" /\ m.round = R[i].ack /\ m.slot >= n
    \/ R[q].ack = R[i].ack /\ LogEnd(R[q]) >= n

\* The log t of a later round has the first n slots of the leader i, or no
\* quorum will ever accept them from i.
SafeFor(R, W, i, t, n) ==
    \/ /\ EndOf(t) >= n
       /\ \A k \in Slots(t) \cap Slots(Held(R[i])) : k < n => At(t, k) = At(Held(R[i]), k)
    \/ \E Q \in Quorums : \A q \in Q : R[q].probe > R[i].ack /\ ~Accepted(R, W, i, q, n)

-----------------------------------------------------------------------------
(* The invariant.                                                          *)

\* A replica leads the round that it owns and that it has accepted; the
\* PREPAREs it has collected are of its election and of different senders.
ReplicaRounds(R, i) ==
    /\ R[i].ack <= R[i].probe /\ R[i].election <= R[i].probe
    /\ Leads(R, i) <=> (R[i].ack = R[i].probe /\ Owner(R[i].probe) = i)
    /\ R[i].prepares # <<>> =>
         /\ Owner(R[i].election) = i
         /\ R[i].election = R[i].probe => R[i].ack < R[i].election
    /\ \A k \in DOMAIN R[i].prepares : R[i].prepares[k].round = R[i].election
    /\ \A k, l \in DOMAIN R[i].prepares :
          R[i].prepares[k].sender = R[i].prepares[l].sender => k = l

\* Until its sender accepts a log in the PREPARE's round or later, a PREPARE
\* reports the log that its sender has.
ReportRounds(R, m) ==
    /\ m.ack <= m.round /\ m.round <= R[m.sender].probe
    /\ R[m.sender].ack < m.round => /\ m.ack = R[m.sender].ack
                                    /\ EndOf(m) = LogEnd(R[m.sender])

\* PROBE and PROPOSE are sent by the owner of their round, PREPARE and ACK to it.
MessageRounds(R, p, q, m) ==
    /\ m.type \in {"PROPOSE", "PROBE"} => Owner(m.round) = p /\ m.round <= R[p].probe
    /\ m.type \in {"PREPARE", "ACK"} => Owner(m.round) = q /\ m.round <= R[q].probe
    /\ m.type = "PREPARE" => m.sender = p
    /\ m.type = "ACK" => m.round <= R[q].ack

\* A log is written only in a round that its owner has won.
LogRounds(R, t) ==
    /\ R[Owner(t.round)].ack >= t.round
    /\ t.round > 0 => \E Q \in Quorums : \A q \in Q : R[q].probe >= t.round

Rounds(R, W) ==
    /\ \A i \in Replicas : ReplicaRounds(R, i)
    /\ \A m \in Reports(R, W) : ReportRounds(R, m)
    /\ \A p, q \in Replicas : \A m \in W[p][q] : MessageRounds(R, p, q, m)
    /\ \A t \in Logs(R, W) : LogRounds(R, t)

\* A replica has applied a prefix of what is chosen.
ReplicaIndices(s, c) ==
    /\ s.base <= s.applied /\ s.applied <= s.decided
    /\ s.applied <= LogEnd(s) /\ s.decided <= Len(c)
    /\ s.db = SubSeq(c, 1, s.applied)

LeaderIndices(s, i) ==
    /\ s.next = LogEnd(s) /\ s.acks[i] = LogEnd(s)
    /\ \A q \in Replicas : s.acks[q] <= LogEnd(s)

Indices(R, c) ==
    \A i \in Replicas : ReplicaIndices(R[i], c) /\ (Leads(R, i) => LeaderIndices(R[i], i))

\* The logs of a round are parts of one log, that of the round's leader.
LogsAgree(R, W) ==
    /\ \A t, u \in Logs(R, W) : t.round = u.round => Agree(t, u)
    /\ \A i \in Replicas, t \in Logs(R, W) :
          Leads(R, i) /\ t.round = R[i].ack => EndOf(t) <= LogEnd(R[i])

\* What a PROPOSE to q says is true, and it starts within q's log.
ProposeWitnessed(R, W, c, q, m) ==
    /\ Settled(R, W, c, m.trunc, m.round)
    /\ Decided(R, W, c, m.decided, m.round)
    /\ \/ Settled(R, W, c, m.slot, m.round)
       \/ R[q].ack >= m.round /\ (R[q].ack = m.round => LogEnd(R[q]) >= m.slot)

\* c is chosen, what is decided is chosen by a quorum and what is truncated
\* by all.
Witnesses(R, W, c) ==
    /\ \E r \in Nat : Decided(R, W, c, Len(c), r)
    /\ \A i \in Replicas : /\ Settled(R, W, c, R[i].base, R[i].ack)
                           /\ Decided(R, W, c, R[i].decided, R[i].ack)
    /\ \A m \in Reports(R, W) : /\ Settled(R, W, c, m.slot, m.ack)
                                /\ \E j \in Replicas : m.slot <= R[j].applied
    /\ \A p, q \in Replicas : \A m \in W[p][q] :
          m.type = "PROPOSE" => ProposeWitnessed(R, W, c, q, m)

\* A leader counts only what is there.
Votes(R, W, c) ==
    \A i, q \in Replicas : Leads(R, i) =>
       /\ Backed(R, W, c, q, R[i].acks[q], R[i].ack)
       /\ \A m \in W[q][i] : m.type = "ACK" /\ m.round = R[i].ack =>
             m.slot <= LogEnd(R[i]) /\ Backed(R, W, c, q, m.slot, R[i].ack)

\* A leader can choose nothing that a later round has not.
Safe(R, W) ==
    \A i \in Replicas : Leads(R, i) =>
       \A t \in Logs(R, W) : t.round > R[i].ack =>
          \A n \in 0..LogEnd(R[i]) : SafeFor(R, W, i, t, n)

Core(R, W, c) ==
    /\ Typed(R, W) /\ c \in Seq(Requests)
    /\ Rounds(R, W) /\ Indices(R, c) /\ LogsAgree(R, W)
    /\ Witnesses(R, W, c) /\ Votes(R, W, c) /\ Safe(R, W)

-----------------------------------------------------------------------------
(* The network, the calls and the decision logs.                            *)

NetType(n) == n \in [Replicas -> [Replicas -> Seq(Message)]]

\* A PROBE and its PREPARE are on their way at most once.
Once(m) == m.type \in {"PROBE", "PREPARE"}
Single(mail) ==
    \A k, l \in DOMAIN mail : Once(mail[k]) /\ mail[k].type = mail[l].type
                                /\ mail[k].round = mail[l].round => k = l

\* The candidate i has the PREPARE of the round r from j.
Collected(R, i, j, r) ==
    \E k \in DOMAIN R[i].prepares : R[i].prepares[k].sender = j /\ R[i].prepares[k].round = r

Fresh(R, n) ==
    \A i, j \in Replicas :
       /\ Single(n[i][j])
       /\ \A a \in Flight(n)[i][j] : a.type = "PROBE" =>
             /\ ~Collected(R, i, j, a.round)
             /\ \A b \in Flight(n)[j][i] : b.type = "PREPARE" => b.round # a.round
       /\ \A b \in Flight(n)[j][i] : b.type = "PREPARE" => ~Collected(R, i, j, b.round)

\* Each request in a log, with its slot.
Places(R, W) == UNION {{<<At(t, k), k>> : k \in Slots(t)} : t \in Logs(R, W)}

\* Each request in c, with its slot.
Sequenced(c) == {<<c[k + 1], k>> : k \in 0..(Len(c) - 1)}

\* What is applied somewhere is in a decision log.
Recorded(R, c) ==
    \A i \in Replicas : \A k \in 1..R[i].applied : \E j \in Replicas : Contains(R[j].journal, c[k])

\* A call that waits for a slot finds its request nowhere else.
WaitersKept(s, A) ==
    \A k \in DOMAIN s.waiters :
       /\ s.waiters[k] \in DOMAIN s.calls
       /\ \A x \in A : x[1] = s.waiters[k] => x[2] = k

\* A call was told the request of a slot that is applied; told another's, its
\* own is left only in slots that it has seen applied for others.
CallsKept(s, A, c) ==
    \A v \in DOMAIN s.calls :
       /\ s.calls[v] # NoReply => \E k \in 1..s.applied : s.calls[v] = c[k]
       /\ s.calls[v] \notin {v, NoReply} =>
             \A x \in A : x[1] = v => x[2] \in 0..(s.applied - 1) /\ x \notin Sequenced(c)

\* A request is submitted once and has one slot.
Books(R, P, c) ==
    /\ \A x, y \in P \cup Sequenced(c) : x[1] = y[1] => x[2] = y[2]
    /\ \A x \in P \cup Sequenced(c) : \E i \in Replicas : x[1] \in DOMAIN R[i].calls
    /\ \A i \in Replicas : /\ WaitersKept(R[i], P \cup Sequenced(c))
                           /\ CallsKept(R[i], P \cup Sequenced(c), c)
    /\ Recorded(R, c)

\* A replica that has peers has decided all that it counts a quorum for.
Tallied(s) ==
    N > 1 => /\ \E n \in Nat : \A q \in Replicas : s.acks[q] <= n
             /\ QuorumAcked(s) <= s.decided

-----------------------------------------------------------------------------
(* All of it.                                                              *)

State(R, W, c) == Core(R, W, c) /\ Books(R, Places(R, W), c)

Whole(R, n, c) ==
    /\ NetType(n) /\ State(R, Flight(n), c) /\ Fresh(R, n)
    /\ \A q \in Replicas : Tallied(R[q])

\* There is a sequence of all that is chosen, and the state is as it says.
Inv == \E c \in Seq(Requests) : Whole(rep, net, c)

-----------------------------------------------------------------------------
(* The invariant as far as TLC can evaluate it in reasonable time, with    *)
(* what some replica knows for c.                                          *)

\* What a replica has, or had, of the sequence of requests.
Known(s) == SubSeq(s.db, 1, s.base) \o s.log
MostDecided == Max({rep[i].decided : i \in Replicas})

\* Why the replicas agree.  As many requests as any replica knows to be
\* decided are held by a quorum, in a round after which every log on its way
\* or in a replica has them; a leader can choose nothing that a later round
\* has not; a request has one slot; and every message is of a round that its
\* sender or its receiver owns (the parts of the invariant Whole about rounds,
\* leaders, indices and calls, for c the decided requests).
InvariantParts ==
    LET W == Flight(net)
    IN  /\ Rounds(rep, W) /\ Safe(rep, W)
        /\ \E k \in Replicas :
              LET c == SubSeq(Known(rep[k]), 1, MostDecided)
              IN  /\ LogEnd(rep[k]) >= MostDecided
                  /\ Indices(rep, c) /\ Books(rep, Places(rep, W), c)
                  /\ \E i \in Replicas : Decided(rep, W, c, Len(c), rep[i].ack)
=============================================================================
