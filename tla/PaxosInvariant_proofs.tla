----------------------- MODULE PaxosInvariant_proofs ------------------------
(***************************************************************************)
(* Lemmas about the invariant of PaxosInvariant.  The first half is about  *)
(* logs: quorums, rounds, what is chosen; the parts of a handler that      *)
(* write no entry (sends, bookkeeping, truncation, decisions); and the     *)
(* three writes to a log: a new entry of the leader, the log that a        *)
(* follower takes over from a PROPOSE, and the log of a quorum that a new  *)
(* leader adopts.  The second half is about the operators of PaxosReplica  *)
(* that its handlers are made of: what each does to the record of a        *)
(* replica, and that it keeps the invariant, first Core, the part about    *)
(* logs and rounds, then what is about the network's queues and about the  *)
(* calls and the decision logs.                                            *)
(***************************************************************************)
EXTENDS PaxosInvariant, FiniteSetTheorems, SequenceTheorems, TLAPS

\* The replicas are finitely many, and all of them are a quorum.
LEMMA ReplicasFinite ==
    IsFiniteSet(Replicas) /\ Cardinality(Replicas) = N /\ Replicas \in Quorums /\ Quorum \in Nat \ {0}
<1>1. N \in Nat \ {0} /\ 0 \in Int /\ N - 1 \in Int
  BY PaxosAssumption
<1>2. IsFiniteSet(Replicas) /\ Cardinality(Replicas) = N
  BY <1>1, FS_Interval DEF Replicas
<1>3. Quorum \in Nat \ {0} /\ N >= Quorum
  BY <1>1 DEF Quorum
<1> QED
  BY <1>2, <1>3 DEF Quorums

\* Two quorums share a replica.
LEMMA QuorumsMeet ==
    ASSUME NEW P \in Quorums, NEW Q \in Quorums
    PROVE  \E q \in Replicas : q \in P /\ q \in Q
<1>1. IsFiniteSet(P) /\ IsFiniteSet(Q) /\ P \subseteq Replicas /\ Q \subseteq Replicas
  BY ReplicasFinite, FS_Subset DEF Quorums
<1>2. Cardinality(P) \in Nat /\ Cardinality(Q) \in Nat
  BY <1>1, FS_CardinalityType
<1>3. Cardinality(P) + Cardinality(Q) > Cardinality(Replicas)
  <2>1. Quorum + Quorum > N /\ Quorum \in Nat
    BY PaxosAssumption DEF Quorum
  <2>2. Cardinality(P) >= Quorum /\ Cardinality(Q) >= Quorum
    BY DEF Quorums
  <2>3. Cardinality(Replicas) = N /\ N \in Nat
    BY ReplicasFinite, PaxosAssumption
  <2> QED
    BY <1>2, <2>1, <2>2, <2>3
<1>4. P \cap Q # {}
  BY <1>1, <1>3, ReplicasFinite, FS_MajoritiesIntersect
<1> QED
  BY <1>1, <1>4

\* A quorum is made of replicas.
LEMMA QuorumMembers ==
    ASSUME NEW Q \in Quorums
    PROVE  Q \subseteq Replicas
BY DEF Quorums

\* Every round has an owner, and the round a replica elects itself in is its
\* own and above every round it has seen.
LEMMA OwnerType ==
    ASSUME NEW r \in Nat
    PROVE  Owner(r) \in Replicas
BY PaxosAssumption DEF Owner, Replicas

\* The round that StartElection picks is a later one, and the candidate's own.
LEMMA ElectionRoundIsOwn ==
    ASSUME NEW p \in Nat, NEW i \in Replicas
    PROVE  /\ p + N - (p % N) + i \in Nat
           /\ p + N - (p % N) + i > p
           /\ Owner(p + N - (p % N) + i) = i
<1> DEFINE k == p \div N
<1>1. N \in Nat \ {0} /\ i \in 0..(N - 1)
  BY PaxosAssumption DEF Replicas
<1>2. p % N \in 0..(N - 1) /\ k \in Nat /\ p = N * k + (p % N)
  BY <1>1
<1>3. p + N - (p % N) + i = N * (k + 1) + i
  BY <1>1, <1>2
<1>4. (N * (k + 1) + i) % N = i
  <2> DEFINE l == k + 1
  <2>1. l \in Nat
    BY <1>2
  <2> HIDE DEF l
  <2>2. (N * l + i) % N = i
    BY <1>1, <2>1
  <2> QED
    BY <2>2 DEF l
<1> QED
  BY <1>1, <1>2, <1>3, <1>4 DEF Owner
-----------------------------------------------------------------------------
(* Membership.                                                             *)

\* The types of a replica's fields, and the log that the record holds.
LEMMA ReplicaFields ==
    ASSUME NEW s \in ReplicaRecord
    PROVE  /\ s.leader \in Replicas /\ s.probe \in Nat /\ s.ack \in Nat /\ s.election \in Nat
           /\ s.prepares \in Seq(PrepareMessage) /\ s.log \in Seq(Requests) /\ s.base \in Nat
           /\ s.next \in Nat /\ s.acks \in [Replicas -> Nat] /\ s.decided \in Nat
           /\ s.applied \in Nat /\ s.db \in Seq(Requests) /\ s.journal \in Seq(Requests)
           /\ Held(s) \in Log /\ EndOf(Held(s)) = LogEnd(s) /\ LogEnd(s) \in Nat
           /\ s.base <= LogEnd(s) /\ Held(s).round = s.ack /\ Held(s).slot = s.base
           /\ Held(s).values = s.log
<1>1. /\ s.leader \in Replicas /\ s.probe \in Nat /\ s.ack \in Nat /\ s.election \in Nat
      /\ s.prepares \in Seq(PrepareMessage) /\ s.log \in Seq(Requests) /\ s.base \in Nat
      /\ s.next \in Nat /\ s.acks \in [Replicas -> Nat] /\ s.decided \in Nat
      /\ s.applied \in Nat /\ s.db \in Seq(Requests) /\ s.journal \in Seq(Requests)
  BY DEF ReplicaRecord
<1>2. Len(s.log) \in Nat
  BY <1>1, LenProperties
<1>3. Held(s) = [round |-> s.ack, slot |-> s.base, values |-> s.log]
  BY DEF Held
<1>4. Held(s) \in Log
  BY <1>1, <1>3 DEF Log
<1>5. EndOf(Held(s)) = s.base + Len(s.log) /\ LogEnd(s) = s.base + Len(s.log)
  BY <1>3 DEF EndOf, LogEnd
<1>6. s.base + Len(s.log) \in Nat /\ s.base <= s.base + Len(s.log)
  BY <1>1, <1>2
<1> QED
  BY <1>1, <1>3, <1>4, <1>5, <1>6

\* Every replica has a record.
LEMMA RecordAt ==
    ASSUME NEW R, NEW W, Typed(R, W), NEW i \in Replicas
    PROVE  R[i] \in ReplicaRecord
BY DEF Typed

\* A log's slots go from its own first one to its end, and each has a request.
LEMMA LogFields ==
    ASSUME NEW t \in Log
    PROVE  /\ t.round \in Nat /\ t.slot \in Nat /\ EndOf(t) \in Nat /\ t.slot <= EndOf(t)
           /\ t.values \in Seq(Requests)
           /\ \A k \in Slots(t) : /\ k \in Nat /\ t.slot <= k /\ k < EndOf(t)
                                 /\ At(t, k) \in Requests
           /\ \A k \in Int : t.slot <= k /\ k < EndOf(t) => k \in Slots(t)
<1>1. t.round \in Nat /\ t.slot \in Nat /\ t.values \in Seq(Requests)
  BY DEF Log
<1>2. Len(t.values) \in Nat
  BY <1>1, LenProperties
<1>3. ASSUME NEW k \in Slots(t)
      PROVE  k \in Nat /\ t.slot <= k /\ k < EndOf(t) /\ k - t.slot + 1 \in 1..Len(t.values)
  BY <1>1, <1>2 DEF Slots, EndOf
<1>4. ASSUME NEW k \in Slots(t)
      PROVE  At(t, k) \in Requests
  BY <1>1, <1>3, ElementOfSeq DEF At
<1> QED
  BY <1>1, <1>2, <1>3, <1>4 DEF Slots, EndOf

\* The types of a message's fields, and the log that it carries.
LEMMA MessageFields ==
    ASSUME NEW m \in Message
    PROVE  /\ m.type = "PREPARE" => /\ m \in PrepareMessage /\ m.sender \in Replicas
                                    /\ Reported(m) \in Log /\ Reported(m).round = m.ack
                                    /\ EndOf(Reported(m)) = EndOf(m) /\ m.round \in Nat
                                    /\ m.ack \in Nat /\ m.slot \in Nat /\ Reported(m).slot = m.slot
           /\ m.type = "PROPOSE" => /\ m \in ProposeMessage /\ Offered(m) \in Log
                                    /\ Offered(m).round = m.round /\ Offered(m).slot = m.slot
                                    /\ EndOf(Offered(m)) = EndOf(m) /\ m.round \in Nat
                                    /\ m.slot \in Nat /\ m.trunc \in Nat /\ m.decided \in Nat
           /\ m.type = "PROBE" => m \in ProbeMessage /\ m.round \in Nat
           /\ m.type = "ACK" => m \in AckMessage /\ m.slot \in Nat /\ m.round \in Nat
           /\ m.round \in Nat
<1>1. CASE m.type = "PREPARE"
  BY <1>1 DEF Message, PrepareMessage, ProposeMessage, ProbeMessage, AckMessage, Reported, Log, EndOf
<1>2. CASE m.type = "PROPOSE"
  BY <1>2 DEF Message, PrepareMessage, ProposeMessage, ProbeMessage, AckMessage, Offered, Log, EndOf
<1>3. CASE m.type = "PROBE"
  BY <1>3 DEF Message, PrepareMessage, ProposeMessage, ProbeMessage, AckMessage
<1>4. CASE m.type = "ACK"
  BY <1>4 DEF Message, PrepareMessage, ProposeMessage, ProbeMessage, AckMessage
<1>5. m.type \in {"PREPARE", "PROPOSE", "PROBE", "ACK"}
  BY DEF Message, PrepareMessage, ProposeMessage, ProbeMessage, AckMessage
<1> QED
  BY <1>1, <1>2, <1>3, <1>4, <1>5

\* A report is a PREPARE on its way, or one that a candidate has collected.
LEMMA InReports ==
    ASSUME NEW R, NEW W
    PROVE  /\ \A m \in Reports(R, W) :
                \/ \E p, q \in Replicas : m \in W[p][q] /\ m.type = "PREPARE"
                \/ \E i \in Replicas : \E k \in DOMAIN R[i].prepares : m = R[i].prepares[k]
           /\ \A p, q \in Replicas : \A m \in W[p][q] :
                m.type = "PREPARE" => m \in Reports(R, W)
           /\ \A i \in Replicas : \A k \in DOMAIN R[i].prepares :
                R[i].prepares[k] \in Reports(R, W)
BY DEF Reports

\* A log is held by a replica, reported in a PREPARE or offered in a PROPOSE.
LEMMA InLogs ==
    ASSUME NEW R, NEW W
    PROVE  /\ \A t \in Logs(R, W) :
                \/ \E i \in Replicas : t = Held(R[i])
                \/ \E m \in Reports(R, W) : t = Reported(m)
                \/ \E p, q \in Replicas : \E m \in W[p][q] : m.type = "PROPOSE" /\ t = Offered(m)
           /\ \A i \in Replicas : Held(R[i]) \in Logs(R, W)
           /\ \A m \in Reports(R, W) : Reported(m) \in Logs(R, W)
           /\ \A p, q \in Replicas : \A m \in W[p][q] :
                m.type = "PROPOSE" => Offered(m) \in Logs(R, W)
BY DEF Logs, Proposals

\* A report is a PREPARE, and carries a log.
LEMMA ReportTypes ==
    ASSUME NEW R, NEW W, Typed(R, W), NEW m \in Reports(R, W)
    PROVE  /\ m \in PrepareMessage /\ m.type = "PREPARE" /\ m \in Message
           /\ m.sender \in Replicas /\ m.round \in Nat /\ m.ack \in Nat /\ m.slot \in Nat
           /\ Reported(m) \in Log /\ Reported(m).round = m.ack
           /\ Reported(m).slot = m.slot /\ EndOf(Reported(m)) = EndOf(m)
<1>1. m \in PrepareMessage
  <2>1. CASE \E p, q \in Replicas : m \in W[p][q] /\ m.type = "PREPARE"
    BY <2>1, MessageFields DEF Typed
  <2>2. ASSUME NEW i \in Replicas, NEW k \in DOMAIN R[i].prepares, m = R[i].prepares[k]
        PROVE  m \in PrepareMessage
    <3>1. R[i].prepares \in Seq(PrepareMessage)
      BY RecordAt, ReplicaFields
    <3> QED
      BY <2>2, <3>1, LenProperties, ElementOfSeq
  <2> QED
    BY <2>1, <2>2, InReports
<1>2. m.type = "PREPARE" /\ m \in Message
  BY <1>1 DEF PrepareMessage, Message
<1> QED
  BY <1>1, <1>2, MessageFields

\* All that Logs gathers are logs.
LEMMA LogTypes ==
    ASSUME NEW R, NEW W, Typed(R, W)
    PROVE  Logs(R, W) \subseteq Log
<1> SUFFICES ASSUME NEW t \in Logs(R, W)
             PROVE  t \in Log
  OBVIOUS
<1>1. ASSUME NEW i \in Replicas, t = Held(R[i])
      PROVE  t \in Log
  BY <1>1, RecordAt, ReplicaFields
<1>2. ASSUME NEW m \in Reports(R, W), t = Reported(m)
      PROVE  t \in Log
  BY <1>2, ReportTypes
<1>3. ASSUME NEW p \in Replicas, NEW q \in Replicas, NEW m \in W[p][q],
             m.type = "PROPOSE", t = Offered(m)
      PROVE  t \in Log
  BY <1>3, MessageFields DEF Typed
<1> QED
  BY <1>1, <1>2, <1>3, InLogs

\* An upper part of a log agrees with all that the log agrees with.
LEMMA SuffixCovers ==
    ASSUME NEW t \in Log, NEW u \in Log, Suffix(t, u), NEW c, NEW n \in Nat
    PROVE  /\ t.round = u.round /\ EndOf(t) = EndOf(u)
           /\ Slots(t) \subseteq Slots(u)
           /\ \A k \in Slots(t) : At(t, k) = At(u, k)
           /\ Matches(u, c, n) => Matches(t, c, n)
           /\ Covers(u, c, n) => Covers(t, c, n)
<1>1. t.round = u.round /\ EndOf(t) = EndOf(u) /\ u.slot <= t.slot
      /\ \A k \in Slots(t) : At(t, k) = At(u, k)
  BY DEF Suffix
<1>2. Slots(t) \subseteq Slots(u)
  BY <1>1, LogFields
<1>3. Matches(u, c, n) => Matches(t, c, n)
  BY <1>1, <1>2 DEF Matches
<1> QED
  BY <1>1, <1>2, <1>3 DEF Covers

\* A log that agrees with c, or reaches, up to n does so up to less.
LEMMA CoversLess ==
    ASSUME NEW t \in Log, NEW c, NEW n \in Nat, NEW k \in Nat, k <= n
    PROVE  (Matches(t, c, n) => Matches(t, c, k)) /\ (Covers(t, c, n) => Covers(t, c, k))
BY LogFields DEF Covers, Matches

\* What is chosen stays chosen for fewer slots and by more rounds.
LEMMA ChosenLess ==
    ASSUME NEW R, NEW W, Typed(R, W), NEW c \in Seq(Requests), NEW Q \in SUBSET Replicas,
           NEW n \in Nat, NEW k \in Nat, k <= n, NEW r \in Nat, Chosen(R, W, c, Q, n, r)
    PROVE  Chosen(R, W, c, Q, k, r)
<1>1. \A t \in Log : (Matches(t, c, n) => Matches(t, c, k)) /\ (Covers(t, c, n) => Covers(t, c, k))
  BY CoversLess
<1>2. \A i \in Replicas : Held(R[i]) \in Log
  BY RecordAt, ReplicaFields
<1>3. \A m \in Reports(R, W) : Reported(m) \in Log
  BY ReportTypes
<1>4. k <= Len(c)
  BY LenProperties DEF Chosen
<1>5. R[Owner(r)].ack >= r
  BY DEF Chosen
<1>6. \A q \in Q : R[q].ack >= r /\ Covers(Held(R[q]), c, k)
  BY <1>1, <1>2 DEF Chosen
<1>7. \A m \in Reports(R, W) : m.sender \in Q /\ m.round > r => m.ack >= r /\ Covers(Reported(m), c, k)
  BY <1>1, <1>3 DEF Chosen
<1>8. \A t \in Logs(R, W) : (t.round > r => Covers(t, c, k)) /\ (t.round = r => Matches(t, c, k))
  BY <1>1, LogTypes DEF Chosen
<1>9. \A i \in Replicas : Leads(R, i) /\ R[i].ack = r => Covers(Held(R[i]), c, k)
  BY <1>1, <1>2 DEF Chosen
<1> QED
  BY <1>4, <1>5, <1>6, <1>7, <1>8, <1>9 DEF Chosen

\* What is chosen by a round is chosen by a later one, and so is a part of it;
\* what all have is had by a quorum.
LEMMA SettledLess ==
    ASSUME NEW R, NEW W, Typed(R, W), NEW c \in Seq(Requests),
           NEW n \in Nat, NEW k \in Nat, k <= n, NEW r \in Nat, NEW s \in Nat, r <= s
    PROVE  /\ Settled(R, W, c, n, r) => Settled(R, W, c, k, s) /\ Decided(R, W, c, k, s)
           /\ Decided(R, W, c, n, r) => Decided(R, W, c, k, s)
<1>1. ASSUME NEW Q \in SUBSET Replicas, NEW x \in 0..r, Chosen(R, W, c, Q, n, x)
      PROVE  x \in 0..s /\ Chosen(R, W, c, Q, k, x)
  BY <1>1, ChosenLess
<1>2. Settled(R, W, c, n, r) => Settled(R, W, c, k, s) /\ Decided(R, W, c, k, s)
  BY <1>1, ReplicasFinite DEF Settled, Decided
<1>3. Decided(R, W, c, n, r) => Decided(R, W, c, k, s)
  BY <1>1, QuorumMembers DEF Decided
<1> QED
  BY <1>2, <1>3

\* A count that is backed stays so when it is lowered.
LEMMA BackedLess ==
    ASSUME NEW R, NEW W, Typed(R, W), NEW c \in Seq(Requests), NEW q \in Replicas,
           NEW n \in Nat, NEW k \in Nat, k <= n, NEW r \in Nat, Backed(R, W, c, q, n, r)
    PROVE  Backed(R, W, c, q, k, r)
<1>1. Settled(R, W, c, n, r) => Settled(R, W, c, k, r)
  BY SettledLess
<1>2. Voted(R, W, q, n, r) => Voted(R, W, q, k, r)
  <2>1. LogEnd(R[q]) \in Nat
    BY RecordAt, ReplicaFields
  <2>2. \A m \in Reports(R, W) : EndOf(m) \in Nat
    BY ReportTypes, LogFields
  <2> QED
    BY <2>1, <2>2 DEF Voted
<1> QED
  BY <1>1, <1>2 DEF Backed

\* A settled prefix is in every replica's log as far as that still reaches
\* down, and in every log of a later round.
LEMMA SettledCovers ==
    ASSUME NEW R, NEW W, Typed(R, W), NEW c, NEW n \in Nat, NEW r \in Nat,
           Settled(R, W, c, n, r)
    PROVE  /\ \A q \in Replicas : Covers(Held(R[q]), c, n)
           /\ \A t \in Logs(R, W) : (t.round > r => Covers(t, c, n)) /\ (t.round = r => Matches(t, c, n))
<1>1. PICK s \in 0..r : Chosen(R, W, c, Replicas, n, s)
  BY DEF Settled
<1>2. \A t \in Logs(R, W) : t.round \in Nat
  BY LogTypes, LogFields
<1> QED
  BY <1>1, <1>2 DEF Chosen, Covers

\* Every log of a later round has what is decided, and a log of the same round
\* has nothing else in its place.
LEMMA DecidedCovers ==
    ASSUME NEW R, NEW W, Typed(R, W), NEW c, NEW n \in Nat, NEW r \in Nat,
           Decided(R, W, c, n, r)
    PROVE  /\ n <= Len(c)
           /\ \A t \in Logs(R, W) : (t.round > r => Covers(t, c, n)) /\ (t.round = r => Matches(t, c, n))
<1>1. PICK Q \in Quorums, s \in 0..r : Chosen(R, W, c, Q, n, s)
  BY DEF Decided
<1>2. \A t \in Logs(R, W) : t.round \in Nat
  BY LogTypes, LogFields
<1> QED
  BY <1>1, <1>2 DEF Chosen, Covers

-----------------------------------------------------------------------------
(* Sends and bookkeeping: no log gets a new entry or a new round.          *)

\* R2 and W2 come from R and W by sends of what the senders hold, by rounds
\* seen, by entries dropped; a message may also be lost or received.
Shift(R, W, R2, W2) ==
    /\ Typed(R, W) /\ Typed(R2, W2)
    /\ \A q \in Replicas :
         /\ R2[q].ack = R[q].ack /\ R2[q].probe >= R[q].probe
         /\ R2[q].applied >= R[q].applied
         /\ Suffix(Held(R2[q]), Held(R[q]))
         /\ Leads(R2, q) => Leads(R, q)
    /\ \A m \in Reports(R2, W2) :
         \/ m \in Reports(R, W)
         \/ /\ Reported(m) = Held(R[m.sender])
            /\ R[m.sender].ack <= m.round /\ m.round <= R2[m.sender].probe
    /\ \A p, q \in Replicas : \A m \in W2[p][q] : m \notin W[p][q] =>
         /\ m.type = "PROPOSE" => /\ Leads(R, p) /\ m.round = R[p].ack
                                  /\ Suffix(Offered(m), Held(R[p]))
                                  /\ m.trunc <= R[p].base /\ m.decided <= R[p].decided
                                  /\ m.slot <= R[p].base \/ m.slot <= R[p].acks[q]
         /\ m.type = "ACK" => m.round = R[p].ack /\ m.slot = LogEnd(R[p])

\* What a shift leaves of a replica: its accepted round, the end of its log, no
\* new leader.
LEMMA ShiftReplica ==
    ASSUME NEW R, NEW W, NEW R2, NEW W2, Shift(R, W, R2, W2), NEW q \in Replicas
    PROVE  /\ R[q] \in ReplicaRecord /\ R2[q] \in ReplicaRecord
           /\ R2[q].ack = R[q].ack /\ R2[q].probe >= R[q].probe
           /\ Suffix(Held(R2[q]), Held(R[q])) /\ LogEnd(R2[q]) = LogEnd(R[q])
           /\ R2[q].applied >= R[q].applied
           /\ Leads(R2, q) => Leads(R, q)
<1>1. /\ R[q] \in ReplicaRecord /\ R2[q] \in ReplicaRecord
      /\ R2[q].ack = R[q].ack /\ R2[q].probe >= R[q].probe
      /\ Suffix(Held(R2[q]), Held(R[q]))
      /\ R2[q].applied >= R[q].applied
      /\ Leads(R2, q) => Leads(R, q)
  BY RecordAt DEF Shift
<1>2. LogEnd(R2[q]) = LogEnd(R[q])
  BY <1>1, ReplicaFields DEF Suffix
<1> QED
  BY <1>1, <1>2

\* A log after a shift is an upper part of a log before it.
LEMMA ShiftLogs ==
    ASSUME NEW R, NEW W, NEW R2, NEW W2, Shift(R, W, R2, W2), NEW t \in Logs(R2, W2)
    PROVE  t \in Log /\ \E u \in Logs(R, W) : u \in Log /\ Suffix(t, u)
<1>1. Typed(R, W) /\ Typed(R2, W2)
  BY DEF Shift
<1>2. t \in Log /\ Logs(R, W) \subseteq Log
  BY <1>1, LogTypes
<1>3. \A u \in Log : Suffix(u, u)
  BY LogFields DEF Suffix
<1>4. ASSUME NEW i \in Replicas, t = Held(R2[i])
      PROVE  \E u \in Logs(R, W) : Suffix(t, u)
  BY <1>4, InLogs, ShiftReplica
<1>5. ASSUME NEW m \in Reports(R2, W2), t = Reported(m)
      PROVE  \E u \in Logs(R, W) : Suffix(t, u)
  <2>1. CASE m \in Reports(R, W)
    BY <1>2, <1>3, <1>5, <2>1, InLogs
  <2>2. CASE Reported(m) = Held(R[m.sender])
    <3>1. m.sender \in Replicas
      BY <1>1, ReportTypes
    <3> QED
      BY <1>2, <1>3, <1>5, <2>2, <3>1, InLogs
  <2> QED
    BY <2>1, <2>2 DEF Shift
<1>6. ASSUME NEW p \in Replicas, NEW q \in Replicas, NEW m \in W2[p][q],
             m.type = "PROPOSE", t = Offered(m)
      PROVE  \E u \in Logs(R, W) : Suffix(t, u)
  <2>1. CASE m \in W[p][q]
    BY <1>2, <1>3, <1>6, <2>1, InLogs
  <2>2. CASE m \notin W[p][q]
    <3>1. Suffix(Offered(m), Held(R[p]))
      BY <1>6, <2>2 DEF Shift
    <3> QED
      BY <1>6, <3>1, InLogs
  <2> QED
    BY <2>1, <2>2
<1> QED
  BY <1>2, <1>4, <1>5, <1>6, InLogs

\* A shift leaves chosen what was chosen.
LEMMA ShiftChosen ==
    ASSUME NEW R, NEW W, NEW R2, NEW W2, Shift(R, W, R2, W2), NEW c,
           NEW Q \in SUBSET Replicas, NEW n \in Nat, NEW r \in Nat, Chosen(R, W, c, Q, n, r)
    PROVE  Chosen(R2, W2, c, Q, n, r)
<1>1. Typed(R, W) /\ Typed(R2, W2)
  BY DEF Shift
<1>2. \A q \in Replicas : Covers(Held(R[q]), c, n) => Covers(Held(R2[q]), c, n)
  BY ShiftReplica, ReplicaFields, SuffixCovers
<1>3. n <= Len(c)
  BY DEF Chosen
<1>4. R2[Owner(r)].ack >= r
  BY OwnerType, ShiftReplica DEF Chosen
<1>5. \A q \in Q : R2[q].ack >= r /\ Covers(Held(R2[q]), c, n)
  BY <1>2, ShiftReplica DEF Chosen
<1>6. ASSUME NEW m \in Reports(R2, W2), m.sender \in Q, m.round > r
      PROVE  m.ack >= r /\ Covers(Reported(m), c, n)
  <2>1. CASE m \in Reports(R, W)
    BY <1>6, <2>1 DEF Chosen
  <2>2. CASE Reported(m) = Held(R[m.sender])
    <3>1. R[m.sender].ack >= r /\ Covers(Held(R[m.sender]), c, n)
      BY <1>6 DEF Chosen
    <3>2. m.ack = R[m.sender].ack
      BY <1>1, <1>6, <2>2, RecordAt, ReplicaFields, ReportTypes
    <3> QED
      BY <2>2, <3>1, <3>2
  <2> QED
    BY <2>1, <2>2 DEF Shift
<1>7. ASSUME NEW t \in Logs(R2, W2)
      PROVE  (t.round > r => Covers(t, c, n)) /\ (t.round = r => Matches(t, c, n))
  <2>1. PICK u \in Logs(R, W) : t \in Log /\ u \in Log /\ Suffix(t, u)
    BY ShiftLogs
  <2>2. (u.round > r => Covers(u, c, n)) /\ (u.round = r => Matches(u, c, n))
    BY DEF Chosen
  <2> QED
    BY <2>1, <2>2, SuffixCovers
<1>8. ASSUME NEW i \in Replicas, Leads(R2, i), R2[i].ack = r
      PROVE  Covers(Held(R2[i]), c, n)
  BY <1>2, <1>8, ShiftReplica DEF Chosen
<1> QED
  BY <1>3, <1>4, <1>5, <1>6, <1>7, <1>8 DEF Chosen

\* The same of what is settled and of what is decided.
LEMMA ShiftSettled ==
    ASSUME NEW R, NEW W, NEW R2, NEW W2, Shift(R, W, R2, W2), NEW c, NEW n \in Nat, NEW r \in Nat
    PROVE  /\ Settled(R, W, c, n, r) => Settled(R2, W2, c, n, r)
           /\ Decided(R, W, c, n, r) => Decided(R2, W2, c, n, r)
<1>1. Settled(R, W, c, n, r) => Settled(R2, W2, c, n, r)
  BY ShiftChosen DEF Settled
<1>2. Decided(R, W, c, n, r) => Decided(R2, W2, c, n, r)
  BY ShiftChosen, QuorumMembers DEF Decided
<1> QED
  BY <1>1, <1>2

\* A replica's own log is a vote for all that it holds.
LEMMA OwnVote ==
    ASSUME NEW R, NEW W, Typed(R, W), Rounds(R, W), NEW q \in Replicas
    PROVE  Voted(R, W, q, LogEnd(R[q]), R[q].ack)
<1>1. R[q].ack \in Nat /\ LogEnd(R[q]) \in Nat
  BY RecordAt, ReplicaFields
<1>2. ASSUME NEW m \in Reports(R, W), m.sender = q, m.round > R[q].ack
      PROVE  m.ack = R[q].ack /\ EndOf(m) = LogEnd(R[q])
  BY <1>2 DEF Rounds, ReportRounds
<1> QED
  BY <1>1, <1>2 DEF Voted

\* A shift takes back no vote.
LEMMA ShiftVoted ==
    ASSUME NEW R, NEW W, NEW R2, NEW W2, Shift(R, W, R2, W2), NEW q \in Replicas,
           NEW n \in Nat, NEW r \in Nat, Voted(R, W, q, n, r)
    PROVE  Voted(R2, W2, q, n, r)
<1>1. Typed(R, W) /\ Typed(R2, W2)
  BY DEF Shift
<1>2. R2[q].ack >= r /\ (R2[q].ack = r => LogEnd(R2[q]) >= n)
  BY ShiftReplica DEF Voted
<1>3. ASSUME NEW m \in Reports(R2, W2), m.sender = q, m.round > r
      PROVE  m.ack >= r /\ (m.ack = r => EndOf(m) >= n)
  <2>1. CASE m \in Reports(R, W)
    BY <1>3, <2>1 DEF Voted
  <2>2. CASE Reported(m) = Held(R[q])
    <3>1. m.ack = R[q].ack /\ EndOf(m) = LogEnd(R[q])
      <4>1. Reported(m).round = m.ack /\ EndOf(Reported(m)) = EndOf(m)
        BY <1>1, ReportTypes
      <4>2. Held(R[q]).round = R[q].ack /\ EndOf(Held(R[q])) = LogEnd(R[q])
        BY <1>1, RecordAt, ReplicaFields
      <4> QED
        BY <2>2, <4>1, <4>2
    <3> QED
      BY <3>1 DEF Voted
  <2> QED
    BY <1>3, <2>1, <2>2 DEF Shift
<1> QED
  BY <1>2, <1>3 DEF Voted

\* A shift leaves a count backed.
LEMMA ShiftBacked ==
    ASSUME NEW R, NEW W, NEW R2, NEW W2, Shift(R, W, R2, W2), NEW c, NEW q \in Replicas,
           NEW n \in Nat, NEW r \in Nat, Backed(R, W, c, q, n, r)
    PROVE  Backed(R2, W2, c, q, n, r)
BY ShiftSettled, ShiftVoted DEF Backed

\* The rounds of logs and reports through a shift; those of replicas and
\* messages are the handler's.
LEMMA ShiftRounds ==
    ASSUME NEW R, NEW W, NEW R2, NEW W2, Shift(R, W, R2, W2), Rounds(R, W),
           \A i \in Replicas : ReplicaRounds(R2, i),
           \A p, q \in Replicas : \A m \in W2[p][q] : m \notin W[p][q] => MessageRounds(R2, p, q, m)
    PROVE  Rounds(R2, W2)
<1>1. Typed(R, W) /\ Typed(R2, W2)
  BY DEF Shift
<1>2. ASSUME NEW m \in Reports(R2, W2)
      PROVE  ReportRounds(R2, m)
  <2>1. m.sender \in Replicas /\ m.round \in Nat /\ m.ack \in Nat
    BY <1>1, ReportTypes
  <2>2. /\ R2[m.sender].ack = R[m.sender].ack /\ LogEnd(R2[m.sender]) = LogEnd(R[m.sender])
        /\ R2[m.sender].probe >= R[m.sender].probe
        /\ R[m.sender].probe \in Nat /\ R2[m.sender].probe \in Nat
    BY <2>1, ShiftReplica, ReplicaFields
  <2>3. CASE m \in Reports(R, W)
    BY <2>1, <2>2, <2>3 DEF Rounds, ReportRounds
  <2>4. CASE /\ Reported(m) = Held(R[m.sender])
             /\ R[m.sender].ack <= m.round /\ m.round <= R2[m.sender].probe
    <3>1. m.ack = R[m.sender].ack /\ EndOf(m) = LogEnd(R[m.sender])
      BY <1>1, <2>1, <2>4, RecordAt, ReplicaFields, ReportTypes
    <3> QED
      BY <2>2, <2>4, <3>1 DEF ReportRounds
  <2> QED
    BY <2>3, <2>4 DEF Shift
<1>3. ASSUME NEW p \in Replicas, NEW q \in Replicas, NEW m \in W2[p][q]
      PROVE  MessageRounds(R2, p, q, m)
  <2>1. CASE m \in W[p][q]
    <3>1. MessageRounds(R, p, q, m) /\ m.round \in Nat
      BY <1>1, <2>1, MessageFields DEF Rounds, Typed
    <3>2. /\ R2[p].probe >= R[p].probe /\ R2[q].probe >= R[q].probe /\ R2[q].ack = R[q].ack
          /\ R[p].probe \in Nat /\ R2[p].probe \in Nat /\ R[q].probe \in Nat /\ R2[q].probe \in Nat
      BY ShiftReplica, ReplicaFields
    <3> QED
      BY <3>1, <3>2 DEF MessageRounds
  <2> QED
    BY <2>1
<1>4. ASSUME NEW t \in Logs(R2, W2)
      PROVE  LogRounds(R2, t)
  <2>1. PICK u \in Logs(R, W) : t \in Log /\ u \in Log /\ Suffix(t, u)
    BY ShiftLogs
  <2>2. t.round = u.round /\ u.round \in Nat /\ LogRounds(R, u)
    BY <2>1, LogFields DEF Suffix, Rounds
  <2>3. R2[Owner(t.round)].ack >= t.round
    BY <2>2, OwnerType, ShiftReplica DEF LogRounds
  <2>4. ASSUME t.round > 0
        PROVE  \E Q \in Quorums : \A q \in Q : R2[q].probe >= t.round
    <3>1. PICK Q \in Quorums : \A q \in Q : R[q].probe >= u.round
      BY <2>2, <2>4 DEF LogRounds
    <3>2. \A q \in Q : R2[q].probe >= R[q].probe /\ R[q].probe \in Nat /\ R2[q].probe \in Nat
      BY QuorumMembers, ShiftReplica, ReplicaFields
    <3> QED
      BY <2>2, <3>1, <3>2
  <2> QED
    BY <2>3, <2>4 DEF LogRounds
<1> QED
  BY <1>2, <1>3, <1>4 DEF Rounds

\* A shift leaves the logs of a round parts of one log.
LEMMA ShiftLogsAgree ==
    ASSUME NEW R, NEW W, NEW R2, NEW W2, Shift(R, W, R2, W2), LogsAgree(R, W)
    PROVE  LogsAgree(R2, W2)
<1>1. ASSUME NEW t \in Logs(R2, W2), NEW u \in Logs(R2, W2), t.round = u.round
      PROVE  Agree(t, u)
  <2>1. PICK t0 \in Logs(R, W) : t \in Log /\ t0 \in Log /\ Suffix(t, t0)
    BY ShiftLogs
  <2>2. PICK u0 \in Logs(R, W) : u \in Log /\ u0 \in Log /\ Suffix(u, u0)
    BY ShiftLogs
  <2>3. /\ t.round = t0.round /\ Slots(t) \subseteq Slots(t0)
        /\ \A k \in Slots(t) : At(t, k) = At(t0, k)
    BY <2>1, SuffixCovers
  <2>4. /\ u.round = u0.round /\ Slots(u) \subseteq Slots(u0)
        /\ \A k \in Slots(u) : At(u, k) = At(u0, k)
    BY <2>2, SuffixCovers
  <2>5. Agree(t0, u0)
    BY <1>1, <2>3, <2>4 DEF LogsAgree
  <2> QED
    BY <2>3, <2>4, <2>5 DEF Agree
<1>2. ASSUME NEW i \in Replicas, NEW t \in Logs(R2, W2), Leads(R2, i), t.round = R2[i].ack
      PROVE  EndOf(t) <= LogEnd(R2[i])
  <2>1. PICK t0 \in Logs(R, W) : t \in Log /\ t0 \in Log /\ Suffix(t, t0)
    BY ShiftLogs
  <2>2. Leads(R, i) /\ R2[i].ack = R[i].ack /\ LogEnd(R2[i]) = LogEnd(R[i])
    BY <1>2, ShiftReplica
  <2> QED
    BY <1>2, <2>1, <2>2 DEF LogsAgree, Suffix
<1> QED
  BY <1>1, <1>2 DEF LogsAgree

\* How a handler's bookkeeping changes what a leader counts: not at all, or
\* by an acknowledgment that is on its way.
Counted(R, W, R2) ==
    \A i, q \in Replicas : Leads(R2, i) =>
       \/ R2[i].acks[q] = R[i].acks[q]
       \/ \E m \in W[q][i] : m.type = "ACK" /\ m.round = R[i].ack /\ m.slot = R2[i].acks[q]

\* A shift that truncates what is settled, and decides what is decided, leaves a
\* witness for every index.
LEMMA ShiftWitnesses ==
    ASSUME NEW R, NEW W, NEW R2, NEW W2, NEW c \in Seq(Requests), Shift(R, W, R2, W2),
           Indices(R, c), Witnesses(R, W, c), Votes(R, W, c),
           \A i \in Replicas : /\ Settled(R, W, c, R2[i].base, R[i].ack)
                              /\ Decided(R, W, c, R2[i].decided, R[i].ack)
    PROVE  Witnesses(R2, W2, c)
<1>1. Typed(R, W) /\ Typed(R2, W2) /\ Len(c) \in Nat
  BY LenProperties DEF Shift
<1>2. \E r \in Nat : Decided(R2, W2, c, Len(c), r)
  BY <1>1, ShiftSettled DEF Witnesses
<1>3. ASSUME NEW i \in Replicas
      PROVE  Settled(R2, W2, c, R2[i].base, R2[i].ack) /\ Decided(R2, W2, c, R2[i].decided, R2[i].ack)
  BY ShiftReplica, ReplicaFields, ShiftSettled
<1>4. ASSUME NEW m \in Reports(R2, W2)
      PROVE  Settled(R2, W2, c, m.slot, m.ack) /\ \E j \in Replicas : m.slot <= R2[j].applied
  <2>1. m.slot \in Nat /\ m.ack \in Nat /\ m.sender \in Replicas
    BY <1>1, ReportTypes
  <2>2. \A j \in Replicas : R2[j].applied >= R[j].applied /\ R[j].applied \in Nat /\ R2[j].applied \in Nat
    BY ShiftReplica, ReplicaFields
  <2>3. CASE m \in Reports(R, W)
    BY <2>1, <2>2, <2>3, ShiftSettled DEF Witnesses
  <2>4. CASE Reported(m) = Held(R[m.sender])
    <3>1. m.ack = R[m.sender].ack /\ m.slot = R[m.sender].base
      BY <1>1, <2>1, <2>4, RecordAt, ReplicaFields, ReportTypes
    <3>2. Settled(R, W, c, m.slot, m.ack) /\ m.slot <= R[m.sender].applied
      BY <2>1, <3>1 DEF Witnesses, Indices, ReplicaIndices
    <3> QED
      BY <2>1, <2>2, <3>2, ShiftSettled
  <2> QED
    BY <2>3, <2>4 DEF Shift
<1>5. ASSUME NEW p \in Replicas, NEW q \in Replicas, NEW m \in W2[p][q], m.type = "PROPOSE"
      PROVE  ProposeWitnessed(R2, W2, c, q, m)
  <2>1. m.slot \in Nat /\ m.trunc \in Nat /\ m.decided \in Nat /\ m.round \in Nat
    BY <1>1, <1>5, MessageFields DEF Typed
  <2>2. ProposeWitnessed(R, W, c, q, m) => ProposeWitnessed(R2, W2, c, q, m)
    BY <2>1, ShiftReplica, ShiftSettled DEF ProposeWitnessed
  <2>3. CASE m \in W[p][q]
    BY <1>5, <2>2, <2>3 DEF Witnesses
  <2>4. CASE m \notin W[p][q]
    <3>1. /\ Leads(R, p) /\ m.round = R[p].ack
          /\ m.trunc <= R[p].base /\ m.decided <= R[p].decided
          /\ m.slot <= R[p].base \/ m.slot <= R[p].acks[q]
      BY <1>5, <2>4 DEF Shift
    <3>2. R[p].base \in Nat /\ R[p].decided \in Nat /\ R[p].acks[q] \in Nat
      BY <1>1, RecordAt, ReplicaFields
    <3>3. Settled(R, W, c, R[p].base, m.round) /\ Decided(R, W, c, R[p].decided, m.round)
      BY <3>1 DEF Witnesses
    <3>4. Settled(R, W, c, m.trunc, m.round) /\ Decided(R, W, c, m.decided, m.round)
      BY <1>1, <2>1, <3>1, <3>2, <3>3, SettledLess
    <3>5. m.slot <= R[p].base => Settled(R, W, c, m.slot, m.round)
      BY <1>1, <2>1, <3>2, <3>3, SettledLess
    <3>6. ASSUME m.slot <= R[p].acks[q]
          PROVE  \/ Settled(R, W, c, m.slot, m.round)
                 \/ R[q].ack >= m.round /\ (R[q].ack = m.round => LogEnd(R[q]) >= m.slot)
      <4>1. Backed(R, W, c, q, R[p].acks[q], m.round)
        BY <3>1 DEF Votes
      <4>2. Backed(R, W, c, q, m.slot, m.round)
        BY <1>1, <2>1, <3>2, <3>6, <4>1, BackedLess
      <4> QED
        BY <4>2 DEF Backed, Voted
    <3> QED
      BY <2>2, <3>1, <3>4, <3>5, <3>6 DEF ProposeWitnessed
  <2> QED
    BY <2>3, <2>4
<1> QED
  BY <1>2, <1>3, <1>4, <1>5 DEF Witnesses

\* A shift in which a leader counts nothing new leaves its counts true.
LEMMA ShiftVotes ==
    ASSUME NEW R, NEW W, NEW R2, NEW W2, NEW c \in Seq(Requests), Shift(R, W, R2, W2),
           Rounds(R, W), LogsAgree(R, W), Votes(R, W, c), Counted(R, W, R2)
    PROVE  Votes(R2, W2, c)
<1> SUFFICES ASSUME NEW i \in Replicas, NEW q \in Replicas, Leads(R2, i)
             PROVE  /\ Backed(R2, W2, c, q, R2[i].acks[q], R2[i].ack)
                    /\ \A m \in W2[q][i] : m.type = "ACK" /\ m.round = R2[i].ack =>
                          m.slot <= LogEnd(R2[i]) /\ Backed(R2, W2, c, q, m.slot, R2[i].ack)
  BY DEF Votes
<1>1. Typed(R, W) /\ Typed(R2, W2)
  BY DEF Shift
<1>2. /\ Leads(R, i) /\ R2[i].ack = R[i].ack /\ LogEnd(R2[i]) = LogEnd(R[i])
      /\ R[i].ack \in Nat /\ R2[i].acks[q] \in Nat
  BY ShiftReplica, ReplicaFields
<1>3. Backed(R, W, c, q, R2[i].acks[q], R[i].ack)
  BY <1>2 DEF Counted, Votes
<1>4. Backed(R2, W2, c, q, R2[i].acks[q], R2[i].ack)
  BY <1>2, <1>3, ShiftBacked
<1>5. ASSUME NEW m \in W2[q][i], m.type = "ACK", m.round = R2[i].ack
      PROVE  m.slot <= LogEnd(R2[i]) /\ Backed(R2, W2, c, q, m.slot, R2[i].ack)
  <2>1. m.slot \in Nat
    BY <1>1, <1>5, MessageFields DEF Typed
  <2>2. m.slot <= LogEnd(R[i]) /\ Backed(R, W, c, q, m.slot, R[i].ack)
    <3>1. CASE m \in W[q][i]
      BY <1>2, <1>5, <3>1 DEF Votes
    <3>2. CASE m \notin W[q][i]
      <4>1. m.round = R[q].ack /\ m.slot = LogEnd(R[q])
        BY <1>5, <3>2 DEF Shift
      <4>2. Voted(R, W, q, m.slot, R[i].ack)
        BY <1>1, <1>2, <1>5, <4>1, OwnVote
      <4>3. Held(R[q]) \in Logs(R, W) /\ Held(R[q]).round = R[i].ack /\ EndOf(Held(R[q])) = m.slot
        BY <1>1, <1>2, <1>5, <4>1, InLogs, RecordAt, ReplicaFields
      <4> QED
        BY <1>2, <4>2, <4>3 DEF Backed, LogsAgree
    <3> QED
      BY <3>1, <3>2
  <2> QED
    BY <1>2, <2>1, <2>2, ShiftBacked
<1> QED
  BY <1>4, <1>5

\* The same, of what a leader may yet choose.
LEMMA ShiftSafe ==
    ASSUME NEW R, NEW W, NEW R2, NEW W2, Shift(R, W, R2, W2), Safe(R, W), Counted(R, W, R2)
    PROVE  Safe(R2, W2)
<1> SUFFICES ASSUME NEW i \in Replicas, Leads(R2, i), NEW t \in Logs(R2, W2),
                    t.round > R2[i].ack, NEW n \in 0..LogEnd(R2[i])
             PROVE  SafeFor(R2, W2, i, t, n)
  BY DEF Safe
<1>1. Typed(R, W) /\ Typed(R2, W2)
  BY DEF Shift
<1>2. PICK u \in Logs(R, W) : t \in Log /\ u \in Log /\ Suffix(t, u)
  BY ShiftLogs
<1>3. /\ t.round = u.round /\ EndOf(t) = EndOf(u) /\ Slots(t) \subseteq Slots(u)
      /\ \A k \in Slots(t) : At(t, k) = At(u, k)
  BY <1>2, SuffixCovers
<1>4. /\ Leads(R, i) /\ R2[i].ack = R[i].ack /\ LogEnd(R2[i]) = LogEnd(R[i])
      /\ R[i].ack \in Nat
      /\ Held(R[i]) \in Log /\ Held(R2[i]) \in Log /\ Suffix(Held(R2[i]), Held(R[i]))
  BY ShiftReplica, ReplicaFields
<1>5. /\ Slots(Held(R2[i])) \subseteq Slots(Held(R[i]))
      /\ \A k \in Slots(Held(R2[i])) : At(Held(R2[i]), k) = At(Held(R[i]), k)
  BY <1>4, SuffixCovers
<1>6. SafeFor(R, W, i, u, n)
  BY <1>3, <1>4 DEF Safe
<1>7. ASSUME NEW q \in Replicas, Accepted(R2, W2, i, q, n)
      PROVE  Accepted(R, W, i, q, n)
  <2>1. R2[q].ack = R[q].ack /\ LogEnd(R2[q]) = LogEnd(R[q])
    BY ShiftReplica
  <2>2. CASE R2[i].acks[q] >= n
    BY <2>2 DEF Counted, Accepted
  <2>3. CASE R2[q].ack = R2[i].ack /\ LogEnd(R2[q]) >= n
    BY <1>4, <2>1, <2>3 DEF Accepted
  <2>4. ASSUME NEW m \in W2[q][i], m.type = "ACK", m.round = R2[i].ack, m.slot >= n
        PROVE  Accepted(R, W, i, q, n)
    <3>1. CASE m \in W[q][i]
      BY <1>4, <2>4, <3>1 DEF Accepted
    <3>2. CASE m \notin W[q][i]
      BY <1>4, <2>4, <3>2 DEF Shift, Accepted
    <3> QED
      BY <3>1, <3>2
  <2> QED
    BY <1>7, <2>2, <2>3, <2>4 DEF Accepted
<1>8. CASE /\ EndOf(u) >= n
           /\ \A k \in Slots(u) \cap Slots(Held(R[i])) : k < n => At(u, k) = At(Held(R[i]), k)
  BY <1>3, <1>5, <1>8 DEF SafeFor
<1>9. ASSUME NEW Q \in Quorums, \A q \in Q : R[q].probe > R[i].ack /\ ~Accepted(R, W, i, q, n)
      PROVE  SafeFor(R2, W2, i, t, n)
  <2>1. \A q \in Q : R2[q].probe >= R[q].probe /\ R[q].probe \in Nat /\ R2[q].probe \in Nat
    BY QuorumMembers, ShiftReplica, ReplicaFields
  <2>2. \A q \in Q : R2[q].probe > R2[i].ack /\ ~Accepted(R2, W2, i, q, n)
    BY <1>4, <1>7, <1>9, <2>1, QuorumMembers
  <2> QED
    BY <2>2 DEF SafeFor
<1> QED
  BY <1>6, <1>8, <1>9 DEF SafeFor

\* Sends and bookkeeping keep the invariant.
LEMMA ShiftCore ==
    ASSUME NEW R, NEW W, NEW R2, NEW W2, NEW c, Core(R, W, c), Shift(R, W, R2, W2),
           Counted(R, W, R2), Indices(R2, c),
           \A i \in Replicas : /\ ReplicaRounds(R2, i)
                              /\ Settled(R, W, c, R2[i].base, R[i].ack)
                              /\ Decided(R, W, c, R2[i].decided, R[i].ack),
           \A p, q \in Replicas : \A m \in W2[p][q] : m \notin W[p][q] => MessageRounds(R2, p, q, m)
    PROVE  Core(R2, W2, c)
<1>1. c \in Seq(Requests) /\ Typed(R2, W2)
  BY DEF Core, Shift
<1>2. Rounds(R2, W2)
  BY ShiftRounds DEF Core
<1>3. LogsAgree(R2, W2) /\ Witnesses(R2, W2, c) /\ Votes(R2, W2, c) /\ Safe(R2, W2)
  BY <1>1, ShiftLogsAgree, ShiftWitnesses, ShiftVotes, ShiftSafe DEF Core
<1> QED
  BY <1>1, <1>2, <1>3 DEF Core
-----------------------------------------------------------------------------
(* A decision: more of the leader's log is chosen.                         *)

Extends(d, c) == Len(c) <= Len(d) /\ \A k \in 1..Len(c) : d[k] = c[k]

\* What is chosen stays chosen when more is.
LEMMA ExtendsChosen ==
    ASSUME NEW R, NEW W, Typed(R, W), NEW c \in Seq(Requests), NEW d \in Seq(Requests),
           Extends(d, c), NEW Q \in SUBSET Replicas, NEW n \in Nat, NEW r \in Nat,
           Chosen(R, W, c, Q, n, r)
    PROVE  Chosen(R, W, d, Q, n, r)
<1>1. n <= Len(c) /\ Len(c) \in Nat /\ Len(d) \in Nat /\ n <= Len(d)
  BY LenProperties DEF Chosen, Extends
<1>2. ASSUME NEW t \in Log
      PROVE  (Matches(t, c, n) => Matches(t, d, n)) /\ (Covers(t, c, n) => Covers(t, d, n))
  <2>1. \A k \in Slots(t) : k < n => k + 1 \in 1..Len(c)
    BY <1>1, LogFields
  <2>2. \A k \in Slots(t) : k < n => c[k + 1] = d[k + 1]
    BY <2>1 DEF Extends
  <2> QED
    BY <2>2 DEF Matches, Covers
<1>3. \A i \in Replicas : Held(R[i]) \in Log
  BY RecordAt, ReplicaFields
<1>4. \A m \in Reports(R, W) : Reported(m) \in Log
  BY ReportTypes
<1>5. \A q \in Q : R[q].ack >= r /\ Covers(Held(R[q]), d, n)
  BY <1>2, <1>3 DEF Chosen
<1>6. \A m \in Reports(R, W) : m.sender \in Q /\ m.round > r => m.ack >= r /\ Covers(Reported(m), d, n)
  BY <1>2, <1>4 DEF Chosen
<1>7. \A t \in Logs(R, W) : (t.round > r => Covers(t, d, n)) /\ (t.round = r => Matches(t, d, n))
  BY <1>2, LogTypes DEF Chosen
<1>8. \A i \in Replicas : Leads(R, i) /\ R[i].ack = r => Covers(Held(R[i]), d, n)
  BY <1>2, <1>3 DEF Chosen
<1> QED
  BY <1>1, <1>5, <1>6, <1>7, <1>8 DEF Chosen

\* What is settled or decided of c is so of every sequence that goes on from c.
LEMMA ExtendsSettled ==
    ASSUME NEW R, NEW W, Typed(R, W), NEW c \in Seq(Requests), NEW d \in Seq(Requests),
           Extends(d, c), NEW n \in Nat, NEW r \in Nat
    PROVE  /\ Settled(R, W, c, n, r) => Settled(R, W, d, n, r)
           /\ Decided(R, W, c, n, r) => Decided(R, W, d, n, r)
           /\ \A q \in Replicas : Backed(R, W, c, q, n, r) => Backed(R, W, d, q, n, r)
<1>1. Settled(R, W, c, n, r) => Settled(R, W, d, n, r)
  BY ExtendsChosen DEF Settled
<1>2. Decided(R, W, c, n, r) => Decided(R, W, d, n, r)
  BY ExtendsChosen, QuorumMembers DEF Decided
<1> QED
  BY <1>1, <1>2 DEF Backed

\* All of the invariant but that c itself is chosen speaks of what c begins with.
LEMMA ExtendsCore ==
    ASSUME NEW R, NEW W, NEW c, Core(R, W, c), NEW d \in Seq(Requests), Extends(d, c),
           \E r \in Nat : Decided(R, W, d, Len(d), r)
    PROVE  Core(R, W, d)
<1>1. Typed(R, W) /\ c \in Seq(Requests) /\ Len(c) \in Nat /\ Len(d) \in Nat
  BY LenProperties DEF Core
<1>2. Indices(R, d)
  <2> SUFFICES ASSUME NEW i \in Replicas
               PROVE  ReplicaIndices(R[i], d) /\ (Leads(R, i) => LeaderIndices(R[i], i))
    BY DEF Indices
  <2>1. ReplicaIndices(R[i], c) /\ (Leads(R, i) => LeaderIndices(R[i], i))
    BY DEF Core, Indices
  <2>2. R[i].applied \in Nat /\ R[i].decided \in Nat
    BY <1>1, RecordAt, ReplicaFields
  <2>3. R[i].applied <= Len(c) /\ R[i].decided <= Len(d)
    BY <1>1, <2>1, <2>2 DEF ReplicaIndices, Extends
  <2>4. SubSeq(c, 1, R[i].applied) = SubSeq(d, 1, R[i].applied)
    <3>1. \A k \in 1..R[i].applied : c[k] = d[k]
      BY <1>1, <2>2, <2>3 DEF Extends
    <3> QED
      BY <1>1, <2>2, <2>3, <3>1
  <2> QED
    BY <2>1, <2>3, <2>4 DEF ReplicaIndices
<1>3. Witnesses(R, W, d)
  <2>1. ASSUME NEW i \in Replicas
        PROVE  Settled(R, W, d, R[i].base, R[i].ack) /\ Decided(R, W, d, R[i].decided, R[i].ack)
    <3>1. R[i].base \in Nat /\ R[i].ack \in Nat /\ R[i].decided \in Nat
      BY <1>1, RecordAt, ReplicaFields
    <3> QED
      BY <1>1, <3>1, ExtendsSettled DEF Core, Witnesses
  <2>2. ASSUME NEW m \in Reports(R, W)
        PROVE  Settled(R, W, d, m.slot, m.ack) /\ \E j \in Replicas : m.slot <= R[j].applied
    BY <1>1, ReportTypes, ExtendsSettled DEF Core, Witnesses
  <2>3. ASSUME NEW p \in Replicas, NEW q \in Replicas, NEW m \in W[p][q], m.type = "PROPOSE"
        PROVE  ProposeWitnessed(R, W, d, q, m)
    <3>1. m.slot \in Nat /\ m.trunc \in Nat /\ m.decided \in Nat /\ m.round \in Nat
      BY <1>1, <2>3, MessageFields DEF Typed
    <3>2. ProposeWitnessed(R, W, c, q, m)
      BY <2>3 DEF Core, Witnesses
    <3> QED
      BY <1>1, <3>1, <3>2, ExtendsSettled DEF ProposeWitnessed
  <2> QED
    BY <2>1, <2>2, <2>3 DEF Witnesses
<1>4. Votes(R, W, d)
  <2> SUFFICES ASSUME NEW i \in Replicas, NEW q \in Replicas, Leads(R, i)
               PROVE  /\ Backed(R, W, d, q, R[i].acks[q], R[i].ack)
                      /\ \A m \in W[q][i] : m.type = "ACK" /\ m.round = R[i].ack =>
                            m.slot <= LogEnd(R[i]) /\ Backed(R, W, d, q, m.slot, R[i].ack)
    BY DEF Votes
  <2>1. R[i].acks[q] \in Nat /\ R[i].ack \in Nat
    BY <1>1, RecordAt, ReplicaFields
  <2>2. Backed(R, W, d, q, R[i].acks[q], R[i].ack)
    BY <1>1, <2>1, ExtendsSettled DEF Core, Votes
  <2>3. ASSUME NEW m \in W[q][i], m.type = "ACK", m.round = R[i].ack
        PROVE  m.slot <= LogEnd(R[i]) /\ Backed(R, W, d, q, m.slot, R[i].ack)
    <3>1. m.slot \in Nat
      BY <1>1, <2>3, MessageFields DEF Typed
    <3>2. m.slot <= LogEnd(R[i]) /\ Backed(R, W, c, q, m.slot, R[i].ack)
      BY <2>3 DEF Core, Votes
    <3> QED
      BY <1>1, <2>1, <3>1, <3>2, ExtendsSettled
  <2> QED
    BY <2>2, <2>3
<1> QED
  BY <1>2, <1>3, <1>4 DEF Core

\* What a quorum accepted from a leader is in every log of a later round.
LEMMA LaterLogsHave ==
    ASSUME NEW R, NEW W, NEW c, Core(R, W, c), NEW i \in Replicas, Leads(R, i),
           NEW n \in 0..LogEnd(R[i]), NEW Q \in Quorums, \A q \in Q : R[i].acks[q] >= n,
           NEW t \in Logs(R, W), t.round > R[i].ack
    PROVE  /\ EndOf(t) >= n
           /\ \A k \in Slots(t) \cap Slots(Held(R[i])) : k < n => At(t, k) = At(Held(R[i]), k)
<1>1. SafeFor(R, W, i, t, n)
  BY DEF Core, Safe
<1>2. ASSUME NEW P \in Quorums, \A q \in P : ~Accepted(R, W, i, q, n)
      PROVE  FALSE
  <2>1. PICK q \in Replicas : q \in P /\ q \in Q
    BY QuorumsMeet
  <2> QED
    BY <1>2, <2>1 DEF Accepted
<1> QED
  BY <1>1, <1>2 DEF SafeFor

\* A decision of the leader i: n slots of its log that a quorum has
\* acknowledged are chosen, if need be by a longer sequence of choices; and if
\* all replicas have, they may be truncated.
LEMMA Decide ==
    ASSUME NEW R, NEW W, NEW c, Core(R, W, c), NEW i \in Replicas, Leads(R, i),
           NEW n \in 0..LogEnd(R[i]), NEW Q \in Quorums, \A q \in Q : R[i].acks[q] >= n
    PROVE  \E d \in Seq(Requests) :
             /\ Extends(d, c) /\ Core(R, W, d) /\ Decided(R, W, d, n, R[i].ack)
             /\ Q = Replicas => Settled(R, W, d, n, R[i].ack)
             /\ \A k \in 1..Len(d) : \/ k <= Len(c)
                                     \/ \E t \in Logs(R, W) : k - 1 \in Slots(t) /\ At(t, k - 1) = d[k]
<1> DEFINE r == R[i].ack
           h == Held(R[i])
<1>1. /\ Typed(R, W) /\ c \in Seq(Requests) /\ Len(c) \in Nat
      /\ R[i] \in ReplicaRecord /\ r \in Nat /\ R[i].base \in Nat /\ LogEnd(R[i]) \in Nat /\ n \in Nat
      /\ h \in Log /\ h \in Logs(R, W) /\ h.round = r /\ h.slot = R[i].base /\ EndOf(h) = LogEnd(R[i])
      /\ n <= EndOf(h)
  <2>1. Typed(R, W) /\ c \in Seq(Requests) /\ Len(c) \in Nat
    BY LenProperties DEF Core
  <2>2. R[i] \in ReplicaRecord
    BY <2>1, RecordAt
  <2> QED
    BY <2>1, <2>2, ReplicaFields, InLogs
<1>2. \A q \in Q : Backed(R, W, c, q, n, r)
  <2> SUFFICES ASSUME NEW q \in Q
               PROVE  Backed(R, W, c, q, n, r)
    OBVIOUS
  <2>1. q \in Replicas /\ R[i].acks[q] \in Nat
    BY <1>1, QuorumMembers, ReplicaFields
  <2>2. Backed(R, W, c, q, R[i].acks[q], r)
    BY <2>1 DEF Core, Votes
  <2> QED
    BY <1>1, <2>1, <2>2, BackedLess
<1>3. CASE Settled(R, W, c, n, r)
  <2>1. Decided(R, W, c, n, r) /\ Extends(c, c)
    BY <1>1, <1>3, SettledLess DEF Extends
  <2>2. \A k \in 1..Len(c) : k <= Len(c)
    BY <1>1
  <2> QED
    BY <1>1, <1>3, <2>1, <2>2
<1>4. CASE \A q \in Q : Voted(R, W, q, n, r)
  <2> DEFINE d == IF n <= Len(c) THEN c
                  ELSE [k \in 1..n |-> IF k <= Len(c) THEN c[k] ELSE At(h, k - 1)]
  <2>1. ASSUME NEW t \in Logs(R, W), t.round > r
        PROVE  /\ EndOf(t) >= n
               /\ \A k \in Slots(t) \cap Slots(h) : k < n => At(t, k) = At(h, k)
    BY <2>1, LaterLogsHave
  <2>2. ASSUME NEW t \in Logs(R, W), t.round = r
        PROVE  \A k \in Slots(t) \cap Slots(h) : At(t, k) = At(h, k)
    BY <1>1, <2>2 DEF Core, LogsAgree, Agree
  <2>3. Settled(R, W, c, R[i].base, r) /\ R[i].base <= Len(c)
    <3>1. Settled(R, W, c, R[i].base, r)
      BY DEF Core, Witnesses
    <3> QED
      BY <3>1 DEF Settled, Chosen
  <2>4. ASSUME NEW k \in Slots(h), k < n, k < Len(c)
        PROVE  At(h, k) = c[k + 1]
    <3>1. PICK r0 \in Nat : Decided(R, W, c, Len(c), r0)
      BY DEF Core, Witnesses
    <3>2. PICK P \in Quorums, s \in 0..r0 : Chosen(R, W, c, P, Len(c), s)
      BY <3>1 DEF Decided
    <3>3. CASE s <= r
      <4>1. Matches(h, c, Len(c))
        BY <1>1, <3>2, <3>3 DEF Chosen, Covers
      <4> QED
        BY <2>4, <4>1 DEF Matches
    <3>4. CASE s > r
      <4>1. PICK q \in Replicas : q \in P
        BY QuorumsMeet
      <4>2. R[q].ack >= s /\ Covers(Held(R[q]), c, Len(c))
        BY <3>2, <4>1 DEF Chosen
      <4>3. /\ R[q].ack \in Nat /\ R[q].base \in Nat /\ Held(R[q]) \in Log
            /\ Held(R[q]) \in Logs(R, W) /\ Held(R[q]).round = R[q].ack /\ Held(R[q]).slot = R[q].base
        BY <1>1, RecordAt, ReplicaFields, InLogs
      <4>4. CASE k < R[q].base
        <5>1. Covers(h, c, R[q].base)
          BY <1>1, <4>3, SettledCovers DEF Core, Witnesses
        <5> QED
          BY <4>4, <5>1 DEF Covers, Matches
      <4>5. CASE k >= R[q].base
        <5>1. k \in Nat /\ k \in Slots(Held(R[q]))
          BY <1>1, <2>4, <4>2, <4>3, <4>5, LogFields DEF Covers
        <5>2. At(Held(R[q]), k) = c[k + 1]
          BY <2>4, <4>2, <5>1 DEF Covers, Matches
        <5>3. At(Held(R[q]), k) = At(h, k)
          BY <1>1, <2>1, <2>4, <3>4, <4>2, <4>3, <5>1
        <5> QED
          BY <5>2, <5>3
      <4> QED
        BY <1>1, <4>3, <4>4, <4>5, LogFields
    <3> QED
      BY <1>1, <3>2, <3>3, <3>4
  <2>5. /\ d \in Seq(Requests) /\ Len(d) \in Nat /\ n <= Len(d)
        /\ Extends(d, c)
        /\ Len(d) = Len(c) \/ Len(d) = n
        /\ \A k \in 1..Len(d) : k <= Len(c) \/ (k - 1 \in Slots(h) /\ At(h, k - 1) = d[k])
    <3>1. CASE n <= Len(c)
      BY <1>1, <3>1 DEF Extends
    <3>2. CASE n > Len(c)
      <4>1. d = [k \in 1..n |-> IF k <= Len(c) THEN c[k] ELSE At(h, k - 1)]
        BY <1>1, <3>2
      <4>2. \A k \in 1..n : k > Len(c) => k - 1 \in Slots(h) /\ At(h, k - 1) \in Requests
        BY <1>1, <2>3, LogFields
      <4>3. \A k \in 1..n : k <= Len(c) => c[k] \in Requests
        BY <1>1, ElementOfSeq
      <4>4. \A k \in 1..n : (IF k <= Len(c) THEN c[k] ELSE At(h, k - 1)) \in Requests
        BY <1>1, <4>2, <4>3
      <4>5. d \in Seq(Requests) /\ Len(d) = n
        BY <1>1, <4>1, <4>4, IsASeq
      <4>6. \A k \in 1..n : d[k] = IF k <= Len(c) THEN c[k] ELSE At(h, k - 1)
        BY <4>1
      <4> QED
        BY <1>1, <3>2, <4>2, <4>5, <4>6 DEF Extends
    <3>3. n <= Len(c) \/ n > Len(c)
      BY <1>1
    <3> QED
      BY <3>1, <3>2, <3>3
  <2> HIDE DEF d
  <2>6. \A k \in Slots(h) : k < n => At(h, k) = d[k + 1]
    <3> SUFFICES ASSUME NEW k \in Slots(h), k < n
                 PROVE  At(h, k) = d[k + 1]
      OBVIOUS
    <3>1. k \in Nat
      BY <1>1, LogFields
    <3>2. CASE k < Len(c)
      <4>1. d[k + 1] = c[k + 1]
        BY <1>1, <2>5, <3>1, <3>2 DEF Extends
      <4> QED
        BY <2>4, <3>2, <4>1
    <3>3. CASE k >= Len(c)
      <4>1. k + 1 \in 1..Len(d) /\ k + 1 > Len(c) /\ (k + 1) - 1 = k
        BY <1>1, <2>5, <3>1, <3>3
      <4> QED
        BY <1>1, <2>5, <4>1
    <3> QED
      BY <1>1, <3>1, <3>2, <3>3
  <2>7. ASSUME NEW t \in Logs(R, W), t.round >= r,
               \A k \in Slots(t) \cap Slots(h) : k < n => At(t, k) = At(h, k)
        PROVE  Matches(t, d, n)
    <3> SUFFICES ASSUME NEW k \in Slots(t), k < n
                 PROVE  At(t, k) = d[k + 1]
      BY DEF Matches
    <3>1. t \in Log /\ k \in Nat /\ t.round \in Nat
      BY <1>1, LogTypes, LogFields
    <3>2. CASE k < R[i].base
      <4>1. Matches(t, c, R[i].base)
        BY <1>1, <2>3, <2>7, <3>1, SettledCovers DEF Covers
      <4>2. At(t, k) = c[k + 1]
        BY <3>2, <4>1 DEF Matches
      <4>3. k + 1 \in 1..Len(c)
        BY <1>1, <2>3, <3>1, <3>2
      <4> QED
        BY <2>5, <4>2, <4>3 DEF Extends
    <3>3. CASE k >= R[i].base
      <4>1. k \in Slots(h)
        BY <1>1, <3>1, <3>3, LogFields
      <4> QED
        BY <2>6, <2>7, <4>1
    <3> QED
      BY <1>1, <3>1, <3>2, <3>3
  <2>8. \A t \in Logs(R, W) : (t.round > r => Covers(t, d, n)) /\ (t.round = r => Matches(t, d, n))
    <3> SUFFICES ASSUME NEW t \in Logs(R, W)
                 PROVE  (t.round > r => Covers(t, d, n)) /\ (t.round = r => Matches(t, d, n))
      OBVIOUS
    <3>1. t.round \in Nat
      BY <1>1, LogTypes, LogFields
    <3>2. CASE t.round > r
      BY <1>1, <2>1, <2>7, <3>1, <3>2 DEF Covers
    <3>3. CASE t.round = r
      BY <1>1, <2>2, <2>7, <3>1, <3>3
    <3> QED
      BY <3>2, <3>3
  <2>9. \A q \in Q : R[q].ack >= r /\ Covers(Held(R[q]), d, n)
    <3> SUFFICES ASSUME NEW q \in Q
                 PROVE  R[q].ack >= r /\ Covers(Held(R[q]), d, n)
      OBVIOUS
    <3>1. /\ q \in Replicas /\ R[q].ack \in Nat /\ Held(R[q]) \in Logs(R, W)
          /\ Held(R[q]).round = R[q].ack /\ EndOf(Held(R[q])) = LogEnd(R[q])
      BY <1>1, QuorumMembers, RecordAt, ReplicaFields, InLogs
    <3>2. R[q].ack >= r /\ (R[q].ack = r => LogEnd(R[q]) >= n)
      BY <1>4 DEF Voted
    <3> QED
      BY <1>1, <2>8, <3>1, <3>2 DEF Covers
  <2>10. ASSUME NEW m \in Reports(R, W), m.sender \in Q, m.round > r
         PROVE  m.ack >= r /\ Covers(Reported(m), d, n)
    <3>1. /\ m.ack \in Nat /\ Reported(m) \in Logs(R, W) /\ Reported(m).round = m.ack
          /\ EndOf(Reported(m)) = EndOf(m)
      BY <1>1, ReportTypes, InLogs
    <3>2. m.ack >= r /\ (m.ack = r => EndOf(m) >= n)
      BY <1>4, <2>10 DEF Voted
    <3> QED
      BY <1>1, <2>8, <3>1, <3>2 DEF Covers
  <2>11. R[Owner(r)].ack >= r /\ \A j \in Replicas : Leads(R, j) /\ R[j].ack = r => j = i
    <3>1. \A j \in Replicas : Leads(R, j) => Owner(R[j].ack) = j
      BY DEF Core, Rounds, ReplicaRounds
    <3> QED
      BY <1>1, <3>1
  <2>12. Covers(h, d, n)
    BY <1>1, <2>6 DEF Covers, Matches
  <2>13. Chosen(R, W, d, Q, n, r)
    BY <2>5, <2>8, <2>9, <2>10, <2>11, <2>12 DEF Chosen
  <2>14. Decided(R, W, d, n, r) /\ (Q = Replicas => Settled(R, W, d, n, r))
    BY <1>1, <2>13 DEF Decided, Settled
  <2>15. \E s \in Nat : Decided(R, W, d, Len(d), s)
    <3>1. CASE Len(d) = n
      BY <1>1, <2>14, <3>1
    <3>2. CASE Len(d) = Len(c)
      <4>1. PICK s \in Nat : Decided(R, W, c, Len(c), s)
        BY DEF Core, Witnesses
      <4> QED
        BY <1>1, <2>5, <3>2, <4>1, ExtendsSettled
    <3> QED
      BY <2>5, <3>1, <3>2
  <2>16. Core(R, W, d)
    BY <2>5, <2>15, ExtendsCore
  <2> QED
    BY <1>1, <2>5, <2>14, <2>16
<1> QED
  BY <1>2, <1>3, <1>4 DEF Backed

-----------------------------------------------------------------------------
(* One replica writes its log.                                             *)

\* Of R only the record of i changes, its collected PREPAREs only by being
\* cleared.
OnlyAt(R, R2, i) ==
    /\ \A q \in Replicas \ {i} : R2[q] = R[q]
    /\ R2[i].prepares = R[i].prepares \/ R2[i].prepares = <<>>

\* A change of one replica brings no log but the replica's own.
LEMMA OnlyAtLogs ==
    ASSUME NEW R, NEW W, NEW R2, NEW i \in Replicas, OnlyAt(R, R2, i)
    PROVE  /\ Reports(R2, W) \subseteq Reports(R, W)
           /\ \A t \in Logs(R2, W) : t = Held(R2[i]) \/ t \in Logs(R, W)
<1>1. ASSUME NEW m \in Reports(R2, W)
      PROVE  m \in Reports(R, W)
  <2>1. CASE \E p, q \in Replicas : m \in W[p][q] /\ m.type = "PREPARE"
    BY <2>1, InReports
  <2>2. ASSUME NEW j \in Replicas, NEW k \in DOMAIN R2[j].prepares, m = R2[j].prepares[k]
        PROVE  m \in Reports(R, W)
    <3>1. R2[j].prepares = R[j].prepares
      BY <2>2 DEF OnlyAt
    <3> QED
      BY <2>2, <3>1, InReports
  <2> QED
    BY <2>1, <2>2, InReports
<1>2. ASSUME NEW t \in Logs(R2, W), t # Held(R2[i])
      PROVE  t \in Logs(R, W)
  <2>1. ASSUME NEW q \in Replicas, t = Held(R2[q])
        PROVE  t \in Logs(R, W)
    BY <1>2, <2>1, InLogs DEF OnlyAt
  <2>2. ASSUME NEW m \in Reports(R2, W), t = Reported(m)
        PROVE  t \in Logs(R, W)
    BY <1>1, <2>2, InLogs
  <2>3. ASSUME NEW p \in Replicas, NEW q \in Replicas, NEW m \in W[p][q],
               m.type = "PROPOSE", t = Offered(m)
        PROVE  t \in Logs(R, W)
    BY <2>3, InLogs
  <2> QED
    BY <2>1, <2>2, <2>3, InLogs
<1> QED
  BY <1>1, <1>2

\* A leader that appends one entry to its log.
Grows(R, W, R2, i) ==
    /\ Typed(R, W) /\ Typed(R2, W) /\ Leads(R, i) /\ Leads(R2, i)
    /\ OnlyAt(R, R2, i) /\ R2[i].prepares = R[i].prepares
    /\ R2[i].probe = R[i].probe /\ R2[i].ack = R[i].ack /\ R2[i].election = R[i].election
    /\ R2[i].base = R[i].base /\ R2[i].decided = R[i].decided /\ R2[i].applied = R[i].applied
    /\ R2[i].db = R[i].db
    /\ LogEnd(R2[i]) = LogEnd(R[i]) + 1
    /\ \A k \in Slots(Held(R[i])) : At(Held(R2[i]), k) = At(Held(R[i]), k)
    /\ R2[i].next = LogEnd(R2[i]) /\ R2[i].acks[i] = LogEnd(R2[i])
    /\ \A q \in Replicas \ {i} : R2[i].acks[q] = R[i].acks[q]

\* What a new entry of the leader i leaves of each replica.
LEMMA GrowsReplica ==
    ASSUME NEW R, NEW W, NEW R2, NEW i \in Replicas, Grows(R, W, R2, i), NEW q \in Replicas
    PROVE  /\ R[q] \in ReplicaRecord /\ R2[q] \in ReplicaRecord
           /\ R2[q].probe = R[q].probe /\ R2[q].ack = R[q].ack /\ R2[q].election = R[q].election
           /\ R2[q].prepares = R[q].prepares
           /\ R2[q].base = R[q].base /\ R2[q].decided = R[q].decided /\ R2[q].applied = R[q].applied
           /\ R2[q].db = R[q].db
           /\ LogEnd(R2[q]) >= LogEnd(R[q]) /\ (q # i => LogEnd(R2[q]) = LogEnd(R[q]))
           /\ Leads(R2, q) <=> Leads(R, q)
           /\ LogEnd(R[q]) \in Nat /\ LogEnd(R2[q]) \in Nat
           /\ Held(R[q]) \in Log /\ Held(R2[q]) \in Log
           /\ Held(R2[q]).round = Held(R[q]).round /\ Held(R2[q]).slot = Held(R[q]).slot
           /\ Slots(Held(R[q])) \subseteq Slots(Held(R2[q]))
           /\ \A k \in Slots(Held(R[q])) : At(Held(R2[q]), k) = At(Held(R[q]), k)
           /\ \A k \in Slots(Held(R2[q])) : k < LogEnd(R[q]) => k \in Slots(Held(R[q]))
<1>1. R[q] \in ReplicaRecord /\ R2[q] \in ReplicaRecord
  BY RecordAt DEF Grows
<1>2. /\ LogEnd(R[q]) \in Nat /\ LogEnd(R2[q]) \in Nat /\ Held(R[q]) \in Log /\ Held(R2[q]) \in Log
      /\ EndOf(Held(R[q])) = LogEnd(R[q]) /\ EndOf(Held(R2[q])) = LogEnd(R2[q])
      /\ Held(R[q]).round = R[q].ack /\ Held(R2[q]).round = R2[q].ack
      /\ Held(R[q]).slot = R[q].base /\ Held(R2[q]).slot = R2[q].base
  BY <1>1, ReplicaFields
<1>3. /\ R2[q].probe = R[q].probe /\ R2[q].ack = R[q].ack /\ R2[q].election = R[q].election
      /\ R2[q].prepares = R[q].prepares
      /\ R2[q].base = R[q].base /\ R2[q].decided = R[q].decided /\ R2[q].applied = R[q].applied
      /\ R2[q].db = R[q].db
      /\ q # i => LogEnd(R2[q]) = LogEnd(R[q])
      /\ Leads(R2, q) <=> Leads(R, q)
      /\ \A k \in Slots(Held(R[q])) : At(Held(R2[q]), k) = At(Held(R[q]), k)
  BY DEF Grows, OnlyAt, Leads
<1>4. LogEnd(R2[q]) >= LogEnd(R[q])
  BY <1>2, <1>3 DEF Grows
<1>5. /\ Slots(Held(R[q])) \subseteq Slots(Held(R2[q]))
      /\ \A k \in Slots(Held(R2[q])) : k < LogEnd(R[q]) => k \in Slots(Held(R[q]))
  BY <1>2, <1>3, <1>4, LogFields
<1> QED
  BY <1>1, <1>2, <1>3, <1>4, <1>5

\* The same, of the indices only.
LEMMA GrowsFields ==
    ASSUME NEW R, NEW W, NEW R2, NEW i \in Replicas, Grows(R, W, R2, i), NEW q \in Replicas
    PROVE  /\ R2[q].ack = R[q].ack /\ R2[q].base = R[q].base /\ R2[q].decided = R[q].decided
           /\ R2[q].applied = R[q].applied /\ R2[q].db = R[q].db
           /\ LogEnd(R2[q]) >= LogEnd(R[q]) /\ LogEnd(R[q]) \in Nat /\ LogEnd(R2[q]) \in Nat
           /\ R[q].ack \in Nat /\ R[q].base \in Nat /\ R[q].decided \in Nat /\ R[q].applied \in Nat
BY GrowsReplica, ReplicaFields

\* A log after a new entry was there before it, or is the leader's, one longer.
LEMMA GrowsLogs ==
    ASSUME NEW R, NEW W, NEW R2, NEW i \in Replicas, Grows(R, W, R2, i), NEW t \in Logs(R2, W)
    PROVE  /\ t \in Log
           /\ \E u \in Logs(R, W) :
                /\ u \in Log /\ u.round = t.round /\ EndOf(u) <= EndOf(t)
                /\ \A k \in Slots(t) : k < EndOf(u) => k \in Slots(u) /\ At(t, k) = At(u, k)
                /\ u = t \/ (t = Held(R2[i]) /\ u = Held(R[i]))
<1>1. Typed(R, W) /\ Typed(R2, W) /\ OnlyAt(R, R2, i)
  BY DEF Grows
<1>2. t \in Log /\ Logs(R, W) \subseteq Log
  BY <1>1, LogTypes
<1>3. CASE t \in Logs(R, W)
  BY <1>2, <1>3, LogFields
<1>4. CASE t = Held(R2[i])
  <2>1. /\ Held(R[i]) \in Logs(R, W) /\ Held(R[i]).round = t.round
        /\ EndOf(Held(R[i])) = LogEnd(R[i]) /\ EndOf(t) = LogEnd(R2[i])
    BY <1>1, <1>4, GrowsReplica, ReplicaFields, InLogs
  <2> QED
    BY <1>2, <1>4, <2>1, GrowsReplica
<1> QED
  BY <1>1, <1>3, <1>4, OnlyAtLogs

\* A new entry of the leader leaves chosen what was chosen.
LEMMA GrowsChosen ==
    ASSUME NEW R, NEW W, NEW R2, NEW i \in Replicas, Grows(R, W, R2, i), NEW c,
           NEW Q \in SUBSET Replicas, NEW n \in Nat, NEW r \in Nat, Chosen(R, W, c, Q, n, r)
    PROVE  Chosen(R2, W, c, Q, n, r)
<1>1. ASSUME NEW q \in Replicas, Covers(Held(R[q]), c, n)
      PROVE  Covers(Held(R2[q]), c, n)
  <2>1. EndOf(Held(R[q])) = LogEnd(R[q]) /\ EndOf(Held(R2[q])) = LogEnd(R2[q])
    BY GrowsReplica, ReplicaFields
  <2>2. LogEnd(R[q]) >= n /\ LogEnd(R2[q]) >= n
    BY <1>1, <2>1, GrowsReplica DEF Covers
  <2>3. \A k \in Slots(Held(R2[q])) : k \in Nat
    BY GrowsReplica, LogFields
  <2>4. \A k \in Slots(Held(R2[q])) : k < n => At(Held(R2[q]), k) = c[k + 1]
    BY <1>1, <2>2, <2>3, GrowsReplica DEF Covers, Matches
  <2> QED
    BY <2>1, <2>2, <2>4 DEF Covers, Matches
<1>2. R2[Owner(r)].ack >= r
  <2>1. Owner(r) \in Replicas
    BY OwnerType
  <2>2. R2[Owner(r)].ack = R[Owner(r)].ack
    BY <2>1, GrowsFields
  <2> QED
    BY <2>2 DEF Chosen
<1>3. \A q \in Q : R2[q].ack >= r /\ Covers(Held(R2[q]), c, n)
  BY <1>1, GrowsReplica DEF Chosen
<1>4. \A m \in Reports(R2, W) : m.sender \in Q /\ m.round > r => m.ack >= r /\ Covers(Reported(m), c, n)
  BY OnlyAtLogs DEF Chosen, Grows
<1>5. \A j \in Replicas : Leads(R2, j) /\ R2[j].ack = r => Covers(Held(R2[j]), c, n)
  BY <1>1, GrowsReplica DEF Chosen
<1>6. ASSUME NEW t \in Logs(R2, W)
      PROVE  (t.round > r => Covers(t, c, n)) /\ (t.round = r => Matches(t, c, n))
  <2>1. CASE t \in Logs(R, W)
    BY <2>1 DEF Chosen
  <2>2. CASE t = Held(R2[i])
    <3>1. /\ Held(R[i]) \in Logs(R, W) /\ Held(R[i]).round = t.round /\ t.round = R2[i].ack
          /\ Leads(R, i) /\ R[i].ack = R2[i].ack
      BY <2>2, InLogs, GrowsReplica, ReplicaFields DEF Grows
    <3>2. t.round > r => Covers(Held(R[i]), c, n)
      BY <3>1 DEF Chosen
    <3>3. t.round = r => Covers(Held(R[i]), c, n)
      BY <3>1 DEF Chosen
    <3> QED
      BY <1>1, <2>2, <3>2, <3>3 DEF Covers
  <2> QED
    BY <2>1, <2>2, OnlyAtLogs DEF Grows
<1> QED
  BY <1>2, <1>3, <1>4, <1>5, <1>6 DEF Chosen

\* The same of what is settled, decided or backed.
LEMMA GrowsBacked ==
    ASSUME NEW R, NEW W, NEW R2, NEW i \in Replicas, Grows(R, W, R2, i), NEW c,
           NEW q \in Replicas, NEW n \in Nat, NEW r \in Nat
    PROVE  /\ Settled(R, W, c, n, r) => Settled(R2, W, c, n, r)
           /\ Decided(R, W, c, n, r) => Decided(R2, W, c, n, r)
           /\ Backed(R, W, c, q, n, r) => Backed(R2, W, c, q, n, r)
<1>1. Settled(R, W, c, n, r) => Settled(R2, W, c, n, r)
  BY GrowsChosen DEF Settled
<1>2. Decided(R, W, c, n, r) => Decided(R2, W, c, n, r)
  BY GrowsChosen, QuorumMembers DEF Decided
<1>3. Voted(R, W, q, n, r) => Voted(R2, W, q, n, r)
  <2>1. Reports(R2, W) \subseteq Reports(R, W)
    BY OnlyAtLogs DEF Grows
  <2> QED
    BY <2>1, GrowsReplica DEF Voted
<1> QED
  BY <1>1, <1>2, <1>3 DEF Backed

\* A leader that appends an entry keeps the invariant: nothing that was
\* chosen reaches up to the new slot, and no later round has it to lose.
LEMMA GrowsCore ==
    ASSUME NEW R, NEW W, NEW R2, NEW c, NEW i \in Replicas, Core(R, W, c), Grows(R, W, R2, i)
    PROVE  Core(R2, W, c)
<1>1. /\ Typed(R, W) /\ Typed(R2, W) /\ c \in Seq(Requests) /\ Len(c) \in Nat
      /\ Leads(R, i) /\ Leads(R2, i)
      /\ Reports(R2, W) \subseteq Reports(R, W)
  BY LenProperties, OnlyAtLogs DEF Core, Grows
<1>2. R[i].ack = R[i].probe /\ Owner(R[i].ack) = i /\ R[i].ack \in Nat /\ LogEnd(R[i]) \in Nat
  BY <1>1, RecordAt, ReplicaFields DEF Core, Rounds, ReplicaRounds
<1>3. Rounds(R2, W)
  <2>1. \A j \in Replicas : ReplicaRounds(R2, j)
    BY GrowsReplica DEF Core, Rounds, ReplicaRounds
  <2>2. ASSUME NEW m \in Reports(R2, W)
        PROVE  ReportRounds(R2, m)
    <3>1. ReportRounds(R, m) /\ m.sender \in Replicas /\ m.round \in Nat
      BY <1>1, ReportTypes DEF Core, Rounds
    <3>2. CASE m.sender = i
      BY <1>2, <3>1, <3>2, GrowsReplica DEF ReportRounds
    <3>3. CASE m.sender # i
      BY <3>1, <3>3, GrowsReplica DEF ReportRounds
    <3> QED
      BY <3>2, <3>3
  <2>3. \A p, q \in Replicas : \A m \in W[p][q] : MessageRounds(R2, p, q, m)
    BY GrowsReplica DEF Core, Rounds, MessageRounds
  <2>4. ASSUME NEW t \in Logs(R2, W)
        PROVE  LogRounds(R2, t)
    <3>1. PICK u \in Logs(R, W) : u \in Log /\ u.round = t.round
      BY GrowsLogs
    <3>2. LogRounds(R, u) /\ Owner(t.round) \in Replicas
      BY <3>1, LogFields, OwnerType DEF Core, Rounds
    <3> QED
      BY <3>1, <3>2, GrowsReplica, QuorumMembers DEF LogRounds
  <2> QED
    BY <2>1, <2>2, <2>3, <2>4 DEF Rounds
<1>4. Indices(R2, c)
  <2> SUFFICES ASSUME NEW j \in Replicas
               PROVE  ReplicaIndices(R2[j], c) /\ (Leads(R2, j) => LeaderIndices(R2[j], j))
    BY DEF Indices
  <2>1. ReplicaIndices(R[j], c) /\ (Leads(R, j) => LeaderIndices(R[j], j))
    BY DEF Core, Indices
  <2>2. R[j].applied \in Nat
    BY <1>1, RecordAt, ReplicaFields
  <2>3. ReplicaIndices(R2[j], c)
    <3>1. /\ R2[j].base = R[j].base /\ R2[j].decided = R[j].decided
          /\ R2[j].applied = R[j].applied /\ R2[j].db = R[j].db
          /\ LogEnd(R2[j]) >= LogEnd(R[j]) /\ LogEnd(R[j]) \in Nat /\ LogEnd(R2[j]) \in Nat
      BY GrowsFields
    <3> QED
      BY <2>1, <2>2, <3>1 DEF ReplicaIndices
  <2>4. CASE j = i
    <3>1. \A q \in Replicas : R[i].acks[q] <= LogEnd(R[i]) /\ R[i].acks[q] \in Nat
      BY <1>1, <2>1, <2>4, RecordAt, ReplicaFields DEF LeaderIndices
    <3>2. \A q \in Replicas : R2[i].acks[q] <= LogEnd(R2[i])
      BY <1>2, <3>1, GrowsReplica DEF Grows
    <3> QED
      BY <2>3, <2>4, <3>2 DEF Grows, LeaderIndices
  <2>5. CASE j # i
    BY <2>1, <2>5 DEF Grows, OnlyAt, Leads
  <2> QED
    BY <2>4, <2>5
<1>5. LogsAgree(R2, W)
  <2>1. ASSUME NEW t \in Logs(R2, W), NEW u \in Logs(R2, W), t.round = u.round
        PROVE  Agree(t, u)
    <3>1. PICK t0 \in Logs(R, W) :
            /\ t0 \in Log /\ t0.round = t.round
            /\ \A k \in Slots(t) : k < EndOf(t0) => k \in Slots(t0) /\ At(t, k) = At(t0, k)
            /\ t0 = t \/ (t = Held(R2[i]) /\ t0 = Held(R[i]))
      BY GrowsLogs
    <3>2. PICK u0 \in Logs(R, W) :
            /\ u0 \in Log /\ u0.round = u.round
            /\ \A k \in Slots(u) : k < EndOf(u0) => k \in Slots(u0) /\ At(u, k) = At(u0, k)
            /\ u0 = u \/ (u = Held(R2[i]) /\ u0 = Held(R[i]))
      BY GrowsLogs
    <3>3. Agree(t0, u0)
      BY <2>1, <3>1, <3>2 DEF Core, LogsAgree
    <3>4. CASE t = Held(R2[i]) /\ u = Held(R2[i])
      BY <3>4 DEF Agree
    <3>5. ASSUME t0 = t \/ u0 = u, NEW k \in Slots(t) \cap Slots(u)
          PROVE  k < EndOf(t0) /\ k < EndOf(u0)
      <4>1. /\ Held(R[i]).round = R[i].ack /\ EndOf(Held(R[i])) = LogEnd(R[i])
            /\ t \in Log /\ u \in Log /\ k \in Nat /\ k < EndOf(t) /\ k < EndOf(u)
        BY <1>1, <3>5, RecordAt, ReplicaFields, GrowsLogs, LogFields
      <4>2. t0 = Held(R[i]) /\ u0 = u => EndOf(u) <= EndOf(t0)
        BY <1>1, <2>1, <3>1, <3>2, <4>1 DEF Core, LogsAgree
      <4>3. u0 = Held(R[i]) /\ t0 = t => EndOf(t) <= EndOf(u0)
        BY <1>1, <2>1, <3>1, <3>2, <4>1 DEF Core, LogsAgree
      <4>4. EndOf(t0) \in Nat /\ EndOf(u0) \in Nat /\ EndOf(t) \in Nat /\ EndOf(u) \in Nat
        BY <3>1, <3>2, <4>1, LogFields
      <4> QED
        BY <3>1, <3>2, <3>5, <4>1, <4>2, <4>3, <4>4
    <3> QED
      BY <3>1, <3>2, <3>3, <3>4, <3>5 DEF Agree
  <2>2. ASSUME NEW j \in Replicas, NEW t \in Logs(R2, W), Leads(R2, j), t.round = R2[j].ack
        PROVE  EndOf(t) <= LogEnd(R2[j])
    <3>1. CASE t \in Logs(R, W)
      <4>1. EndOf(t) <= LogEnd(R[j]) /\ EndOf(t) \in Nat
        BY <1>1, <2>2, <3>1, GrowsReplica, LogTypes, LogFields DEF Core, LogsAgree
      <4>2. LogEnd(R2[j]) >= LogEnd(R[j]) /\ LogEnd(R[j]) \in Nat /\ LogEnd(R2[j]) \in Nat
        BY <1>1, GrowsFields
      <4> QED
        BY <4>1, <4>2
    <3>2. CASE t = Held(R2[i])
      <4>1. /\ R2[i].ack = R[i].ack /\ R2[j].ack = R[j].ack /\ Leads(R, j)
            /\ Held(R2[i]).round = R2[i].ack
        BY <2>2, GrowsReplica, ReplicaFields
      <4>2. R[j].ack = R[i].ack
        BY <2>2, <3>2, <4>1
      <4>3. Leads(R, i)
        BY <1>2 DEF Grows
      <4>4. ReplicaRounds(R, i) /\ ReplicaRounds(R, j)
        BY <1>1 DEF Core, Rounds
      <4>5. j = i
        BY <4>1, <4>2, <4>3, <4>4 DEF ReplicaRounds
      <4>6. EndOf(t) = LogEnd(R2[i]) /\ LogEnd(R2[i]) \in Nat
        BY <3>2, GrowsReplica, ReplicaFields
      <4> QED
        BY <4>5, <4>6
    <3> QED
      BY <3>1, <3>2, OnlyAtLogs DEF Grows
  <2> QED
    BY <2>1, <2>2 DEF LogsAgree
<1>6. Witnesses(R2, W, c)
  <2>1. \E r \in Nat : Decided(R2, W, c, Len(c), r)
    BY <1>1, GrowsBacked DEF Core, Witnesses
  <2>2. ASSUME NEW j \in Replicas
        PROVE  Settled(R2, W, c, R2[j].base, R2[j].ack) /\ Decided(R2, W, c, R2[j].decided, R2[j].ack)
    <3>1. Settled(R, W, c, R[j].base, R[j].ack) /\ Decided(R, W, c, R[j].decided, R[j].ack)
      BY DEF Core, Witnesses
    <3>2. /\ R2[j].ack = R[j].ack /\ R2[j].base = R[j].base /\ R2[j].decided = R[j].decided
          /\ R[j].ack \in Nat /\ R[j].base \in Nat /\ R[j].decided \in Nat
      BY <1>1, GrowsFields
    <3>3. Settled(R2, W, c, R[j].base, R[j].ack)
      BY <1>1, <3>1, <3>2, GrowsBacked
    <3>4. Decided(R2, W, c, R[j].decided, R[j].ack)
      BY <1>1, <3>1, <3>2, GrowsBacked
    <3> QED
      BY <3>2, <3>3, <3>4
  <2>3. ASSUME NEW m \in Reports(R2, W)
        PROVE  Settled(R2, W, c, m.slot, m.ack) /\ \E j \in Replicas : m.slot <= R2[j].applied
    <3>1. m \in Reports(R, W) /\ m.slot \in Nat /\ m.ack \in Nat
      BY <1>1, ReportTypes
    <3>2. Settled(R, W, c, m.slot, m.ack) /\ \E j \in Replicas : m.slot <= R[j].applied
      BY <3>1 DEF Core, Witnesses
    <3>3. Settled(R2, W, c, m.slot, m.ack)
      BY <3>1, <3>2, GrowsBacked
    <3> QED
      BY <3>2, <3>3, GrowsFields
  <2>4. ASSUME NEW p \in Replicas, NEW q \in Replicas, NEW m \in W[p][q], m.type = "PROPOSE"
        PROVE  ProposeWitnessed(R2, W, c, q, m)
    <3>1. m.slot \in Nat /\ m.trunc \in Nat /\ m.decided \in Nat /\ m.round \in Nat
      BY <1>1, <2>4, MessageFields DEF Typed
    <3>2. ProposeWitnessed(R, W, c, q, m)
      BY <2>4 DEF Core, Witnesses
    <3> QED
      <4>1. Settled(R2, W, c, m.trunc, m.round) /\ Decided(R2, W, c, m.decided, m.round)
        BY <3>1, <3>2, GrowsBacked DEF ProposeWitnessed
      <4>2. Settled(R, W, c, m.slot, m.round) => Settled(R2, W, c, m.slot, m.round)
        BY <3>1, GrowsBacked
      <4>3. R2[q].ack = R[q].ack /\ LogEnd(R2[q]) >= LogEnd(R[q])
            /\ LogEnd(R[q]) \in Nat /\ LogEnd(R2[q]) \in Nat
        BY GrowsFields
      <4> QED
        BY <3>1, <3>2, <4>1, <4>2, <4>3 DEF ProposeWitnessed
  <2> QED
    BY <2>1, <2>2, <2>3, <2>4 DEF Witnesses
<1>7. Votes(R2, W, c)
  <2> SUFFICES ASSUME NEW j \in Replicas, NEW q \in Replicas, Leads(R2, j)
               PROVE  /\ Backed(R2, W, c, q, R2[j].acks[q], R2[j].ack)
                      /\ \A m \in W[q][j] : m.type = "ACK" /\ m.round = R2[j].ack =>
                            m.slot <= LogEnd(R2[j]) /\ Backed(R2, W, c, q, m.slot, R2[j].ack)
    BY DEF Votes
  <2>1. R[j].acks[q] \in Nat /\ R[j].ack \in Nat /\ Leads(R, j) /\ R2[j].ack = R[j].ack
    BY <1>1, RecordAt, ReplicaFields, GrowsReplica
  <2>2. CASE j = i /\ q = i
    <3>1. Voted(R2, W, i, LogEnd(R2[i]), R2[i].ack)
      BY <1>1, <1>3, OwnVote
    <3> QED
      <4>1. Backed(R2, W, c, q, R2[j].acks[q], R2[j].ack)
        BY <2>2, <3>1 DEF Backed, Grows
      <4>2. ASSUME NEW m \in W[q][j], m.type = "ACK", m.round = R2[j].ack
            PROVE  m.slot <= LogEnd(R2[j]) /\ Backed(R2, W, c, q, m.slot, R2[j].ack)
        <5>1. m.slot \in Nat
          BY <1>1, <4>2, MessageFields DEF Typed
        <5>2. m.slot <= LogEnd(R[j]) /\ Backed(R, W, c, q, m.slot, R[j].ack)
          BY <2>1, <4>2 DEF Core, Votes
        <5> QED
          BY <2>1, <5>1, <5>2, GrowsReplica, GrowsBacked
      <4> QED
        BY <4>1, <4>2
  <2>3. CASE ~(j = i /\ q = i)
    <3>1. R2[j].acks[q] = R[j].acks[q]
      BY <2>3 DEF Grows, OnlyAt
    <3>2. Backed(R2, W, c, q, R2[j].acks[q], R2[j].ack)
      BY <2>1, <3>1, GrowsBacked DEF Core, Votes
    <3>3. ASSUME NEW m \in W[q][j], m.type = "ACK", m.round = R2[j].ack
          PROVE  m.slot <= LogEnd(R2[j]) /\ Backed(R2, W, c, q, m.slot, R2[j].ack)
      <4>1. m.slot \in Nat
        BY <1>1, <3>3, MessageFields DEF Typed
      <4>2. m.slot <= LogEnd(R[j]) /\ Backed(R, W, c, q, m.slot, R[j].ack)
        BY <2>1, <3>3 DEF Core, Votes
      <4> QED
        BY <2>1, <4>1, <4>2, GrowsReplica, GrowsBacked
    <3> QED
      BY <3>2, <3>3
  <2> QED
    BY <2>2, <2>3
<1>8. Safe(R2, W)
  <2> SUFFICES ASSUME NEW j \in Replicas, Leads(R2, j), NEW t \in Logs(R2, W),
                      t.round > R2[j].ack, NEW n \in 0..LogEnd(R2[j])
               PROVE  SafeFor(R2, W, j, t, n)
    BY DEF Safe
  <2>1. PICK u \in Logs(R, W) :
          /\ u \in Log /\ u.round = t.round /\ EndOf(u) <= EndOf(t) /\ t \in Log
          /\ \A k \in Slots(t) : k < EndOf(u) => k \in Slots(u) /\ At(t, k) = At(u, k)
    BY GrowsLogs
  <2>2. /\ Leads(R, j) /\ R2[j].ack = R[j].ack /\ R[j].ack \in Nat /\ n \in Nat
        /\ EndOf(u) \in Nat /\ EndOf(t) \in Nat /\ u.round \in Nat /\ LogEnd(R[j]) \in Nat
        /\ R[j].probe \in Nat /\ LogEnd(R2[j]) \in Nat
    BY <1>1, <2>1, RecordAt, ReplicaFields, GrowsReplica, LogFields
  <2>3. R[j].ack = R[j].probe
    BY <2>2 DEF Core, Rounds, ReplicaRounds
  <2>4. CASE n <= LogEnd(R[j])
    <3>1. SafeFor(R, W, j, u, n)
      BY <2>1, <2>2, <2>4 DEF Core, Safe
    <3>2. CASE /\ EndOf(u) >= n
               /\ \A k \in Slots(u) \cap Slots(Held(R[j])) : k < n => At(u, k) = At(Held(R[j]), k)
      <4>1. \A k \in Slots(t) : k \in Nat
        BY <2>1, LogFields
      <4>2. ASSUME NEW k \in Slots(t) \cap Slots(Held(R2[j])), k < n
            PROVE  At(t, k) = At(Held(R2[j]), k)
        <5>1. k \in Slots(u) /\ At(t, k) = At(u, k)
          BY <2>1, <2>2, <3>2, <4>1, <4>2
        <5>2. k \in Slots(Held(R[j])) /\ At(Held(R2[j]), k) = At(Held(R[j]), k)
          <6>1. k \in Nat /\ k \in Slots(Held(R2[j])) /\ k < LogEnd(R[j])
            BY <2>2, <2>4, <4>1, <4>2
          <6>2. k \in Slots(Held(R[j]))
            BY <6>1, GrowsReplica
          <6> QED
            BY <6>2, GrowsReplica
        <5> QED
          BY <3>2, <4>2, <5>1, <5>2
      <4> QED
        BY <2>1, <2>2, <3>2, <4>2 DEF SafeFor
    <3>3. ASSUME NEW Q \in Quorums, \A q \in Q : R[q].probe > R[j].ack /\ ~Accepted(R, W, j, q, n)
          PROVE  SafeFor(R2, W, j, t, n)
      <4>1. ASSUME NEW q \in Q
            PROVE  R2[q].probe > R2[j].ack /\ ~Accepted(R2, W, j, q, n)
        <5>1. q \in Replicas /\ R[q].probe > R[j].ack /\ ~Accepted(R, W, j, q, n) /\ q # j
          BY <2>2, <2>3, <3>3, <4>1, QuorumMembers
        <5>2. R2[j].acks[q] = R[j].acks[q]
          BY <5>1 DEF Grows, OnlyAt
        <5>3. R2[q].ack = R2[j].ack => R2[q] = R[q]
          <6>1. CASE q = i
            BY <1>2, <2>2, <5>1, <6>1, GrowsReplica
          <6>2. CASE q # i
            BY <5>1, <6>2 DEF Grows, OnlyAt
          <6> QED
            BY <6>1, <6>2
        <5>4. R2[q].probe = R[q].probe
          BY <5>1, GrowsReplica
        <5> QED
          BY <2>2, <5>1, <5>2, <5>3, <5>4 DEF Accepted
      <4> QED
        BY <4>1 DEF SafeFor
    <3> QED
      BY <3>1, <3>2, <3>3 DEF SafeFor
  <2>5. CASE n > LogEnd(R[j])
    <3>1. j = i
      BY <2>2, <2>5, GrowsReplica
    <3>2. PICK Q \in Quorums : \A q \in Q : R[q].probe >= u.round
      BY <2>1, <2>2 DEF Core, Rounds, LogRounds
    <3>3. ASSUME NEW q \in Q
          PROVE  R2[q].probe > R2[j].ack /\ ~Accepted(R2, W, j, q, n)
      <4>1. q \in Replicas /\ R[q].probe \in Nat /\ R[q].probe > R[j].ack /\ q # i
        BY <1>1, <2>1, <2>2, <2>3, <3>1, <3>2, QuorumMembers, RecordAt, ReplicaFields
      <4>2. R2[j].acks[q] < n
        <5>1. R[j].acks[q] <= LogEnd(R[j]) /\ R[j].acks[q] \in Nat
          BY <1>1, <2>2, <4>1, RecordAt, ReplicaFields DEF Core, Indices, LeaderIndices
        <5>2. R2[j].acks[q] = R[j].acks[q]
          BY <3>1, <4>1 DEF Grows
        <5> QED
          BY <2>2, <2>5, <5>1, <5>2
      <4>3. ASSUME NEW m \in W[q][j], m.type = "ACK", m.round = R2[j].ack
            PROVE  m.slot < n
        <5>1. m.slot \in Nat /\ m.slot <= LogEnd(R[j])
          BY <1>1, <2>2, <4>1, <4>3, MessageFields DEF Typed, Core, Votes
        <5> QED
          BY <2>2, <2>5, <5>1
      <4>4. R2[q].ack = R2[j].ack => LogEnd(R2[q]) < n
        <5>1. /\ R2[q] = R[q] /\ Held(R[q]) \in Logs(R, W) /\ Held(R[q]).round = R[q].ack
              /\ EndOf(Held(R[q])) = LogEnd(R[q]) /\ LogEnd(R[q]) \in Nat
          BY <1>1, <4>1, RecordAt, ReplicaFields, InLogs DEF Grows, OnlyAt
        <5> QED
          BY <2>2, <2>5, <5>1 DEF Core, LogsAgree
      <4>5. R2[j].acks[q] \in Nat /\ LogEnd(R2[q]) \in Nat
        BY <1>1, <4>1, RecordAt, ReplicaFields
      <4>6. \A m \in W[q][j] : m.type = "ACK" => m.slot \in Nat
        BY <1>1, <4>1, MessageFields DEF Typed
      <4>7. R2[q].probe > R2[j].ack
        BY <2>2, <4>1, GrowsReplica
      <4> QED
        BY <2>2, <4>2, <4>3, <4>4, <4>5, <4>6, <4>7 DEF Accepted
    <3> QED
      BY <3>3 DEF SafeFor
  <2> QED
    BY <2>2, <2>4, <2>5
<1> QED
  BY <1>1, <1>3, <1>4, <1>5, <1>6, <1>7, <1>8 DEF Core
-----------------------------------------------------------------------------
(* A follower takes over what a leader proposes.                           *)

\* A PROPOSE that is not stale starts within its receiver's log: the gap that
\* the code provides for never happens.  And it does not end below what the
\* receiver has applied.
LEMMA ProposeFits ==
    ASSUME NEW R, NEW W, NEW c, Core(R, W, c), NEW i \in Replicas, NEW j \in Replicas,
           NEW m \in W[j][i], m.type = "PROPOSE", m.round >= R[i].ack
    PROVE  /\ m.slot <= LogEnd(R[i])
           /\ m.round > R[i].ack => EndOf(m) >= R[i].applied
           /\ Settled(R, W, c, m.slot, m.round) \/ m.round = R[i].ack
<1>1. /\ Typed(R, W) /\ m \in Message /\ m.slot \in Nat /\ m.round \in Nat
      /\ EndOf(Offered(m)) = EndOf(m) /\ Offered(m) \in Logs(R, W) /\ Offered(m).round = m.round
      /\ EndOf(m) \in Nat
  <2>1. Typed(R, W) /\ m \in Message
    BY DEF Core, Typed
  <2> QED
    BY <2>1, MessageFields, InLogs, LogFields
<1>2. /\ R[i].ack \in Nat /\ LogEnd(R[i]) \in Nat /\ R[i].applied \in Nat /\ R[i].decided \in Nat
      /\ EndOf(Held(R[i])) = LogEnd(R[i])
  BY <1>1, RecordAt, ReplicaFields
<1>3. ProposeWitnessed(R, W, c, i, m)
  BY DEF Core, Witnesses
<1>4. Settled(R, W, c, m.slot, m.round) => m.slot <= LogEnd(R[i])
  BY <1>1, <1>2, SettledCovers DEF Covers
<1>5. m.slot <= LogEnd(R[i]) /\ (Settled(R, W, c, m.slot, m.round) \/ m.round = R[i].ack)
  BY <1>1, <1>2, <1>3, <1>4 DEF ProposeWitnessed
<1>6. ASSUME m.round > R[i].ack
      PROVE  EndOf(m) >= R[i].applied
  <2>1. Decided(R, W, c, R[i].decided, R[i].ack)
    BY DEF Core, Witnesses
  <2>2. Covers(Offered(m), c, R[i].decided)
    BY <1>1, <1>2, <1>6, <2>1, DecidedCovers
  <2>3. R[i].applied <= R[i].decided
    BY DEF Core, Indices, ReplicaIndices
  <2> QED
    BY <1>1, <1>2, <2>2, <2>3 DEF Covers
<1> QED
  BY <1>5, <1>6

\* The follower i takes over the PROPOSE m of j.
Takes(R, W, R2, c, i, j, m) ==
    /\ Core(R, W, c) /\ i \in Replicas /\ j \in Replicas
    /\ Typed(R, W) /\ Typed(R2, W) /\ ~Leads(R, i) /\ ~Leads(R2, i)
    /\ m \in W[j][i] /\ m.type = "PROPOSE" /\ m.round = R[i].probe
    /\ OnlyAt(R, R2, i) /\ R2[i].prepares = R[i].prepares
    /\ R2[i].probe = R[i].probe /\ R2[i].election = R[i].election
    /\ R2[i].base = R[i].base /\ R2[i].applied = R[i].applied /\ R2[i].db = R[i].db
    /\ R2[i].decided = MaxOf(R[i].decided, m.decided)
    /\ R2[i].ack = m.round
    /\ LogEnd(R2[i]) = EndOf(m)
    /\ m.round = R[i].ack => EndOf(m) >= LogEnd(R[i])
    /\ \A k \in Slots(Held(R2[i])) :
         IF m.slot <= k THEN At(Held(R2[i]), k) = At(Offered(m), k)
                        ELSE At(Held(R2[i]), k) = At(Held(R[i]), k)

\* The log that a follower takes over: the message's, and below it the follower's
\* own.
LEMMA TakesReplica ==
    ASSUME NEW R, NEW W, NEW R2, NEW c, NEW i, NEW j, NEW m,
           Takes(R, W, R2, c, i, j, m)
    PROVE  /\ m \in Message /\ m.slot \in Nat /\ m.round \in Nat /\ m.decided \in Nat
           /\ Offered(m) \in Log /\ Offered(m).round = m.round /\ EndOf(Offered(m)) = EndOf(m)
           /\ Offered(m).slot = m.slot
           /\ Offered(m) \in Logs(R, W)
           /\ R[i].ack <= m.round /\ m.round = R[i].probe /\ m.round = R2[i].ack
           /\ m.slot <= LogEnd(R[i])
           /\ Settled(R, W, c, m.slot, m.round) \/ m.round = R[i].ack
           /\ Held(R2[i]) \in Log /\ Held(R2[i]).round = m.round /\ Held(R2[i]).slot = R[i].base
           /\ EndOf(Held(R2[i])) = EndOf(m) /\ EndOf(m) \in Nat
<1>1. /\ i \in Replicas /\ j \in Replicas /\ Core(R, W, c)
      /\ m \in Message /\ m \in W[j][i] /\ m.type = "PROPOSE" /\ R[i] \in ReplicaRecord
      /\ R2[i] \in ReplicaRecord /\ Typed(R, W)
  BY RecordAt DEF Takes, Typed
<1>2. /\ m.slot \in Nat /\ m.round \in Nat /\ m.decided \in Nat
      /\ Offered(m) \in Log /\ Offered(m).round = m.round /\ EndOf(Offered(m)) = EndOf(m)
      /\ Offered(m).slot = m.slot
      /\ Offered(m) \in Logs(R, W)
  BY <1>1, MessageFields, InLogs
<1>3. R[i].ack <= m.round /\ m.round = R[i].probe /\ m.round = R2[i].ack
  BY <1>1 DEF Core, Rounds, ReplicaRounds, Takes
<1>4. /\ R[i].ack \in Nat /\ LogEnd(R[i]) \in Nat /\ R[i].base \in Nat
      /\ Held(R[i]) \in Log /\ Held(R[i]).slot = R[i].base /\ EndOf(Held(R[i])) = LogEnd(R[i])
      /\ Held(R2[i]) \in Log /\ Held(R2[i]).round = R2[i].ack /\ Held(R2[i]).slot = R2[i].base
      /\ EndOf(Held(R2[i])) = LogEnd(R2[i])
  BY <1>1, ReplicaFields
<1>5. m.slot <= LogEnd(R[i]) /\ (Settled(R, W, c, m.slot, m.round) \/ m.round = R[i].ack)
  BY <1>1, <1>2, <1>3, <1>4, ProposeFits
<1>6. R2[i].base = R[i].base /\ LogEnd(R2[i]) = EndOf(m) /\ EndOf(m) \in Nat
  BY <1>2, LogFields DEF Takes
<1> QED
  BY <1>1, <1>2, <1>3, <1>4, <1>5, <1>6

\* An entry of the log taken over is the message's, or the follower's below the
\* message's first slot.
LEMMA TakesEntries ==
    ASSUME NEW R, NEW W, NEW R2, NEW c, NEW i, NEW j, NEW m,
           Takes(R, W, R2, c, i, j, m), NEW k \in Slots(Held(R2[i]))
    PROVE  /\ k \in Nat
           /\ \/ m.slot <= k /\ k \in Slots(Offered(m)) /\ At(Held(R2[i]), k) = At(Offered(m), k)
              \/ /\ k < m.slot /\ k \in Slots(Held(R[i]))
                 /\ At(Held(R2[i]), k) = At(Held(R[i]), k)
<1>1. /\ m.slot \in Nat /\ Offered(m) \in Log /\ EndOf(Offered(m)) = EndOf(m)
      /\ Offered(m).slot = m.slot /\ EndOf(m) \in Nat
      /\ m.slot <= LogEnd(R[i]) /\ Held(R2[i]) \in Log /\ Held(R2[i]).slot = R[i].base
      /\ EndOf(Held(R2[i])) = EndOf(m)
  BY TakesReplica
<1>2. /\ LogEnd(R[i]) \in Nat /\ R[i].base \in Nat
      /\ Held(R[i]) \in Log /\ Held(R[i]).slot = R[i].base /\ EndOf(Held(R[i])) = LogEnd(R[i])
  BY RecordAt, ReplicaFields DEF Takes
<1>3. k \in Nat /\ R[i].base <= k /\ k < EndOf(m)
  BY <1>1, LogFields
<1>4. CASE m.slot <= k
  <2>1. k \in Slots(Offered(m))
    BY <1>1, <1>3, <1>4, LogFields
  <2> QED
    BY <1>3, <1>4, <2>1 DEF Takes
<1>5. CASE k < m.slot
  <2>1. k \in Slots(Held(R[i]))
    BY <1>1, <1>2, <1>3, <1>5, LogFields
  <2>2. ~(m.slot <= k)
    BY <1>1, <1>3, <1>5
  <2> QED
    BY <1>3, <1>5, <2>1, <2>2 DEF Takes
<1> QED
  BY <1>1, <1>3, <1>4, <1>5

\* What the follower's taking over leaves of each replica.
LEMMA TakesFields ==
    ASSUME NEW R, NEW W, NEW R2, NEW c, NEW i, NEW j, NEW m,
           Takes(R, W, R2, c, i, j, m), NEW q \in Replicas
    PROVE  /\ R[q].ack \in Nat /\ R2[q].ack \in Nat /\ R2[q].ack >= R[q].ack
           /\ R2[q].probe = R[q].probe /\ R[q].probe \in Nat
           /\ R2[q].election = R[q].election /\ R2[q].prepares = R[q].prepares
           /\ R2[q].base = R[q].base /\ R2[q].applied = R[q].applied /\ R2[q].db = R[q].db
           /\ R[q].base \in Nat /\ R[q].applied \in Nat /\ R[q].decided \in Nat
           /\ Leads(R2, q) <=> Leads(R, q)
           /\ Leads(R, q) => q # i
           /\ q # i => R2[q] = R[q]
           /\ R2[q].ack = R[q].ack => LogEnd(R2[q]) >= LogEnd(R[q])
           /\ LogEnd(R[q]) \in Nat /\ LogEnd(R2[q]) \in Nat
<1>1. /\ R[q].ack \in Nat /\ R2[q].ack \in Nat /\ R[q].probe \in Nat
      /\ R[q].base \in Nat /\ R[q].applied \in Nat /\ R[q].decided \in Nat
      /\ LogEnd(R[q]) \in Nat /\ LogEnd(R2[q]) \in Nat
  BY RecordAt, ReplicaFields DEF Takes
<1>2. q # i => R2[q] = R[q]
  BY DEF Takes, OnlyAt
<1>3. CASE q # i
  <2>1. R2[q] = R[q]
    BY <1>2, <1>3
  <2>2. Leads(R2, q) <=> Leads(R, q)
    BY <2>1 DEF Leads
  <2> QED
    BY <1>1, <1>3, <2>1, <2>2
<1>4. CASE q = i
  <2>1. R[i].ack <= m.round /\ m.round = R2[i].ack
    BY TakesReplica
  <2>2. R2[i].ack = R[i].ack => LogEnd(R2[i]) >= LogEnd(R[i])
    BY <2>1 DEF Takes
  <2> QED
    BY <1>1, <1>2, <1>4, <2>1, <2>2 DEF Takes
<1> QED
  BY <1>3, <1>4

\* What is chosen is in the log taken over if it is in the one proposed.
LEMMA TakesMatches ==
    ASSUME NEW R, NEW W, NEW R2, NEW c, NEW i, NEW j, NEW m,
           Takes(R, W, R2, c, i, j, m), NEW n \in Nat
    PROVE  Matches(Offered(m), c, n) /\ (m.round = R[i].ack => Matches(Held(R[i]), c, n)) =>
             /\ Matches(Held(R2[i]), c, n)
             /\ EndOf(m) >= n => Covers(Held(R2[i]), c, n)
<1>2. /\ EndOf(Held(R2[i])) = EndOf(m)
      /\ Settled(R, W, c, m.slot, m.round) \/ m.round = R[i].ack
      /\ m.slot \in Nat /\ m.round \in Nat
  BY TakesReplica
<1> SUFFICES ASSUME Matches(Offered(m), c, n), m.round = R[i].ack => Matches(Held(R[i]), c, n)
             PROVE  Matches(Held(R2[i]), c, n) /\ (EndOf(m) >= n => Covers(Held(R2[i]), c, n))
  OBVIOUS
<1>1. ASSUME NEW k \in Slots(Held(R2[i])), k < n
      PROVE  At(Held(R2[i]), k) = c[k + 1]
  <2>1. CASE m.slot <= k /\ k \in Slots(Offered(m)) /\ At(Held(R2[i]), k) = At(Offered(m), k)
    BY <1>1, <2>1 DEF Matches
  <2>2. CASE /\ k < m.slot /\ k \in Slots(Held(R[i]))
             /\ At(Held(R2[i]), k) = At(Held(R[i]), k)
    <3>1. CASE Settled(R, W, c, m.slot, m.round)
      <4>1. Covers(Held(R[i]), c, m.slot)
        BY <1>2, <3>1, SettledCovers DEF Takes
      <4> QED
        BY <2>2, <4>1 DEF Covers, Matches
    <3>2. CASE m.round = R[i].ack
      BY <1>1, <2>2, <3>2 DEF Matches
    <3> QED
      BY <1>2, <3>1, <3>2
  <2> QED
    BY <1>1, <2>1, <2>2, TakesEntries
<1> QED
  BY <1>1, <1>2 DEF Matches, Covers

\* Taking over a log leaves chosen what was chosen: a log of a later round has it
\* all, and one of the same round replaces none of it.
LEMMA TakesChosen ==
    ASSUME NEW R, NEW W, NEW R2, NEW c, NEW i, NEW j, NEW m,
           Takes(R, W, R2, c, i, j, m),
           NEW Q \in SUBSET Replicas, NEW n \in Nat, NEW r \in Nat, Chosen(R, W, c, Q, n, r)
    PROVE  Chosen(R2, W, c, Q, n, r)
<1>1. /\ m.round \in Nat /\ Offered(m) \in Logs(R, W) /\ Offered(m).round = m.round
      /\ EndOf(Offered(m)) = EndOf(m) /\ EndOf(m) \in Nat
      /\ R[i].ack <= m.round /\ m.round = R2[i].ack /\ R[i].ack \in Nat
      /\ Held(R2[i]).round = m.round /\ Held(R[i]) \in Logs(R, W) /\ Held(R[i]).round = R[i].ack
      /\ EndOf(Held(R[i])) = LogEnd(R[i]) /\ LogEnd(R[i]) \in Nat
      /\ ~Leads(R2, i) /\ OnlyAt(R, R2, i) /\ i \in Replicas
      /\ m.round = R[i].ack => EndOf(m) >= LogEnd(R[i])
  <2>1. /\ R[i] \in ReplicaRecord /\ i \in Replicas
        /\ ~Leads(R2, i) /\ OnlyAt(R, R2, i)
        /\ m.round = R[i].ack => EndOf(m) >= LogEnd(R[i])
    BY RecordAt DEF Takes
  <2>2. /\ Held(R[i]) \in Logs(R, W) /\ Held(R[i]).round = R[i].ack /\ R[i].ack \in Nat
        /\ EndOf(Held(R[i])) = LogEnd(R[i]) /\ LogEnd(R[i]) \in Nat
    BY <2>1, ReplicaFields, InLogs
  <2> QED
    BY <2>1, <2>2, TakesReplica
<1>2. /\ m.round > r => Covers(Offered(m), c, n)
      /\ m.round = r => Matches(Offered(m), c, n)
      /\ R[i].ack > r => Covers(Held(R[i]), c, n)
      /\ R[i].ack = r => Matches(Held(R[i]), c, n)
  BY <1>1 DEF Chosen
<1>3. ASSUME m.round >= r
      PROVE  Matches(Held(R2[i]), c, n) /\ (EndOf(m) >= n => Covers(Held(R2[i]), c, n))
  <2>1. Matches(Offered(m), c, n) /\ (m.round = R[i].ack => Matches(Held(R[i]), c, n))
    BY <1>1, <1>2, <1>3 DEF Covers
  <2> QED
    BY <2>1, TakesMatches
<1>4. m.round > r => Covers(Held(R2[i]), c, n)
  BY <1>1, <1>2, <1>3 DEF Covers
<1>5. ASSUME i \in Q
      PROVE  R2[i].ack >= r /\ Covers(Held(R2[i]), c, n)
  <2>1. R[i].ack >= r /\ Covers(Held(R[i]), c, n)
    BY <1>5 DEF Chosen
  <2>2. CASE m.round > r
    BY <1>1, <1>4, <2>2
  <2>3. CASE m.round = r
    <3>1. EndOf(m) >= n
      BY <1>1, <2>1, <2>3 DEF Covers
    <3> QED
      BY <1>1, <1>3, <2>3, <3>1
  <2> QED
    BY <1>1, <2>1, <2>2, <2>3
<1>6. \A q \in Q : R2[q].ack >= r /\ Covers(Held(R2[q]), c, n)
  <2> SUFFICES ASSUME NEW q \in Q
               PROVE  R2[q].ack >= r /\ Covers(Held(R2[q]), c, n)
    OBVIOUS
  <2>1. CASE q = i
    BY <1>5, <2>1
  <2>2. CASE q # i
    <3>1. R2[q] = R[q]
      BY <2>2, TakesFields
    <3> QED
      BY <3>1 DEF Chosen
  <2> QED
    BY <2>1, <2>2
<1>7. R2[Owner(r)].ack >= r
  <2>1. Owner(r) \in Replicas
    BY OwnerType
  <2>2. /\ R2[Owner(r)].ack >= R[Owner(r)].ack
        /\ R2[Owner(r)].ack \in Nat /\ R[Owner(r)].ack \in Nat
    BY <2>1, TakesFields
  <2> QED
    BY <2>2 DEF Chosen
<1>8. \A a \in Reports(R2, W) : a.sender \in Q /\ a.round > r => a.ack >= r /\ Covers(Reported(a), c, n)
  BY <1>1, OnlyAtLogs DEF Chosen
<1>9. \A t \in Logs(R2, W) : (t.round > r => Covers(t, c, n)) /\ (t.round = r => Matches(t, c, n))
  <2> SUFFICES ASSUME NEW t \in Logs(R2, W)
               PROVE  (t.round > r => Covers(t, c, n)) /\ (t.round = r => Matches(t, c, n))
    OBVIOUS
  <2>1. CASE t \in Logs(R, W)
    BY <2>1 DEF Chosen
  <2>2. CASE t = Held(R2[i])
    BY <1>1, <1>3, <1>4, <2>2
  <2> QED
    BY <1>1, <2>1, <2>2, OnlyAtLogs
<1>10. \A l \in Replicas : Leads(R2, l) /\ R2[l].ack = r => Covers(Held(R2[l]), c, n)
  <2> SUFFICES ASSUME NEW l \in Replicas, Leads(R2, l), R2[l].ack = r
               PROVE  Covers(Held(R2[l]), c, n)
    OBVIOUS
  <2>1. R2[l] = R[l] /\ Leads(R, l)
    BY TakesFields
  <2> QED
    BY <2>1 DEF Chosen
<1> QED
  BY <1>6, <1>7, <1>8, <1>9, <1>10 DEF Chosen

\* What is settled, decided or voted stays so.
LEMMA TakesBacked ==
    ASSUME NEW R, NEW W, NEW R2, NEW c, NEW i, NEW j, NEW m,
           Takes(R, W, R2, c, i, j, m),
           NEW q \in Replicas, NEW n \in Nat, NEW r \in Nat
    PROVE  /\ Settled(R, W, c, n, r) => Settled(R2, W, c, n, r)
           /\ Decided(R, W, c, n, r) => Decided(R2, W, c, n, r)
           /\ Backed(R, W, c, q, n, r) => Backed(R2, W, c, q, n, r)
<1>1. Settled(R, W, c, n, r) => Settled(R2, W, c, n, r)
  BY TakesChosen DEF Settled
<1>2. Decided(R, W, c, n, r) => Decided(R2, W, c, n, r)
  BY TakesChosen, QuorumMembers DEF Decided
<1>3. Voted(R, W, q, n, r) => Voted(R2, W, q, n, r)
  <2>1. Reports(R2, W) \subseteq Reports(R, W)
    BY OnlyAtLogs DEF Takes
  <2>2. /\ R[q].ack \in Nat /\ R2[q].ack \in Nat /\ R2[q].ack >= R[q].ack
        /\ R2[q].ack = R[q].ack => LogEnd(R2[q]) >= LogEnd(R[q])
        /\ LogEnd(R[q]) \in Nat /\ LogEnd(R2[q]) \in Nat
    BY TakesFields
  <2> QED
    BY <2>1, <2>2 DEF Voted
<1> QED
  BY <1>1, <1>2, <1>3 DEF Backed

\* The rounds, the indices and the leaders' counts when i takes over m.
LEMMA TakesRounds ==
    ASSUME NEW R, NEW W, NEW R2, NEW c, NEW i, NEW j, NEW m,
           Takes(R, W, R2, c, i, j, m)
    PROVE  Rounds(R2, W)
<1>1. /\ Core(R, W, c) /\ i \in Replicas /\ j \in Replicas /\ Typed(R, W) /\ Rounds(R, W)
      /\ ~Leads(R, i) /\ ~Leads(R2, i) /\ m \in W[j][i] /\ m.type = "PROPOSE"
      /\ m.round = R[i].probe /\ OnlyAt(R, R2, i)
  BY DEF Takes, Core
<1>2. /\ R[i].ack <= m.round /\ m.round = R2[i].ack /\ m.round \in Nat /\ R[i].ack \in Nat
      /\ Offered(m) \in Logs(R, W) /\ Offered(m).round = m.round
      /\ Held(R2[i]).round = m.round
  BY <1>1, TakesReplica, TakesFields
<1>3. Owner(m.round) = j
  BY <1>1 DEF Rounds, MessageRounds
<1>4. j # i
  <2>1. SUFFICES ASSUME j = i
                 PROVE  FALSE
    OBVIOUS
  <2>2. R[i].ack >= m.round
    BY <1>1, <1>2, <1>3, <2>1 DEF Rounds, LogRounds
  <2>3. R[i].ack = m.round
    BY <1>2, <2>2
  <2>4. Leads(R, i) <=> (R[i].ack = R[i].probe /\ Owner(R[i].probe) = i)
    BY <1>1 DEF Rounds, ReplicaRounds
  <2> QED
    BY <1>1, <1>3, <2>1, <2>3, <2>4
<1>5. \A l \in Replicas : ReplicaRounds(R2, l)
  <2> SUFFICES ASSUME NEW l \in Replicas
               PROVE  ReplicaRounds(R2, l)
    OBVIOUS
  <2>1. ReplicaRounds(R, l)
    BY <1>1 DEF Rounds
  <2>2. CASE l # i
    BY <1>1, <2>1, <2>2 DEF OnlyAt, ReplicaRounds, Leads
  <2>3. CASE l = i
    <3>1. /\ R2[i].probe = m.round /\ R2[i].election = R[i].election
          /\ R2[i].prepares = R[i].prepares
      BY <1>1 DEF Takes
    <3>2. R2[i].ack <= R2[i].probe /\ R2[i].election <= R2[i].probe
      <4>1. R[i].election <= R[i].probe
        BY <2>1, <2>3 DEF ReplicaRounds
      <4> QED
        BY <1>1, <1>2, <3>1, <4>1
    <3>3. ~(R2[i].ack = R2[i].probe /\ Owner(R2[i].probe) = i)
      BY <1>3, <1>4, <3>1
    <3>4. R2[i].prepares # <<>> =>
             Owner(R2[i].election) = i /\ R2[i].election # R2[i].probe
      BY <1>3, <1>4, <2>1, <2>3, <3>1 DEF ReplicaRounds
    <3> QED
      BY <1>1, <2>1, <2>3, <3>1, <3>2, <3>3, <3>4 DEF ReplicaRounds
  <2> QED
    BY <2>2, <2>3
<1>6. ASSUME NEW a \in Reports(R2, W)
      PROVE  ReportRounds(R2, a)
  <2>1. a \in Reports(R, W)
    BY <1>1, OnlyAtLogs
  <2>2. ReportRounds(R, a) /\ a.sender \in Replicas /\ a.round \in Nat
    BY <1>1, <2>1, ReportTypes DEF Rounds
  <2>3. CASE a.sender = i
    <3>1. R2[i].probe = R[i].probe
      BY <1>1, TakesFields
    <3>2. a.ack <= a.round /\ a.round <= R[i].probe
      BY <2>2, <2>3 DEF ReportRounds
    <3>3. ~(R2[i].ack < a.round)
      BY <1>1, <1>2, <2>2, <3>2
    <3> QED
      BY <2>3, <3>1, <3>2, <3>3 DEF ReportRounds
  <2>4. CASE a.sender # i
    BY <1>1, <2>2, <2>4 DEF ReportRounds, OnlyAt
  <2> QED
    BY <2>3, <2>4
<1>7. ASSUME NEW p \in Replicas, NEW q \in Replicas, NEW a \in W[p][q]
      PROVE  MessageRounds(R2, p, q, a)
  <2>1. MessageRounds(R, p, q, a) /\ a.round \in Nat
    BY <1>1, MessageFields DEF Rounds, Typed
  <2>2. /\ R2[p].probe = R[p].probe /\ R2[q].probe = R[q].probe
        /\ R2[q].ack >= R[q].ack /\ R2[q].ack \in Nat /\ R[q].ack \in Nat
    BY TakesFields
  <2> QED
    BY <2>1, <2>2 DEF MessageRounds
<1>8. ASSUME NEW t \in Logs(R2, W)
      PROVE  LogRounds(R2, t)
  <2>1. PICK u \in Logs(R, W) : u.round = t.round
    BY <1>1, <1>2, OnlyAtLogs
  <2>2. LogRounds(R, u) /\ t.round \in Nat
    BY <1>1, <2>1, LogTypes, LogFields DEF Rounds
  <2>3. Owner(t.round) \in Replicas
    BY <2>2, OwnerType
  <2>4. /\ R2[Owner(t.round)].ack >= R[Owner(t.round)].ack
        /\ R2[Owner(t.round)].ack \in Nat /\ R[Owner(t.round)].ack \in Nat
    BY <2>3, TakesFields
  <2>5. \A Q \in Quorums : \A q \in Q : R2[q].probe = R[q].probe
    BY TakesFields, QuorumMembers
  <2> QED
    BY <2>1, <2>2, <2>4, <2>5 DEF LogRounds
<1> QED
  BY <1>5, <1>6, <1>7, <1>8 DEF Rounds

\* An entry that i keeps below the PROPOSE is chosen, or was written in the
\* same round.
LEMMA TakesKeeps ==
    ASSUME NEW R, NEW W, NEW R2, NEW c, NEW i, NEW j, NEW m,
           Takes(R, W, R2, c, i, j, m), NEW k \in Slots(Held(R2[i])), k < m.slot,
           k \in Slots(Held(R[i]))
    PROVE  \/ /\ Settled(R, W, c, m.slot, m.round)
              /\ At(Held(R[i]), k) = c[k + 1]
           \/ m.round = R[i].ack
<1>1. m.slot \in Nat /\ m.round \in Nat
      /\ (Settled(R, W, c, m.slot, m.round) \/ m.round = R[i].ack)
  BY TakesReplica
<1>2. Settled(R, W, c, m.slot, m.round) => Covers(Held(R[i]), c, m.slot)
  BY <1>1, SettledCovers DEF Takes
<1> QED
  BY <1>1, <1>2 DEF Covers, Matches

\* The follower's new log is a part of the log of its round.
LEMMA TakesLogsAgree ==
    ASSUME NEW R, NEW W, NEW R2, NEW c, NEW i, NEW j, NEW m,
           Takes(R, W, R2, c, i, j, m)
    PROVE  LogsAgree(R2, W)
<1>1. /\ Core(R, W, c) /\ i \in Replicas /\ Typed(R, W) /\ LogsAgree(R, W)
      /\ ~Leads(R2, i) /\ OnlyAt(R, R2, i) /\ R[i] \in ReplicaRecord
  BY RecordAt DEF Takes, Core
<1>2. /\ Offered(m) \in Logs(R, W) /\ Offered(m).round = m.round
      /\ Held(R2[i]).round = m.round /\ EndOf(Held(R2[i])) = EndOf(m)
      /\ EndOf(Offered(m)) = EndOf(m) /\ m.slot \in Nat /\ m.round \in Nat
      /\ Held(R[i]) \in Logs(R, W) /\ Held(R[i]).round = R[i].ack
  BY <1>1, TakesReplica, InLogs, ReplicaFields
<1>3. ASSUME NEW u \in Logs(R, W), u.round = m.round
      PROVE  Agree(Held(R2[i]), u)
  <2> SUFFICES ASSUME NEW k \in Slots(Held(R2[i])), k \in Slots(u)
               PROVE  At(Held(R2[i]), k) = At(u, k)
    BY DEF Agree
  <2>1. CASE m.slot <= k /\ k \in Slots(Offered(m)) /\ At(Held(R2[i]), k) = At(Offered(m), k)
    BY <1>1, <1>2, <1>3, <2>1 DEF LogsAgree, Agree
  <2>2. CASE k < m.slot /\ k \in Slots(Held(R[i])) /\ At(Held(R2[i]), k) = At(Held(R[i]), k)
    <3>1. CASE Settled(R, W, c, m.slot, m.round) /\ At(Held(R[i]), k) = c[k + 1]
      <4>1. Matches(u, c, m.slot)
        BY <1>1, <1>2, <1>3, <3>1, SettledCovers
      <4> QED
        BY <2>2, <3>1, <4>1 DEF Matches
    <3>2. CASE m.round = R[i].ack
      BY <1>1, <1>2, <1>3, <2>2, <3>2 DEF LogsAgree, Agree
    <3> QED
      BY <2>2, <3>1, <3>2, TakesKeeps
  <2> QED
    BY <2>1, <2>2, TakesEntries
<1>4. ASSUME NEW t \in Logs(R2, W), NEW u \in Logs(R2, W), t.round = u.round
      PROVE  Agree(t, u)
  <2>1. CASE t \in Logs(R, W) /\ u \in Logs(R, W)
    BY <1>1, <1>4, <2>1 DEF LogsAgree
  <2>2. CASE t = Held(R2[i]) /\ u \in Logs(R, W)
    BY <1>2, <1>3, <1>4, <2>2
  <2>3. CASE u = Held(R2[i]) /\ t \in Logs(R, W)
    <3>1. Agree(u, t)
      BY <1>2, <1>3, <1>4, <2>3
    <3> QED
      BY <3>1 DEF Agree
  <2>4. CASE t = Held(R2[i]) /\ u = Held(R2[i])
    BY <2>4 DEF Agree
  <2> QED
    BY <1>1, <2>1, <2>2, <2>3, <2>4, OnlyAtLogs
<1>5. ASSUME NEW l \in Replicas, NEW t \in Logs(R2, W), Leads(R2, l), t.round = R2[l].ack
      PROVE  EndOf(t) <= LogEnd(R2[l])
  <2>1. R2[l] = R[l] /\ Leads(R, l)
    BY <1>1, <1>5, TakesFields
  <2>2. CASE t \in Logs(R, W)
    BY <1>1, <1>5, <2>1, <2>2 DEF LogsAgree
  <2>3. CASE t = Held(R2[i])
    BY <1>1, <1>2, <1>5, <2>1, <2>3 DEF LogsAgree
  <2> QED
    BY <1>1, <2>2, <2>3, OnlyAtLogs
<1> QED
  BY <1>4, <1>5 DEF LogsAgree

\* The follower's new log has what a leader of an earlier round can still choose.
LEMMA TakesSafe ==
    ASSUME NEW R, NEW W, NEW R2, NEW c, NEW i, NEW j, NEW m,
           Takes(R, W, R2, c, i, j, m)
    PROVE  Safe(R2, W)
<1>1. /\ Core(R, W, c) /\ i \in Replicas /\ Typed(R, W) /\ Safe(R, W)
      /\ OnlyAt(R, R2, i) /\ R[i] \in ReplicaRecord /\ m.round = R[i].probe
  BY RecordAt DEF Takes, Core
<1>2. /\ Offered(m) \in Logs(R, W) /\ Offered(m).round = m.round
      /\ Held(R2[i]).round = m.round /\ EndOf(Held(R2[i])) = EndOf(m) /\ EndOf(m) \in Nat
      /\ EndOf(Offered(m)) = EndOf(m) /\ m.slot \in Nat /\ m.round \in Nat
      /\ R2[i].ack = m.round
      /\ Held(R[i]) \in Logs(R, W) /\ Held(R[i]).round = R[i].ack
  BY <1>1, TakesReplica, InLogs, ReplicaFields
<1> SUFFICES ASSUME NEW l \in Replicas, Leads(R2, l), NEW t \in Logs(R2, W),
                    t.round > R2[l].ack, NEW n \in 0..LogEnd(R2[l])
             PROVE  SafeFor(R2, W, l, t, n)
  BY DEF Safe
<1>3. R2[l] = R[l] /\ Leads(R, l) /\ R[l].ack \in Nat /\ l # i
  BY TakesFields
<1>4. ASSUME NEW u \in Logs(R, W), u.round > R[l].ack
      PROVE  SafeFor(R, W, l, u, n)
  BY <1>1, <1>3, <1>4 DEF Safe
<1>5. ASSUME NEW Q \in Quorums, \A q \in Q : R[q].probe > R[l].ack /\ ~Accepted(R, W, l, q, n)
      PROVE  SafeFor(R2, W, l, t, n)
  <2>1. ASSUME NEW q \in Q
        PROVE  R2[q].probe > R2[l].ack /\ ~Accepted(R2, W, l, q, n)
    <3>1. q \in Replicas /\ R2[q].probe = R[q].probe /\ R[q].probe \in Nat
      BY QuorumMembers, TakesFields
    <3>2. R[q].probe > R[l].ack /\ ~Accepted(R, W, l, q, n)
      BY <1>5
    <3>3. R2[q].ack = R2[l].ack => R2[q] = R[q]
      <4>1. CASE q = i
        BY <1>1, <1>2, <1>3, <3>1, <3>2, <4>1
      <4>2. CASE q # i
        BY <3>1, <4>2, TakesFields
      <4> QED
        BY <4>1, <4>2
    <3> QED
      BY <1>3, <3>1, <3>2, <3>3 DEF Accepted
  <2> QED
    BY <2>1 DEF SafeFor
<1>6. CASE t \in Logs(R, W)
  <2>1. SafeFor(R, W, l, t, n)
    BY <1>3, <1>4, <1>6
  <2> QED
    BY <1>3, <1>5, <2>1 DEF SafeFor
<1>7. CASE t = Held(R2[i])
  <2>1. SafeFor(R, W, l, Offered(m), n)
    BY <1>2, <1>3, <1>4, <1>7
  <2>2. m.round = R[i].ack => SafeFor(R, W, l, Held(R[i]), n)
    BY <1>2, <1>3, <1>4, <1>7
  <2>3. CASE /\ EndOf(Offered(m)) >= n
             /\ \A k \in Slots(Offered(m)) \cap Slots(Held(R[l])) :
                   k < n => At(Offered(m), k) = At(Held(R[l]), k)
             /\ m.round = R[i].ack =>
                   \A k \in Slots(Held(R[i])) \cap Slots(Held(R[l])) :
                      k < n => At(Held(R[i]), k) = At(Held(R[l]), k)
    <3>1. ASSUME NEW k \in Slots(Held(R2[i])), k \in Slots(Held(R[l])), k < n
          PROVE  At(Held(R2[i]), k) = At(Held(R[l]), k)
      <4>1. CASE m.slot <= k /\ k \in Slots(Offered(m)) /\ At(Held(R2[i]), k) = At(Offered(m), k)
        BY <2>3, <3>1, <4>1
      <4>2. CASE k < m.slot /\ k \in Slots(Held(R[i])) /\ At(Held(R2[i]), k) = At(Held(R[i]), k)
        <5>1. CASE Settled(R, W, c, m.slot, m.round) /\ At(Held(R[i]), k) = c[k + 1]
          <6>1. Covers(Held(R[l]), c, m.slot)
            BY <1>1, <1>2, <5>1, SettledCovers
          <6> QED
            BY <3>1, <4>2, <5>1, <6>1 DEF Covers, Matches
        <5>2. CASE m.round = R[i].ack
          BY <2>3, <3>1, <4>2, <5>2
        <5> QED
          BY <4>2, <5>1, <5>2, TakesKeeps
      <4> QED
        BY <4>1, <4>2, TakesEntries
    <3> QED
      BY <1>2, <1>3, <1>7, <2>3, <3>1 DEF SafeFor
  <2> QED
    BY <1>5, <2>1, <2>2, <2>3 DEF SafeFor
<1> QED
  BY <1>1, <1>6, <1>7, OnlyAtLogs

\* A follower that takes over what its leader proposes keeps the invariant.
LEMMA TakesCore ==
    ASSUME NEW R, NEW W, NEW R2, NEW c, NEW i, NEW j, NEW m,
           Takes(R, W, R2, c, i, j, m)
    PROVE  Core(R2, W, c)
<1>1. /\ Core(R, W, c) /\ i \in Replicas /\ j \in Replicas /\ Typed(R, W) /\ Typed(R2, W)
      /\ m \in W[j][i] /\ m.type = "PROPOSE" /\ R[i] \in ReplicaRecord /\ c \in Seq(Requests)
      /\ OnlyAt(R, R2, i) /\ R2[i].decided = MaxOf(R[i].decided, m.decided)
      /\ LogEnd(R2[i]) = EndOf(m) /\ ~Leads(R2, i)
      /\ m.round = R[i].ack => EndOf(m) >= LogEnd(R[i])
      /\ Len(c) \in Nat
  BY RecordAt, LenProperties DEF Takes, Core
<1>2. /\ m.slot \in Nat /\ m.round \in Nat /\ m.decided \in Nat /\ EndOf(m) \in Nat
      /\ m.round = R2[i].ack /\ R[i].ack <= m.round /\ R[i].ack \in Nat
      /\ R[i].decided \in Nat /\ R[i].applied \in Nat /\ LogEnd(R[i]) \in Nat
      /\ R[i].base \in Nat
  BY <1>1, TakesReplica, TakesFields
<1>3. Decided(R, W, c, m.decided, m.round)
  BY <1>1 DEF Core, Witnesses, ProposeWitnessed
<1>4. Indices(R2, c)
  <2> SUFFICES ASSUME NEW l \in Replicas
               PROVE  ReplicaIndices(R2[l], c) /\ (Leads(R2, l) => LeaderIndices(R2[l], l))
    BY DEF Indices
  <2>1. ReplicaIndices(R[l], c) /\ (Leads(R, l) => LeaderIndices(R[l], l))
    BY <1>1 DEF Core, Indices
  <2>2. CASE l # i
    <3>1. R2[l] = R[l] /\ (Leads(R2, l) => Leads(R, l))
      BY <2>2, TakesFields
    <3> QED
      BY <2>1, <3>1
  <2>3. CASE l = i
    <3>1. R2[i].base = R[i].base /\ R2[i].applied = R[i].applied /\ R2[i].db = R[i].db
      BY <1>1, TakesFields
    <3>2. m.decided <= Len(c)
      BY <1>1, <1>2, <1>3, DecidedCovers
    <3>3. R[i].applied <= EndOf(m)
      <4>1. CASE m.round > R[i].ack
        BY <1>1, <1>2, <4>1, ProposeFits
      <4>2. CASE m.round = R[i].ack
        BY <1>1, <1>2, <2>1, <2>3, <4>2 DEF ReplicaIndices
      <4> QED
        BY <1>2, <4>1, <4>2
    <3> QED
      BY <1>1, <1>2, <2>1, <2>3, <3>1, <3>2, <3>3 DEF ReplicaIndices, MaxOf
  <2> QED
    BY <2>2, <2>3
<1>5. Witnesses(R2, W, c)
  <2>1. \E r \in Nat : Decided(R2, W, c, Len(c), r)
    <3>1. PICK r \in Nat : Decided(R, W, c, Len(c), r)
      BY <1>1 DEF Core, Witnesses
    <3> QED
      BY <1>1, <3>1, TakesBacked
  <2>2. ASSUME NEW l \in Replicas
        PROVE  Settled(R2, W, c, R2[l].base, R2[l].ack) /\ Decided(R2, W, c, R2[l].decided, R2[l].ack)
    <3>1. /\ Settled(R, W, c, R[l].base, R[l].ack) /\ Decided(R, W, c, R[l].decided, R[l].ack)
      BY <1>1 DEF Core, Witnesses
    <3>2. /\ R2[l].base = R[l].base /\ R[l].base \in Nat /\ R[l].decided \in Nat
          /\ R[l].ack \in Nat /\ R2[l].ack \in Nat /\ R[l].ack <= R2[l].ack
          /\ l # i => R2[l] = R[l]
      BY TakesFields
    <3>3. Settled(R, W, c, R[l].base, R2[l].ack) /\ Decided(R, W, c, R[l].decided, R2[l].ack)
      <4>1. Settled(R, W, c, R[l].base, R2[l].ack)
        BY <1>1, <3>1, <3>2, SettledLess
      <4>2. Decided(R, W, c, R[l].decided, R2[l].ack)
        BY <1>1, <3>1, <3>2, SettledLess
      <4> QED
        BY <4>1, <4>2
    <3>4. Decided(R, W, c, R2[l].decided, R2[l].ack)
      <4>1. CASE l # i
        BY <3>2, <3>3, <4>1
      <4>2. CASE l = i
        BY <1>1, <1>2, <1>3, <3>3, <4>2 DEF MaxOf
      <4> QED
        BY <4>1, <4>2
    <3>5. R2[l].decided \in Nat
      BY <1>1, RecordAt, ReplicaFields
    <3> QED
      BY <3>2, <3>3, <3>4, <3>5, TakesBacked
  <2>3. ASSUME NEW a \in Reports(R2, W)
        PROVE  Settled(R2, W, c, a.slot, a.ack) /\ \E l \in Replicas : a.slot <= R2[l].applied
    <3>1. a \in Reports(R, W) /\ a.slot \in Nat /\ a.ack \in Nat
      BY <1>1, OnlyAtLogs, ReportTypes
    <3>2. Settled(R, W, c, a.slot, a.ack) /\ \E l \in Replicas : a.slot <= R[l].applied
      BY <1>1, <3>1 DEF Core, Witnesses
    <3>3. Settled(R2, W, c, a.slot, a.ack)
      BY <1>1, <3>1, <3>2, TakesBacked
    <3> QED
      BY <3>2, <3>3, TakesFields
  <2>4. ASSUME NEW p \in Replicas, NEW q \in Replicas, NEW a \in W[p][q], a.type = "PROPOSE"
        PROVE  ProposeWitnessed(R2, W, c, q, a)
    <3>1. a.slot \in Nat /\ a.trunc \in Nat /\ a.decided \in Nat /\ a.round \in Nat
      BY <1>1, <2>4, MessageFields DEF Typed
    <3>2. ProposeWitnessed(R, W, c, q, a)
      BY <1>1, <2>4 DEF Core, Witnesses
    <3>3. Settled(R2, W, c, a.trunc, a.round) /\ Decided(R2, W, c, a.decided, a.round)
      BY <3>1, <3>2, TakesBacked DEF ProposeWitnessed
    <3>4. Settled(R, W, c, a.slot, a.round) => Settled(R2, W, c, a.slot, a.round)
      BY <1>1, <3>1, TakesBacked
    <3>5. /\ R2[q].ack >= R[q].ack /\ R[q].ack \in Nat /\ R2[q].ack \in Nat
          /\ R2[q].ack = R[q].ack => LogEnd(R2[q]) >= LogEnd(R[q])
          /\ LogEnd(R[q]) \in Nat /\ LogEnd(R2[q]) \in Nat
      BY TakesFields
    <3> QED
      BY <3>1, <3>2, <3>3, <3>4, <3>5 DEF ProposeWitnessed
  <2> QED
    BY <2>1, <2>2, <2>3, <2>4 DEF Witnesses
<1>6. Votes(R2, W, c)
  <2> SUFFICES ASSUME NEW l \in Replicas, NEW q \in Replicas, Leads(R2, l)
               PROVE  /\ Backed(R2, W, c, q, R2[l].acks[q], R2[l].ack)
                      /\ \A a \in W[q][l] : a.type = "ACK" /\ a.round = R2[l].ack =>
                            a.slot <= LogEnd(R2[l]) /\ Backed(R2, W, c, q, a.slot, R2[l].ack)
    BY DEF Votes
  <2>1. R2[l] = R[l] /\ Leads(R, l) /\ R[l].ack \in Nat
    BY TakesFields
  <2>2. R[l].acks[q] \in Nat
    BY <1>1, RecordAt, ReplicaFields
  <2>3. Backed(R, W, c, q, R[l].acks[q], R[l].ack)
    BY <1>1, <2>1 DEF Core, Votes
  <2>4. ASSUME NEW a \in W[q][l], a.type = "ACK", a.round = R2[l].ack
        PROVE  a.slot <= LogEnd(R2[l]) /\ Backed(R2, W, c, q, a.slot, R2[l].ack)
    <3>1. a.slot \in Nat
      BY <1>1, <2>4, MessageFields DEF Typed
    <3>2. a.slot <= LogEnd(R[l]) /\ Backed(R, W, c, q, a.slot, R[l].ack)
      BY <1>1, <2>1, <2>4 DEF Core, Votes
    <3> QED
      BY <2>1, <3>1, <3>2, TakesBacked
  <2> QED
    BY <2>1, <2>2, <2>3, <2>4, TakesBacked
<1> QED
  BY <1>1, <1>4, <1>5, <1>6, TakesRounds, TakesLogsAgree, TakesSafe DEF Core

-----------------------------------------------------------------------------
(* A candidate wins its election and adopts the best log reported to it.   *)

\* The candidate i adopts b, the best of the PREPAREs that it has from Q.
Adopts(R, W, R2, c, i, b, Q) ==
    /\ Core(R, W, c) /\ i \in Replicas /\ Q \in Quorums
    /\ Typed(R, W) /\ Typed(R2, W) /\ OnlyAt(R, R2, i)
    /\ R[i].prepares # <<>> /\ R[i].election = R[i].probe
    /\ \A q \in Q : \E k \in DOMAIN R[i].prepares : R[i].prepares[k].sender = q
    /\ \E k \in DOMAIN R[i].prepares : R[i].prepares[k] = b
    /\ \A k \in DOMAIN R[i].prepares :
          \/ R[i].prepares[k].ack < b.ack
          \/ R[i].prepares[k].ack = b.ack /\ EndOf(R[i].prepares[k]) <= EndOf(b)
    /\ R2[i].probe = R[i].probe /\ R2[i].election = R[i].election /\ R2[i].prepares = <<>>
    /\ Leads(R2, i) /\ R2[i].ack = R[i].election
    /\ R2[i].base = b.slot /\ R2[i].log = b.values /\ R2[i].next = EndOf(b)
    /\ \A q \in Replicas : R2[i].acks[q] = IF q = i THEN EndOf(b) ELSE b.slot
    /\ R2[i].decided = MaxOf(R[i].decided, b.slot)
    /\ R2[i].applied = MaxOf(R[i].applied, b.slot)
    /\ R2[i].db = SubSeq(c, 1, R2[i].applied)

\* No log was written in the new round, and every one of Q has reported to i.
LEMMA AdoptsFacts ==
    ASSUME NEW R, NEW W, NEW R2, NEW c, NEW i, NEW b, NEW Q, Adopts(R, W, R2, c, i, b, Q)
    PROVE  /\ R[i] \in ReplicaRecord /\ R2[i] \in ReplicaRecord
           /\ b \in Reports(R, W) /\ Reported(b) \in Logs(R, W) /\ Reported(b) \in Log
           /\ b.slot \in Nat /\ b.ack \in Nat /\ EndOf(b) \in Nat /\ b.slot <= EndOf(b)
           /\ Reported(b).round = b.ack /\ EndOf(Reported(b)) = EndOf(b)
           /\ Reported(b).slot = b.slot
           /\ R[i].probe \in Nat /\ R[i].election = R[i].probe /\ R2[i].probe = R[i].probe
           /\ R2[i].ack = R[i].probe /\ R[i].ack \in Nat /\ R[i].ack < R[i].probe
           /\ Owner(R[i].probe) = i /\ ~Leads(R, i)
           /\ \A t \in Logs(R, W) : t.round # R[i].probe
           /\ b.ack < R[i].probe
<1>1. /\ Core(R, W, c) /\ i \in Replicas /\ Typed(R, W) /\ Typed(R2, W) /\ Rounds(R, W)
      /\ R[i].prepares # <<>> /\ R[i].election = R[i].probe
      /\ R2[i].ack = R[i].election /\ R2[i].probe = R[i].probe
  BY DEF Adopts, Core
<1>2. /\ R[i] \in ReplicaRecord /\ R2[i] \in ReplicaRecord
      /\ R[i].probe \in Nat /\ R[i].ack \in Nat
  BY <1>1, RecordAt, ReplicaFields
<1>3. ReplicaRounds(R, i)
  BY <1>1 DEF Rounds
<1>4. Owner(R[i].probe) = i /\ R[i].ack < R[i].probe
  BY <1>1, <1>3 DEF ReplicaRounds
<1>5. ~Leads(R, i)
  BY <1>2, <1>3, <1>4 DEF ReplicaRounds
<1>6. PICK k \in DOMAIN R[i].prepares : R[i].prepares[k] = b
  BY DEF Adopts
<1>7. b \in Reports(R, W) /\ b.round = R[i].probe
  BY <1>1, <1>3, <1>6, InReports DEF ReplicaRounds
<1>8. /\ Reported(b) \in Logs(R, W) /\ Reported(b) \in Log
      /\ b.slot \in Nat /\ b.ack \in Nat
      /\ Reported(b).round = b.ack /\ EndOf(Reported(b)) = EndOf(b) /\ Reported(b).slot = b.slot
  BY <1>1, <1>7, ReportTypes, InLogs
<1>9. EndOf(b) \in Nat /\ b.slot <= EndOf(b)
  BY <1>8, LogFields
<1>10. \A t \in Logs(R, W) : t.round # R[i].probe
  <2> SUFFICES ASSUME NEW t \in Logs(R, W), t.round = R[i].probe
               PROVE  FALSE
    OBVIOUS
  <2>1. R[i].ack >= R[i].probe
    BY <1>1, <1>4 DEF Rounds, LogRounds
  <2> QED
    BY <1>2, <1>4, <2>1
<1>11. b.ack < R[i].probe
  <2>1. b.ack <= b.round
    BY <1>1, <1>7 DEF Rounds, ReportRounds
  <2>2. b.ack # R[i].probe
    BY <1>8, <1>10
  <2> QED
    BY <1>2, <1>7, <1>8, <2>1, <2>2
<1> QED
  BY <1>1, <1>2, <1>4, <1>5, <1>7, <1>8, <1>9, <1>10, <1>11

\* The reports of Q are of the new round, and none is better than b.
LEMMA AdoptsReports ==
    ASSUME NEW R, NEW W, NEW R2, NEW c, NEW i, NEW b, NEW Q, Adopts(R, W, R2, c, i, b, Q),
           NEW q \in Q
    PROVE  /\ q \in Replicas /\ R[q].probe >= R[i].probe
           /\ \E m \in Reports(R, W) :
                /\ m.sender = q /\ m.round = R[i].probe /\ m.ack \in Nat /\ EndOf(m) \in Nat
                /\ Reported(m) \in Log /\ Reported(m).round = m.ack
                /\ EndOf(Reported(m)) = EndOf(m)
                /\ m.ack < b.ack \/ (m.ack = b.ack /\ EndOf(m) <= EndOf(b))
<1>1. /\ Core(R, W, c) /\ i \in Replicas /\ Typed(R, W) /\ Rounds(R, W)
      /\ R[i].election = R[i].probe /\ Q \in Quorums
  BY DEF Adopts, Core
<1>2. PICK k \in DOMAIN R[i].prepares : R[i].prepares[k].sender = q
  BY DEF Adopts
<1> DEFINE m == R[i].prepares[k]
<1>3. m.ack < b.ack \/ (m.ack = b.ack /\ EndOf(m) <= EndOf(b))
  BY DEF Adopts
<1>4. m \in Reports(R, W) /\ m.round = R[i].probe
  BY <1>1, InReports DEF Rounds, ReplicaRounds
<1>5. /\ m.ack \in Nat /\ Reported(m) \in Log /\ Reported(m).round = m.ack
      /\ EndOf(Reported(m)) = EndOf(m)
  BY <1>1, <1>4, ReportTypes
<1>6. EndOf(m) \in Nat
  BY <1>5, LogFields
<1>7. R[q].probe >= R[i].probe
  <2>1. m.round <= R[m.sender].probe
    BY <1>1, <1>4 DEF Rounds, ReportRounds
  <2>2. q \in Replicas
    BY <1>1, QuorumMembers
  <2>3. R[q].probe \in Nat /\ R[i].probe \in Nat
    BY <1>1, <2>2, RecordAt, ReplicaFields
  <2> QED
    BY <1>2, <1>4, <2>1, <2>3
<1> QED
  BY <1>1, <1>2, <1>3, <1>4, <1>5, <1>6, <1>7, QuorumMembers

\* What i holds afterwards, and what the others do.
LEMMA AdoptsLog ==
    ASSUME NEW R, NEW W, NEW R2, NEW c, NEW i, NEW b, NEW Q, Adopts(R, W, R2, c, i, b, Q)
    PROVE  /\ Held(R2[i]) \in Log /\ Held(R2[i]).round = R[i].probe
           /\ Held(R2[i]).slot = b.slot /\ EndOf(Held(R2[i])) = EndOf(b)
           /\ LogEnd(R2[i]) = EndOf(b)
           /\ Slots(Held(R2[i])) = Slots(Reported(b))
           /\ \A k : At(Held(R2[i]), k) = At(Reported(b), k)
           /\ \A t \in Logs(R2, W) : t = Held(R2[i]) \/ t \in Logs(R, W)
           /\ Reports(R2, W) \subseteq Reports(R, W)
<1>1. /\ R2[i] \in ReplicaRecord /\ R2[i].ack = R[i].probe /\ EndOf(Reported(b)) = EndOf(b)
      /\ Reported(b).slot = b.slot
  BY AdoptsFacts
<1>2. /\ Held(R2[i]) \in Log /\ Held(R2[i]).round = R2[i].ack /\ Held(R2[i]).slot = R2[i].base
      /\ Held(R2[i]).values = R2[i].log /\ EndOf(Held(R2[i])) = LogEnd(R2[i])
  BY <1>1, ReplicaFields
<1>3. R2[i].base = b.slot /\ R2[i].log = b.values /\ i \in Replicas /\ OnlyAt(R, R2, i)
  BY DEF Adopts
<1>4. Held(R2[i]).values = Reported(b).values /\ Held(R2[i]).slot = Reported(b).slot
  BY <1>1, <1>2, <1>3 DEF Reported
<1>5. EndOf(Held(R2[i])) = EndOf(b)
  BY <1>1, <1>4 DEF EndOf
<1>6. Slots(Held(R2[i])) = Slots(Reported(b)) /\ \A k : At(Held(R2[i]), k) = At(Reported(b), k)
  BY <1>4, <1>5 DEF Slots, EndOf, At
<1> QED
  BY <1>1, <1>2, <1>3, <1>5, <1>6, OnlyAtLogs

\* What a candidate's adopting the best log leaves of each replica.
LEMMA AdoptsFields ==
    ASSUME NEW R, NEW W, NEW R2, NEW c, NEW i, NEW b, NEW Q, Adopts(R, W, R2, c, i, b, Q),
           NEW q \in Replicas
    PROVE  /\ R[q].ack \in Nat /\ R2[q].ack \in Nat /\ R2[q].ack >= R[q].ack
           /\ R2[q].ack = R[q].ack => q # i
           /\ R2[q].probe = R[q].probe /\ R[q].probe \in Nat
           /\ R2[q].election = R[q].election
           /\ q # i => R2[q] = R[q] /\ (Leads(R2, q) <=> Leads(R, q))
           /\ LogEnd(R[q]) \in Nat /\ LogEnd(R2[q]) \in Nat
           /\ R[q].base \in Nat /\ R[q].applied \in Nat /\ R[q].decided \in Nat
           /\ R2[q].applied \in Nat /\ R2[q].applied >= R[q].applied
           /\ R[q].ack # R[i].probe /\ Held(R[q]) \in Logs(R, W)
<1>1. /\ R[q].ack \in Nat /\ R2[q].ack \in Nat /\ R[q].probe \in Nat
      /\ LogEnd(R[q]) \in Nat /\ LogEnd(R2[q]) \in Nat
      /\ R[q].base \in Nat /\ R[q].applied \in Nat /\ R[q].decided \in Nat
      /\ R2[q].applied \in Nat /\ Held(R[q]).round = R[q].ack
  BY RecordAt, ReplicaFields DEF Adopts
<1>2. q # i => R2[q] = R[q] /\ (Leads(R2, q) <=> Leads(R, q))
  BY DEF Adopts, OnlyAt, Leads
<1>3. /\ R2[i].ack = R[i].probe /\ R[i].ack < R[i].probe /\ R2[i].probe = R[i].probe
      /\ R[i].election = R[i].probe /\ b.slot \in Nat
      /\ \A t \in Logs(R, W) : t.round # R[i].probe
  BY AdoptsFacts
<1>4. R2[i].election = R[i].election /\ R2[i].applied = MaxOf(R[i].applied, b.slot)
  BY DEF Adopts
<1>5. Held(R[q]) \in Logs(R, W)
  BY InLogs
<1>6. R[q].ack # R[i].probe
  BY <1>1, <1>3, <1>5
<1>7. CASE q = i
  BY <1>1, <1>3, <1>4, <1>5, <1>6, <1>7 DEF MaxOf
<1>8. CASE q # i
  BY <1>1, <1>2, <1>5, <1>6, <1>8
<1> QED
  BY <1>7, <1>8

\* What an earlier round chose is in the adopted log.
LEMMA AdoptsCovers ==
    ASSUME NEW R, NEW W, NEW R2, NEW c, NEW i, NEW b, NEW Q, Adopts(R, W, R2, c, i, b, Q),
           NEW P \in Quorums, NEW n \in Nat, NEW r \in Nat, Chosen(R, W, c, P, n, r),
           r < R[i].probe
    PROVE  Covers(Held(R2[i]), c, n)
<1>1. PICK q \in Replicas : q \in P /\ q \in Q
  BY QuorumsMeet DEF Adopts
<1>2. PICK m \in Reports(R, W) :
        /\ m.sender = q /\ m.round = R[i].probe /\ m.ack \in Nat /\ EndOf(m) \in Nat
        /\ EndOf(Reported(m)) = EndOf(m)
        /\ m.ack < b.ack \/ (m.ack = b.ack /\ EndOf(m) <= EndOf(b))
  BY <1>1, AdoptsReports
<1>3. m.ack >= r /\ Covers(Reported(m), c, n)
  BY <1>1, <1>2 DEF Chosen
<1>4. /\ Reported(b) \in Logs(R, W) /\ Reported(b).round = b.ack /\ b.ack \in Nat
      /\ EndOf(b) \in Nat /\ EndOf(Reported(b)) = EndOf(b)
  BY AdoptsFacts
<1>5. Covers(Reported(b), c, n)
  <2>1. CASE b.ack > r
    BY <1>4, <2>1 DEF Chosen
  <2>2. CASE b.ack <= r
    <3>1. m.ack = b.ack /\ EndOf(m) <= EndOf(b) /\ b.ack = r
      BY <1>2, <1>3, <1>4, <2>2
    <3>2. EndOf(m) >= n
      BY <1>2, <1>3 DEF Covers
    <3>3. Matches(Reported(b), c, n)
      BY <1>4, <3>1 DEF Chosen
    <3> QED
      BY <1>2, <1>4, <3>1, <3>2, <3>3 DEF Covers
  <2> QED
    BY <1>4, <2>1, <2>2
<1>6. /\ Slots(Held(R2[i])) = Slots(Reported(b)) /\ EndOf(Held(R2[i])) = EndOf(b)
      /\ \A k : At(Held(R2[i]), k) = At(Reported(b), k)
  BY AdoptsLog
<1> QED
  BY <1>4, <1>5, <1>6 DEF Covers, Matches

\* The best log of a quorum has all that is chosen: the quorum meets the one that
\* chose it.
LEMMA AdoptsChosen ==
    ASSUME NEW R, NEW W, NEW R2, NEW c, NEW i, NEW b, NEW Q, Adopts(R, W, R2, c, i, b, Q),
           NEW P \in Quorums, NEW n \in Nat, NEW r \in Nat, Chosen(R, W, c, P, n, r)
    PROVE  Chosen(R2, W, c, P, n, r)
<1>1. /\ R[i].probe \in Nat /\ R[i].ack \in Nat /\ R[i].ack < R[i].probe
      /\ Owner(R[i].probe) = i /\ R2[i].ack = R[i].probe /\ i \in Replicas
      /\ P \subseteq Replicas
  <2>1. i \in Replicas /\ P \subseteq Replicas
    BY QuorumMembers DEF Adopts
  <2> QED
    BY <2>1, AdoptsFacts
<1>2. r # R[i].probe
  <2>1. R[Owner(r)].ack >= r
    BY DEF Chosen
  <2> QED
    BY <1>1, <2>1
<1>3. r < R[i].probe => Covers(Held(R2[i]), c, n)
  BY AdoptsCovers
<1>4. i \in P => r < R[i].probe
  <2>1. i \in P => R[i].ack >= r
    BY DEF Chosen
  <2> QED
    BY <1>1, <2>1
<1>5. /\ Held(R2[i]).round = R[i].probe
      /\ \A t \in Logs(R2, W) : t = Held(R2[i]) \/ t \in Logs(R, W)
      /\ Reports(R2, W) \subseteq Reports(R, W)
  BY AdoptsLog
<1>6. R2[Owner(r)].ack >= r
  <2>1. Owner(r) \in Replicas
    BY OwnerType
  <2>2. /\ R2[Owner(r)].ack >= R[Owner(r)].ack
        /\ R2[Owner(r)].ack \in Nat /\ R[Owner(r)].ack \in Nat
    BY <2>1, AdoptsFields
  <2> QED
    BY <2>2 DEF Chosen
<1>7. \A q \in P : R2[q].ack >= r /\ Covers(Held(R2[q]), c, n)
  <2> SUFFICES ASSUME NEW q \in P
               PROVE  R2[q].ack >= r /\ Covers(Held(R2[q]), c, n)
    OBVIOUS
  <2>1. CASE q = i
    BY <1>1, <1>3, <1>4, <2>1
  <2>2. CASE q # i
    <3>1. R2[q] = R[q]
      BY <1>1, <2>2, AdoptsFields
    <3> QED
      BY <3>1 DEF Chosen
  <2> QED
    BY <2>1, <2>2
<1>8. \A a \in Reports(R2, W) : a.sender \in P /\ a.round > r => a.ack >= r /\ Covers(Reported(a), c, n)
  BY <1>5 DEF Chosen
<1>9. \A t \in Logs(R2, W) : (t.round > r => Covers(t, c, n)) /\ (t.round = r => Matches(t, c, n))
  <2> SUFFICES ASSUME NEW t \in Logs(R2, W)
               PROVE  (t.round > r => Covers(t, c, n)) /\ (t.round = r => Matches(t, c, n))
    OBVIOUS
  <2>1. CASE t \in Logs(R, W)
    BY <2>1 DEF Chosen
  <2>2. CASE t = Held(R2[i])
    BY <1>2, <1>3, <1>5, <2>2
  <2> QED
    BY <1>5, <2>1, <2>2
<1>10. \A l \in Replicas : Leads(R2, l) /\ R2[l].ack = r => Covers(Held(R2[l]), c, n)
  <2> SUFFICES ASSUME NEW l \in Replicas, Leads(R2, l), R2[l].ack = r
               PROVE  Covers(Held(R2[l]), c, n)
    OBVIOUS
  <2>1. l # i
    BY <1>1, <1>2
  <2>2. R2[l] = R[l] /\ Leads(R, l)
    BY <2>1, AdoptsFields
  <2> QED
    BY <2>2 DEF Chosen
<1> QED
  BY <1>6, <1>7, <1>8, <1>9, <1>10 DEF Chosen

\* What is settled, decided or voted stays so.
LEMMA AdoptsBacked ==
    ASSUME NEW R, NEW W, NEW R2, NEW c, NEW i, NEW b, NEW Q, Adopts(R, W, R2, c, i, b, Q),
           NEW q \in Replicas, NEW n \in Nat, NEW r \in Nat
    PROVE  /\ Settled(R, W, c, n, r) => Settled(R2, W, c, n, r)
           /\ Decided(R, W, c, n, r) => Decided(R2, W, c, n, r)
           /\ Backed(R, W, c, q, n, r) => Backed(R2, W, c, q, n, r)
<1>1. Settled(R, W, c, n, r) => Settled(R2, W, c, n, r)
  BY AdoptsChosen, ReplicasFinite DEF Settled
<1>2. Decided(R, W, c, n, r) => Decided(R2, W, c, n, r)
  BY AdoptsChosen DEF Decided
<1>3. Voted(R, W, q, n, r) => Voted(R2, W, q, n, r)
  <2>1. Reports(R2, W) \subseteq Reports(R, W)
    BY AdoptsLog
  <2>2. /\ R[q].ack \in Nat /\ R2[q].ack \in Nat /\ R2[q].ack >= R[q].ack
        /\ R2[q].ack = R[q].ack => R2[q] = R[q]
    BY AdoptsFields
  <2> QED
    BY <2>1, <2>2 DEF Voted
<1> QED
  BY <1>1, <1>2, <1>3 DEF Backed

\* The rounds when i adopts b.
LEMMA AdoptsRounds ==
    ASSUME NEW R, NEW W, NEW R2, NEW c, NEW i, NEW b, NEW Q, Adopts(R, W, R2, c, i, b, Q)
    PROVE  Rounds(R2, W)
<1>1. /\ Typed(R, W) /\ Rounds(R, W) /\ i \in Replicas /\ OnlyAt(R, R2, i) /\ Q \in Quorums
      /\ R2[i].prepares = <<>> /\ Leads(R2, i)
  BY DEF Adopts, Core
<1>2. /\ R[i].probe \in Nat /\ R[i].election = R[i].probe /\ R2[i].probe = R[i].probe
      /\ R2[i].ack = R[i].probe /\ Owner(R[i].probe) = i
  BY AdoptsFacts
<1>3. \A l \in Replicas : ReplicaRounds(R2, l)
  <2> SUFFICES ASSUME NEW l \in Replicas
               PROVE  ReplicaRounds(R2, l)
    OBVIOUS
  <2>1. CASE l # i
    <3>1. ReplicaRounds(R, l)
      BY <1>1 DEF Rounds
    <3> QED
      BY <1>1, <2>1, <3>1 DEF OnlyAt, ReplicaRounds, Leads
  <2>2. CASE l = i
    <3>1. R2[i].election = R[i].probe /\ DOMAIN R2[i].prepares = {}
      BY <1>1, <1>2, AdoptsFields
    <3> QED
      BY <1>1, <1>2, <2>2, <3>1 DEF ReplicaRounds
  <2> QED
    BY <2>1, <2>2
<1>4. ASSUME NEW a \in Reports(R2, W)
      PROVE  ReportRounds(R2, a)
  <2>1. a \in Reports(R, W)
    BY AdoptsLog
  <2>2. ReportRounds(R, a) /\ a.sender \in Replicas /\ a.round \in Nat
    BY <1>1, <2>1, ReportTypes DEF Rounds
  <2>3. CASE a.sender = i
    <3>1. a.ack <= a.round /\ a.round <= R[i].probe
      BY <2>2, <2>3 DEF ReportRounds
    <3>2. ~(R2[i].ack < a.round)
      BY <1>2, <2>2, <3>1
    <3> QED
      BY <1>2, <2>3, <3>1, <3>2 DEF ReportRounds
  <2>4. CASE a.sender # i
    BY <1>1, <2>2, <2>4 DEF ReportRounds, OnlyAt
  <2> QED
    BY <2>3, <2>4
<1>5. ASSUME NEW p \in Replicas, NEW q \in Replicas, NEW a \in W[p][q]
      PROVE  MessageRounds(R2, p, q, a)
  <2>1. MessageRounds(R, p, q, a) /\ a.round \in Nat
    BY <1>1, MessageFields DEF Rounds, Typed
  <2>2. /\ R2[p].probe = R[p].probe /\ R2[q].probe = R[q].probe
        /\ R2[q].ack >= R[q].ack /\ R2[q].ack \in Nat /\ R[q].ack \in Nat
    BY AdoptsFields
  <2> QED
    BY <2>1, <2>2 DEF MessageRounds
<1>6. ASSUME NEW t \in Logs(R2, W)
      PROVE  LogRounds(R2, t)
  <2>1. CASE t \in Logs(R, W)
    <3>1. LogRounds(R, t) /\ t.round \in Nat
      BY <1>1, <2>1, LogTypes, LogFields DEF Rounds
    <3>2. Owner(t.round) \in Replicas
      BY <3>1, OwnerType
    <3>3. /\ R2[Owner(t.round)].ack >= R[Owner(t.round)].ack
          /\ R2[Owner(t.round)].ack \in Nat /\ R[Owner(t.round)].ack \in Nat
      BY <3>2, AdoptsFields
    <3>4. \A P \in Quorums : \A q \in P : R2[q].probe = R[q].probe
      BY AdoptsFields, QuorumMembers
    <3> QED
      BY <3>1, <3>3, <3>4 DEF LogRounds
  <2>2. CASE t = Held(R2[i])
    <3>1. t.round = R[i].probe
      BY <2>2, AdoptsLog
    <3>2. R2[Owner(t.round)].ack >= t.round
      BY <1>2, <3>1
    <3>3. \A q \in Q : R2[q].probe >= t.round
      <4> SUFFICES ASSUME NEW q \in Q
                   PROVE  R2[q].probe >= t.round
        OBVIOUS
      <4>1. q \in Replicas /\ R[q].probe >= R[i].probe
        BY AdoptsReports
      <4>2. R2[q].probe = R[q].probe
        BY <4>1, AdoptsFields
      <4> QED
        BY <3>1, <4>1, <4>2
    <3> QED
      BY <1>1, <3>2, <3>3 DEF LogRounds
  <2> QED
    BY <2>1, <2>2, AdoptsLog
<1> QED
  BY <1>3, <1>4, <1>5, <1>6 DEF Rounds

\* The new leader's indices lie within the log that it adopts.
LEMMA AdoptsIndices ==
    ASSUME NEW R, NEW W, NEW R2, NEW c, NEW i, NEW b, NEW Q, Adopts(R, W, R2, c, i, b, Q)
    PROVE  Indices(R2, c)
<1>1. /\ Core(R, W, c) /\ Typed(R, W) /\ Typed(R2, W) /\ i \in Replicas /\ c \in Seq(Requests)
      /\ Len(c) \in Nat
  BY LenProperties DEF Adopts, Core
<1>2. /\ b \in Reports(R, W) /\ b.slot \in Nat /\ b.ack \in Nat /\ EndOf(b) \in Nat
      /\ b.slot <= EndOf(b) /\ R[i].ack \in Nat /\ R[i].ack < R[i].probe /\ R[i].probe \in Nat
  BY AdoptsFacts
<1>3. /\ LogEnd(R2[i]) = EndOf(b) /\ EndOf(Held(R2[i])) = EndOf(b)
      /\ Held(R2[i]).round = R[i].probe /\ Held(R2[i]) \in Logs(R2, W)
  BY <1>1, AdoptsLog, InLogs
<1> SUFFICES ASSUME NEW l \in Replicas
             PROVE  ReplicaIndices(R2[l], c) /\ (Leads(R2, l) => LeaderIndices(R2[l], l))
  BY DEF Indices
<1>4. ReplicaIndices(R[l], c) /\ (Leads(R, l) => LeaderIndices(R[l], l))
  BY <1>1 DEF Core, Indices
<1>5. CASE l # i
  BY <1>4, <1>5, AdoptsFields
<1>6. CASE l = i
  <2>1. R[i].decided \in Nat /\ R[i].applied \in Nat
    BY <1>1, AdoptsFields
  <2>2. R[i].applied <= R[i].decided /\ R[i].decided <= Len(c)
    BY <1>4, <1>6 DEF ReplicaIndices
  <2>3. R[i].decided <= EndOf(b)
    <3>1. Decided(R, W, c, R[i].decided, R[i].ack)
      BY <1>1 DEF Core, Witnesses
    <3>2. Decided(R2, W, c, R[i].decided, R[i].ack)
      BY <1>1, <1>2, <2>1, <3>1, AdoptsBacked
    <3>3. Covers(Held(R2[i]), c, R[i].decided)
      BY <1>1, <1>2, <1>3, <2>1, <3>2, DecidedCovers
    <3> QED
      BY <1>2, <1>3, <2>1, <3>3 DEF Covers
  <2>4. b.slot <= Len(c)
    <3>1. Settled(R, W, c, b.slot, b.ack)
      BY <1>1, <1>2 DEF Core, Witnesses
    <3>2. Decided(R, W, c, b.slot, b.ack)
      BY <1>1, <1>2, <3>1, SettledLess
    <3> QED
      BY <1>1, <1>2, <3>2, DecidedCovers
  <2>5. /\ R2[i].base = b.slot /\ R2[i].next = EndOf(b)
        /\ \A q \in Replicas : R2[i].acks[q] = IF q = i THEN EndOf(b) ELSE b.slot
        /\ R2[i].decided = MaxOf(R[i].decided, b.slot)
        /\ R2[i].applied = MaxOf(R[i].applied, b.slot)
        /\ R2[i].db = SubSeq(c, 1, R2[i].applied)
    BY DEF Adopts
  <2>6. ReplicaIndices(R2[i], c)
    BY <1>1, <1>2, <1>3, <2>1, <2>2, <2>3, <2>4, <2>5 DEF ReplicaIndices, MaxOf
  <2>7. LeaderIndices(R2[i], i)
    BY <1>1, <1>2, <1>3, <2>5 DEF LeaderIndices
  <2> QED
    BY <1>6, <2>6, <2>7
<1> QED
  BY <1>5, <1>6

\* The adopted log is the first one of its round.
LEMMA AdoptsLogsAgree ==
    ASSUME NEW R, NEW W, NEW R2, NEW c, NEW i, NEW b, NEW Q, Adopts(R, W, R2, c, i, b, Q)
    PROVE  LogsAgree(R2, W)
<1>1. LogsAgree(R, W) /\ i \in Replicas
  BY DEF Adopts, Core
<1>2. /\ Held(R2[i]).round = R[i].probe /\ EndOf(Held(R2[i])) = LogEnd(R2[i])
      /\ \A t \in Logs(R2, W) : t = Held(R2[i]) \/ t \in Logs(R, W)
      /\ \A t \in Logs(R, W) : t.round # R[i].probe
      /\ R2[i].ack = R[i].probe /\ LogEnd(R2[i]) \in Nat
  BY <1>1, AdoptsLog, AdoptsFacts, AdoptsFields
<1>3. ASSUME NEW t \in Logs(R2, W), NEW u \in Logs(R2, W), t.round = u.round
      PROVE  Agree(t, u)
  <2>1. CASE t \in Logs(R, W) /\ u \in Logs(R, W)
    BY <1>1, <1>3, <2>1 DEF LogsAgree
  <2>2. CASE t = Held(R2[i]) /\ u = Held(R2[i])
    BY <2>2 DEF Agree
  <2> QED
    BY <1>2, <1>3, <2>1, <2>2
<1>4. ASSUME NEW l \in Replicas, NEW t \in Logs(R2, W), Leads(R2, l), t.round = R2[l].ack
      PROVE  EndOf(t) <= LogEnd(R2[l])
  <2>1. CASE l = i
    <3>1. t = Held(R2[i])
      BY <1>2, <1>4, <2>1
    <3> QED
      BY <1>2, <2>1, <3>1
  <2>2. CASE l # i
    <3>1. R2[l] = R[l] /\ Leads(R, l) /\ R[l].ack # R[i].probe
      BY <1>4, <2>2, AdoptsFields
    <3>2. t \in Logs(R, W)
      BY <1>2, <1>4, <3>1
    <3> QED
      BY <1>1, <1>4, <3>1, <3>2 DEF LogsAgree
  <2> QED
    BY <2>1, <2>2
<1> QED
  BY <1>3, <1>4 DEF LogsAgree

\* The new leader truncates, decides and applies only what is chosen.
LEMMA AdoptsWitnesses ==
    ASSUME NEW R, NEW W, NEW R2, NEW c, NEW i, NEW b, NEW Q, Adopts(R, W, R2, c, i, b, Q)
    PROVE  Witnesses(R2, W, c)
<1>1. /\ Core(R, W, c) /\ Typed(R, W) /\ Typed(R2, W) /\ i \in Replicas /\ c \in Seq(Requests)
      /\ Len(c) \in Nat /\ Rounds(R, W) /\ Witnesses(R, W, c)
  BY LenProperties DEF Adopts, Core
<1>2. /\ b \in Reports(R, W) /\ b.slot \in Nat /\ b.ack \in Nat /\ b.ack < R[i].probe
      /\ R[i].ack \in Nat /\ R[i].ack < R[i].probe /\ R[i].probe \in Nat
      /\ R2[i].ack = R[i].probe
  BY AdoptsFacts
<1>3. \E r \in Nat : Decided(R2, W, c, Len(c), r)
  <2>1. PICK r \in Nat : Decided(R, W, c, Len(c), r)
    BY <1>1 DEF Witnesses
  <2> QED
    BY <1>1, <2>1, AdoptsBacked
<1>4. Settled(R, W, c, b.slot, R[i].probe) /\ Decided(R, W, c, b.slot, R[i].probe)
  <2>1. Settled(R, W, c, b.slot, b.ack)
    BY <1>1, <1>2 DEF Witnesses
  <2> QED
    BY <1>1, <1>2, <2>1, SettledLess
<1>5. ASSUME NEW l \in Replicas
      PROVE  Settled(R2, W, c, R2[l].base, R2[l].ack) /\ Decided(R2, W, c, R2[l].decided, R2[l].ack)
  <2>1. /\ Settled(R, W, c, R[l].base, R[l].ack) /\ Decided(R, W, c, R[l].decided, R[l].ack)
    BY <1>1 DEF Witnesses
  <2>2. /\ R[l].base \in Nat /\ R[l].decided \in Nat /\ R[l].ack \in Nat
        /\ l # i => R2[l] = R[l]
    BY AdoptsFields
  <2>3. CASE l # i
    BY <1>1, <2>1, <2>2, <2>3, AdoptsBacked
  <2>4. CASE l = i
    <3>1. Decided(R, W, c, R[i].decided, R[i].probe)
      BY <1>1, <1>2, <2>1, <2>2, <2>4, SettledLess
    <3>2. R2[i].base = b.slot /\ R2[i].decided = MaxOf(R[i].decided, b.slot)
      BY DEF Adopts
    <3>3. Decided(R, W, c, R2[i].decided, R[i].probe) /\ R2[i].decided \in Nat
      BY <1>2, <1>4, <2>2, <2>4, <3>1, <3>2 DEF MaxOf
    <3> QED
      BY <1>1, <1>2, <1>4, <2>4, <3>2, <3>3, AdoptsBacked
  <2> QED
    BY <2>3, <2>4
<1>6. ASSUME NEW a \in Reports(R2, W)
      PROVE  Settled(R2, W, c, a.slot, a.ack) /\ \E l \in Replicas : a.slot <= R2[l].applied
  <2>1. a \in Reports(R, W) /\ a.slot \in Nat /\ a.ack \in Nat
    BY <1>1, AdoptsLog, ReportTypes
  <2>2. Settled(R, W, c, a.slot, a.ack) /\ \E l \in Replicas : a.slot <= R[l].applied
    BY <1>1, <2>1 DEF Witnesses
  <2>3. Settled(R2, W, c, a.slot, a.ack)
    BY <1>1, <2>1, <2>2, AdoptsBacked
  <2>4. PICK l \in Replicas : a.slot <= R[l].applied
    BY <2>2
  <2>5. R2[l].applied >= R[l].applied /\ R2[l].applied \in Nat /\ R[l].applied \in Nat
    BY AdoptsFields
  <2>6. a.slot <= R2[l].applied
    BY <2>1, <2>4, <2>5
  <2> QED
    BY <2>3, <2>6
<1>7. ASSUME NEW p \in Replicas, NEW q \in Replicas, NEW a \in W[p][q], a.type = "PROPOSE"
      PROVE  ProposeWitnessed(R2, W, c, q, a)
  <2>1. a.slot \in Nat /\ a.trunc \in Nat /\ a.decided \in Nat /\ a.round \in Nat
    BY <1>1, <1>7, MessageFields DEF Typed
  <2>2. ProposeWitnessed(R, W, c, q, a)
    BY <1>1, <1>7 DEF Witnesses
  <2>3. Settled(R2, W, c, a.trunc, a.round) /\ Decided(R2, W, c, a.decided, a.round)
    BY <1>1, <2>1, <2>2, AdoptsBacked DEF ProposeWitnessed
  <2>4. Settled(R, W, c, a.slot, a.round) => Settled(R2, W, c, a.slot, a.round)
    BY <1>1, <2>1, AdoptsBacked
  <2>5. /\ R2[q].ack >= R[q].ack /\ R[q].ack \in Nat /\ R2[q].ack \in Nat
        /\ R2[q].ack = R[q].ack => R2[q] = R[q]
    BY AdoptsFields
  <2> QED
    BY <2>1, <2>2, <2>3, <2>4, <2>5 DEF ProposeWitnessed
<1> QED
  BY <1>3, <1>5, <1>6, <1>7 DEF Witnesses

\* The new leader counts for each peer only what the peer is known to have.
LEMMA AdoptsVotes ==
    ASSUME NEW R, NEW W, NEW R2, NEW c, NEW i, NEW b, NEW Q, Adopts(R, W, R2, c, i, b, Q)
    PROVE  Votes(R2, W, c)
<1>1. /\ Core(R, W, c) /\ Typed(R, W) /\ Typed(R2, W) /\ i \in Replicas /\ c \in Seq(Requests)
      /\ Rounds(R, W) /\ Witnesses(R, W, c) /\ Votes(R, W, c)
  BY DEF Adopts, Core
<1>2. /\ b \in Reports(R, W) /\ b.slot \in Nat /\ b.ack \in Nat /\ b.ack < R[i].probe
      /\ R[i].ack \in Nat /\ R[i].ack < R[i].probe /\ R[i].probe \in Nat
      /\ R2[i].ack = R[i].probe
  BY AdoptsFacts
<1> SUFFICES ASSUME NEW l \in Replicas, NEW q \in Replicas, Leads(R2, l)
             PROVE  /\ Backed(R2, W, c, q, R2[l].acks[q], R2[l].ack)
                    /\ \A a \in W[q][l] : a.type = "ACK" /\ a.round = R2[l].ack =>
                          a.slot <= LogEnd(R2[l]) /\ Backed(R2, W, c, q, a.slot, R2[l].ack)
  BY DEF Votes
<1>3. CASE l = i
  <2>1. ASSUME NEW a \in W[q][i], a.type = "ACK", a.round = R2[i].ack
        PROVE  FALSE
    <3>1. a.round <= R[i].ack
      BY <1>1, <2>1 DEF Rounds, MessageRounds
    <3> QED
      BY <1>2, <2>1, <3>1
  <2>2. CASE q # i
    <3>1. Settled(R, W, c, b.slot, b.ack)
      BY <1>1, <1>2 DEF Witnesses
    <3>2. Settled(R, W, c, b.slot, R[i].probe)
      BY <1>1, <1>2, <3>1, SettledLess
    <3>3. Settled(R2, W, c, b.slot, R[i].probe)
      BY <1>1, <1>2, <3>2, AdoptsBacked
    <3>4. R2[i].acks[q] = b.slot
      BY <2>2 DEF Adopts
    <3> QED
      BY <1>2, <1>3, <2>1, <3>3, <3>4 DEF Backed
  <2>3. CASE q = i
    <3>1. Voted(R2, W, i, LogEnd(R2[i]), R2[i].ack)
      BY <1>1, AdoptsRounds, OwnVote
    <3>2. R2[i].acks[i] = EndOf(b) /\ LogEnd(R2[i]) = EndOf(b)
      BY <1>1, AdoptsLog DEF Adopts
    <3> QED
      BY <1>3, <2>1, <2>3, <3>1, <3>2 DEF Backed
  <2> QED
    BY <2>2, <2>3
<1>4. CASE l # i
  <2>1. R2[l] = R[l] /\ Leads(R, l) /\ R[l].ack \in Nat
    BY <1>4, AdoptsFields
  <2>2. R[l].acks[q] \in Nat
    BY <1>1, RecordAt, ReplicaFields
  <2>3. Backed(R, W, c, q, R[l].acks[q], R[l].ack)
    BY <1>1, <2>1 DEF Votes
  <2>4. ASSUME NEW a \in W[q][l], a.type = "ACK", a.round = R2[l].ack
        PROVE  a.slot <= LogEnd(R2[l]) /\ Backed(R2, W, c, q, a.slot, R2[l].ack)
    <3>1. a.slot \in Nat
      BY <1>1, <2>4, MessageFields DEF Typed
    <3>2. a.slot <= LogEnd(R[l]) /\ Backed(R, W, c, q, a.slot, R[l].ack)
      BY <1>1, <2>1, <2>4 DEF Votes
    <3> QED
      BY <2>1, <3>1, <3>2, AdoptsBacked
  <2> QED
    BY <2>1, <2>2, <2>3, <2>4, AdoptsBacked
<1> QED
  BY <1>3, <1>4

\* A vote that an earlier leader l counts, or may yet count, backs what it is for.
LEMMA AcceptedBacked ==
    ASSUME NEW R, NEW W, NEW c, Core(R, W, c), NEW l \in Replicas, Leads(R, l),
           NEW q \in Replicas, NEW n \in Nat, Accepted(R, W, l, q, n)
    PROVE  Backed(R, W, c, q, n, R[l].ack)
<1>1. /\ Typed(R, W) /\ c \in Seq(Requests) /\ Rounds(R, W) /\ Votes(R, W, c)
      /\ R[l].ack \in Nat /\ R[l].acks[q] \in Nat /\ LogEnd(R[q]) \in Nat
  BY RecordAt, ReplicaFields DEF Core
<1>2. CASE R[l].acks[q] >= n
  <2>1. Backed(R, W, c, q, R[l].acks[q], R[l].ack)
    BY <1>1 DEF Votes
  <2> QED
    BY <1>1, <1>2, <2>1, BackedLess
<1>3. ASSUME NEW m \in W[q][l], m.type = "ACK", m.round = R[l].ack, m.slot >= n
      PROVE  Backed(R, W, c, q, n, R[l].ack)
  <2>1. m.slot \in Nat
    BY <1>1, <1>3, MessageFields DEF Typed
  <2>2. Backed(R, W, c, q, m.slot, R[l].ack)
    BY <1>1, <1>3 DEF Votes
  <2> QED
    BY <1>1, <1>3, <2>1, <2>2, BackedLess
<1>4. CASE R[q].ack = R[l].ack /\ LogEnd(R[q]) >= n
  <2>1. Voted(R, W, q, LogEnd(R[q]), R[l].ack)
    BY <1>1, <1>4, OwnVote
  <2>2. Backed(R, W, c, q, LogEnd(R[q]), R[l].ack)
    BY <2>1 DEF Backed
  <2> QED
    BY <1>1, <1>4, <2>2, BackedLess
<1> QED
  BY <1>2, <1>3, <1>4 DEF Accepted

\* The adopted log has whatever the leader l of an earlier round may choose.
LEMMA AdoptsHas ==
    ASSUME NEW R, NEW W, NEW R2, NEW c, NEW i, NEW b, NEW Q, Adopts(R, W, R2, c, i, b, Q),
           NEW l \in Replicas, Leads(R, l), R[l].ack < R[i].probe, b.ack <= R[l].ack,
           NEW n \in Nat, NEW q \in Q, Accepted(R, W, l, q, n)
    PROVE  /\ EndOf(b) >= n
           /\ \A k \in Slots(Held(R2[i])) \cap Slots(Held(R[l])) :
                 k < n => At(Held(R2[i]), k) = At(Held(R[l]), k)
<1>1. /\ Core(R, W, c) /\ Typed(R, W) /\ Typed(R2, W) /\ i \in Replicas /\ R[l].ack \in Nat
      /\ LogsAgree(R, W) /\ Held(R[l]) \in Logs(R, W) /\ Held(R[l]).round = R[l].ack
  BY RecordAt, ReplicaFields, InLogs DEF Adopts, Core
<1>2. /\ Reported(b) \in Logs(R, W) /\ Reported(b).round = b.ack /\ b.ack \in Nat
      /\ EndOf(b) \in Nat
  BY AdoptsFacts
<1>3. /\ Slots(Held(R2[i])) = Slots(Reported(b)) /\ EndOf(Held(R2[i])) = EndOf(b)
      /\ \A k : At(Held(R2[i]), k) = At(Reported(b), k)
      /\ Held(R2[i]).round = R[i].probe /\ Held(R2[i]) \in Logs(R2, W)
  BY <1>1, AdoptsLog, InLogs
<1>4. PICK m \in Reports(R, W) :
        /\ m.sender = q /\ m.round = R[i].probe /\ m.ack \in Nat /\ EndOf(m) \in Nat
        /\ m.ack < b.ack \/ (m.ack = b.ack /\ EndOf(m) <= EndOf(b))
        /\ q \in Replicas
  BY AdoptsReports
<1>5. Backed(R, W, c, q, n, R[l].ack)
  BY <1>1, <1>4, AcceptedBacked
<1>6. CASE Settled(R, W, c, n, R[l].ack)
  <2>1. Covers(Held(R[l]), c, n)
    BY <1>1, <1>6, SettledCovers
  <2>2. Settled(R2, W, c, n, R[l].ack)
    BY <1>1, <1>6, AdoptsBacked
  <2>3. Covers(Held(R2[i]), c, n)
    BY <1>1, <1>3, <2>2, SettledCovers
  <2> QED
    BY <1>3, <2>1, <2>3 DEF Covers, Matches
<1>7. CASE Voted(R, W, q, n, R[l].ack)
  <2>1. m.ack >= R[l].ack /\ (m.ack = R[l].ack => EndOf(m) >= n)
    BY <1>4, <1>7 DEF Voted
  <2>2. b.ack = R[l].ack /\ EndOf(b) >= n
    BY <1>1, <1>2, <1>4, <2>1
  <2>3. Agree(Reported(b), Held(R[l]))
    BY <1>1, <1>2, <2>2 DEF LogsAgree
  <2> QED
    BY <1>3, <2>2, <2>3 DEF Agree
<1> QED
  BY <1>5, <1>6, <1>7 DEF Backed

\* What an earlier leader could still choose is in the adopted log, or can no
\* longer be chosen: a quorum has left its round.
LEMMA AdoptsSafe ==
    ASSUME NEW R, NEW W, NEW R2, NEW c, NEW i, NEW b, NEW Q, Adopts(R, W, R2, c, i, b, Q)
    PROVE  Safe(R2, W)
<1>1. /\ Core(R, W, c) /\ Typed(R, W) /\ Typed(R2, W) /\ i \in Replicas /\ c \in Seq(Requests)
      /\ Rounds(R, W) /\ Witnesses(R, W, c) /\ Safe(R, W) /\ Q \in Quorums
  BY DEF Adopts, Core
<1>2. /\ b \in Reports(R, W) /\ b.slot \in Nat /\ b.ack \in Nat /\ b.ack < R[i].probe
      /\ R[i].ack \in Nat /\ R[i].ack < R[i].probe /\ R[i].probe \in Nat
      /\ R2[i].ack = R[i].probe /\ R2[i].probe = R[i].probe /\ EndOf(b) \in Nat
      /\ Reported(b) \in Logs(R, W) /\ Reported(b).round = b.ack
      /\ EndOf(Reported(b)) = EndOf(b)
  BY AdoptsFacts
<1>3. /\ Slots(Held(R2[i])) = Slots(Reported(b)) /\ EndOf(Held(R2[i])) = EndOf(b)
      /\ \A k : At(Held(R2[i]), k) = At(Reported(b), k)
      /\ Held(R2[i]).round = R[i].probe /\ LogEnd(R2[i]) = EndOf(b)
      /\ Held(R2[i]) \in Log /\ Held(R2[i]).slot = b.slot
      /\ \A t \in Logs(R2, W) : t = Held(R2[i]) \/ t \in Logs(R, W)
  BY <1>1, AdoptsLog
<1> SUFFICES ASSUME NEW l \in Replicas, Leads(R2, l), NEW t \in Logs(R2, W),
                    t.round > R2[l].ack, NEW n \in 0..LogEnd(R2[l])
             PROVE  SafeFor(R2, W, l, t, n)
  BY DEF Safe
<1>4. n \in Nat /\ t.round \in Nat
  BY <1>1, AdoptsFields, LogTypes, LogFields
<1>5. CASE l # i
  <2>1. /\ R2[l] = R[l] /\ Leads(R, l) /\ R[l].ack \in Nat /\ R[l].ack # R[i].probe
    BY <1>5, AdoptsFields
  <2>2. ASSUME NEW P \in Quorums, \A q \in P : R[q].probe > R[l].ack /\ ~Accepted(R, W, l, q, n)
        PROVE  SafeFor(R2, W, l, t, n)
    <3>1. ASSUME NEW q \in P
          PROVE  R2[q].probe > R2[l].ack /\ ~Accepted(R2, W, l, q, n)
      <4>1. q \in Replicas /\ R2[q].probe = R[q].probe /\ (q # i => R2[q] = R[q])
        BY QuorumMembers, AdoptsFields
      <4>2. R2[q].ack = R2[l].ack => R2[q] = R[q]
        BY <1>2, <2>1, <4>1
      <4> QED
        BY <2>1, <2>2, <4>1, <4>2 DEF Accepted
    <3> QED
      BY <3>1 DEF SafeFor
  <2>3. CASE t \in Logs(R, W)
    <3>1. SafeFor(R, W, l, t, n)
      BY <1>1, <2>1, <2>3 DEF Safe
    <3> QED
      BY <2>1, <2>2, <3>1 DEF SafeFor
  <2>4. CASE t = Held(R2[i])
    <3>1. R[l].ack < R[i].probe
      BY <1>3, <2>1, <2>4
    <3>2. CASE b.ack > R[l].ack
      <4>1. SafeFor(R, W, l, Reported(b), n)
        BY <1>1, <1>2, <2>1, <3>2 DEF Safe
      <4> QED
        BY <1>2, <1>3, <2>1, <2>2, <2>4, <4>1 DEF SafeFor
    <3>3. CASE b.ack <= R[l].ack
      <4>1. CASE \E q \in Q : Accepted(R, W, l, q, n)
        <5>1. /\ EndOf(b) >= n
              /\ \A k \in Slots(Held(R2[i])) \cap Slots(Held(R[l])) :
                    k < n => At(Held(R2[i]), k) = At(Held(R[l]), k)
          BY <1>4, <2>1, <3>1, <3>3, <4>1, AdoptsHas
        <5> QED
          BY <1>3, <2>1, <2>4, <5>1 DEF SafeFor
      <4>2. CASE \A q \in Q : ~Accepted(R, W, l, q, n)
        <5>1. ASSUME NEW q \in Q
              PROVE  R[q].probe > R[l].ack
          <6>1. q \in Replicas /\ R[q].probe >= R[i].probe
            BY AdoptsReports
          <6>2. R[q].probe \in Nat
            BY <6>1, AdoptsFields
          <6> QED
            BY <1>2, <2>1, <3>1, <6>1, <6>2
        <5> QED
          BY <1>1, <2>2, <4>2, <5>1
      <4> QED
        BY <4>1, <4>2
    <3> QED
      BY <1>2, <2>1, <3>2, <3>3
  <2> QED
    BY <1>3, <2>3, <2>4
<1>6. CASE l = i
  <2>1. t \in Logs(R, W) /\ t.round > R[i].probe
    BY <1>2, <1>3, <1>6
  <2>2. CASE n <= b.slot
    <3>1. Settled(R, W, c, b.slot, b.ack)
      BY <1>1, <1>2 DEF Witnesses
    <3>2. Covers(t, c, b.slot)
      BY <1>1, <1>2, <1>4, <2>1, <3>1, SettledCovers
    <3>3. EndOf(t) >= n
      <4>1. EndOf(t) \in Nat
        BY <1>1, LogTypes, LogFields
      <4> QED
        BY <1>2, <1>4, <2>2, <3>2, <4>1 DEF Covers
    <3>4. \A k \in Slots(Held(R2[i])) : k \in Nat /\ k >= b.slot
      BY <1>3, LogFields
    <3>5. \A k \in Slots(Held(R2[i])) : ~(k < n)
      BY <1>2, <1>4, <2>2, <3>4
    <3> QED
      BY <1>6, <3>3, <3>5 DEF SafeFor
  <2>3. CASE n > b.slot
    <3>1. PICK P \in Quorums : \A q \in P : R[q].probe >= t.round
      BY <1>1, <1>2, <1>4, <2>1 DEF Rounds, LogRounds
    <3>2. ASSUME NEW q \in P
          PROVE  R2[q].probe > R2[i].ack /\ ~Accepted(R2, W, i, q, n)
      <4>1. q \in Replicas /\ R[q].probe >= t.round
        BY <3>1, QuorumMembers
      <4>2. /\ R2[q].probe = R[q].probe /\ R[q].probe \in Nat /\ R[q].ack # R[i].probe
            /\ q # i => R2[q] = R[q]
        BY <4>1, AdoptsFields
      <4>3. q # i
        BY <1>2, <1>4, <2>1, <4>1, <4>2
      <4>4. R2[i].acks[q] = b.slot
        BY <4>1, <4>3 DEF Adopts
      <4>5. ASSUME NEW a \in W[q][i], a.type = "ACK", a.round = R2[i].ack
            PROVE  FALSE
        <5>1. a.round <= R[i].ack
          BY <1>1, <4>1, <4>5 DEF Rounds, MessageRounds
        <5> QED
          BY <1>2, <4>5, <5>1
      <4>6. R2[q].ack # R2[i].ack
        BY <1>2, <4>2, <4>3
      <4>7. ~(R2[i].acks[q] >= n)
        BY <1>2, <1>4, <2>3, <4>4
      <4>8. R2[q].probe > R2[i].ack
        BY <1>2, <1>4, <2>1, <4>1, <4>2
      <4> QED
        BY <4>5, <4>6, <4>7, <4>8 DEF Accepted
    <3> QED
      BY <1>6, <3>2 DEF SafeFor
  <2> QED
    BY <1>2, <1>4, <2>2, <2>3
<1> QED
  BY <1>5, <1>6

\* A candidate that wins its election keeps the invariant: the best log of a
\* quorum has all that any earlier leader has chosen, or may still choose.
LEMMA AdoptsCore ==
    ASSUME NEW R, NEW W, NEW R2, NEW c, NEW i, NEW b, NEW Q, Adopts(R, W, R2, c, i, b, Q)
    PROVE  Core(R2, W, c)
<1>1. Typed(R2, W) /\ c \in Seq(Requests)
  BY DEF Adopts, Core
<1> QED
  BY <1>1, AdoptsRounds, AdoptsIndices, AdoptsLogsAgree, AdoptsWitnesses, AdoptsVotes, AdoptsSafe
     DEF Core

-----------------------------------------------------------------------------
(* Greatest and least elements.                                            *)

\* A set of naturals that is not empty has a least element.
LEMMA LeastNatural ==
    ASSUME NEW S \in SUBSET Nat, S # {}
    PROVE  \E x \in S : \A y \in S : x <= y
<1>1. PICK x \in S : \A y \in S : ~(<<y, x>> \in OpToRel(<, Nat))
  BY NatLessThanWellFounded, WFMin
<1>2. \A y \in S : ~(y < x)
  BY <1>1 DEF OpToRel
<1> QED
  BY <1>2

\* Min and Max are what their names say; the latter of bounded sets.
LEMMA MinIs ==
    ASSUME NEW S \in SUBSET Nat, S # {}
    PROVE  Min(S) \in S /\ \A y \in S : Min(S) <= y
BY LeastNatural DEF Min

\* A bounded set of naturals that is not empty has a greatest element.
LEMMA MaxIs ==
    ASSUME NEW S \in SUBSET Nat, S # {}, NEW n \in Nat, \A y \in S : y <= n
    PROVE  Max(S) \in S /\ \A y \in S : y <= Max(S)
<1> DEFINE T == {n - x : x \in S}
<1>1. T \in SUBSET Nat /\ T # {}
  <2>1. \A x \in S : n - x \in Nat
    OBVIOUS
  <2> QED
    BY <2>1
<1>2. PICK z \in T : \A y \in T : z <= y
  BY <1>1, LeastNatural
<1>3. PICK x \in S : z = n - x
  BY <1>2
<1>4. ASSUME NEW y \in S
      PROVE  x >= y
  <2>1. n - x <= n - y
    BY <1>2, <1>3
  <2> QED
    BY <2>1
<1> QED
  BY <1>3, <1>4 DEF Max

\* The first of the best PREPAREs exists, and none is better.
LEMMA BestPrepareIs ==
    ASSUME NEW prepares \in Seq(PrepareMessage), prepares # <<>>
    PROVE  \E k \in DOMAIN prepares :
              /\ BestPrepare(prepares) = prepares[k]
              /\ \A l \in DOMAIN prepares : ~Worse(prepares[k], prepares[l])
<1> DEFINE Best(k, n) == /\ \A l \in 1..n : ~Worse(prepares[k], prepares[l])
                         /\ \A l \in 1..(k - 1) : Worse(prepares[l], prepares[k])
           T == {n \in 1..Len(prepares) : ~\E k \in 1..n : Best(k, n)}
<1>1. Len(prepares) \in Nat \ {0} /\ DOMAIN prepares = 1..Len(prepares)
  BY EmptySeq, LenProperties
<1>2. \A k \in 1..Len(prepares) :
         prepares[k].ack \in Nat /\ prepares[k].slot + Len(prepares[k].values) \in Nat
  <2> SUFFICES ASSUME NEW k \in 1..Len(prepares)
               PROVE  prepares[k].ack \in Nat /\ prepares[k].slot + Len(prepares[k].values) \in Nat
    OBVIOUS
  <2>1. prepares[k] \in PrepareMessage
    BY ElementOfSeq
  <2>2. prepares[k].ack \in Nat /\ prepares[k].slot \in Nat /\ prepares[k].values \in Seq(Requests)
    BY <2>1 DEF PrepareMessage
  <2> QED
    BY <2>2, LenProperties
<1>3. T = {}
  <2> SUFFICES ASSUME T # {}
               PROVE  FALSE
    OBVIOUS
  <2>1. T \in SUBSET Nat
    OBVIOUS
  <2>2. PICK n \in T : \A y \in T : n <= y
    BY <2>1, LeastNatural
  <2>3. n \in 1..Len(prepares) /\ ~\E k \in 1..n : Best(k, n)
    BY <2>2
  <2>4. CASE n = 1
    <3>1. Best(1, 1)
      BY <1>2, <2>3, <2>4 DEF Worse
    <3> QED
      BY <2>3, <2>4, <3>1
  <2>5. CASE n > 1
    <3>1. n - 1 \in 1..Len(prepares) /\ n - 1 \notin T
      <4>1. n - 1 \in 1..Len(prepares) /\ ~(n <= n - 1)
        BY <1>1, <2>3, <2>5
      <4> HIDE DEF T
      <4> QED
        BY <2>2, <4>1
    <3>2. PICK k \in 1..(n - 1) : Best(k, n - 1)
      BY <3>1
    <3>3. k \in 1..n /\ n \in 1..n /\ \A l \in 1..n : l = n \/ l \in 1..(n - 1)
      BY <2>3, <3>2
    <3>4. CASE Worse(prepares[k], prepares[n])
      <4>1. \A l \in 1..(n - 1) : Worse(prepares[l], prepares[n]) /\ ~Worse(prepares[n], prepares[l])
        <5> SUFFICES ASSUME NEW l \in 1..(n - 1)
                     PROVE  Worse(prepares[l], prepares[n]) /\ ~Worse(prepares[n], prepares[l])
          OBVIOUS
        <5>1. l \in 1..Len(prepares) /\ k \in 1..Len(prepares) /\ n \in 1..Len(prepares)
          BY <1>1, <2>3, <3>2
        <5>2. ~Worse(prepares[k], prepares[l])
          BY <3>2
        <5>3. /\ prepares[k].ack \in Nat /\ prepares[k].slot + Len(prepares[k].values) \in Nat
              /\ prepares[l].ack \in Nat /\ prepares[l].slot + Len(prepares[l].values) \in Nat
              /\ prepares[n].ack \in Nat /\ prepares[n].slot + Len(prepares[n].values) \in Nat
          BY <1>2, <5>1
        <5> DEFINE x == prepares[k].ack
                   y == prepares[l].ack
                   z == prepares[n].ack
                   u == prepares[k].slot + Len(prepares[k].values)
                   v == prepares[l].slot + Len(prepares[l].values)
                   w == prepares[n].slot + Len(prepares[n].values)
        <5>4. /\ x < z \/ (x = z /\ u < w)
              /\ ~(x < y \/ (x = y /\ u < v))
          BY <3>4, <5>2 DEF Worse
        <5>5. x \in Nat /\ y \in Nat /\ z \in Nat /\ u \in Nat /\ v \in Nat /\ w \in Nat
          BY <5>3
        <5> HIDE DEF x, y, z, u, v, w
        <5>6. (y < z \/ (y = z /\ v < w)) /\ ~(z < y \/ (z = y /\ w < v))
          BY <5>4, <5>5
        <5> QED
          BY <5>6 DEF Worse, x, y, z, u, v, w
      <4>2. ~Worse(prepares[n], prepares[n])
        BY <1>2, <2>3 DEF Worse
      <4>3. Best(n, n)
        BY <3>3, <4>1, <4>2
      <4> QED
        BY <2>3, <3>3, <4>3
    <3>5. CASE ~Worse(prepares[k], prepares[n])
      <4>1. Best(k, n)
        BY <3>2, <3>3, <3>5
      <4> QED
        BY <2>3, <3>3, <4>1
    <3> QED
      BY <3>4, <3>5
  <2> QED
    BY <2>3, <2>4, <2>5
<1>4. \E k \in DOMAIN prepares : Best(k, Len(prepares))
  BY <1>1, <1>3
<1>5. BestPrepare(prepares) = prepares[CHOOSE k \in DOMAIN prepares : Best(k, Len(prepares))]
  BY <1>1 DEF BestPrepare
<1> QED
  BY <1>1, <1>4, <1>5

-----------------------------------------------------------------------------
(* What a leader counts.                                                   *)

\* A quorum has acknowledged the slots that the leader decides.
LEMMA QuorumAckedIs ==
    ASSUME NEW s \in ReplicaRecord, NEW n \in Nat, \A q \in Replicas : s.acks[q] <= n
    PROVE  /\ QuorumAcked(s) \in Nat /\ QuorumAcked(s) <= n
           /\ \E Q \in Quorums : \A q \in Q : s.acks[q] >= QuorumAcked(s)
<1> DEFINE S == AckedBy(s, Quorum)
           P(p) == {q \in Replicas : s.acks[q] >= s.acks[p]}
<1>1. \A q \in Replicas : s.acks[q] \in Nat
  BY ReplicaFields
<1>2. S = {s.acks[j] : j \in {p \in Replicas : Cardinality(P(p)) >= Quorum}}
  BY DEF AckedBy
<1>3. S \in SUBSET Nat /\ \A y \in S : y <= n
  BY <1>1, <1>2
<1>4. S # {}
  <2> DEFINE A == {s.acks[q] : q \in Replicas}
  <2>1. A \in SUBSET Nat /\ A # {}
    BY <1>1, PaxosAssumption DEF Replicas
  <2>2. PICK x \in A : \A y \in A : x <= y
    BY <2>1, LeastNatural
  <2>3. PICK p \in Replicas : s.acks[p] = x
    BY <2>2
  <2>4. P(p) = Replicas
    BY <1>1, <2>2, <2>3
  <2>5. Cardinality(P(p)) >= Quorum
    BY <2>4, ReplicasFinite DEF Quorums
  <2> QED
    BY <1>2, <2>5
<1>5. Max(S) \in S /\ \A y \in S : y <= Max(S)
  BY <1>3, <1>4, MaxIs
<1>6. PICK p \in Replicas : Cardinality(P(p)) >= Quorum /\ s.acks[p] = QuorumAcked(s)
  BY <1>2, <1>5 DEF QuorumAcked
<1>7. P(p) \in Quorums
  BY <1>6 DEF Quorums
<1> QED
  BY <1>1, <1>6, <1>7

\* Every replica has acknowledged the slots that the leader truncates, and
\* so has the quorum that decides.
LEMMA LeastAckedIs ==
    ASSUME NEW s \in ReplicaRecord, NEW n \in Nat, \A q \in Replicas : s.acks[q] <= n
    PROVE  /\ LeastAcked(s) \in Nat /\ LeastAcked(s) <= n
           /\ \A q \in Replicas : s.acks[q] >= LeastAcked(s)
           /\ LeastAcked(s) <= QuorumAcked(s)
<1> DEFINE A == {s.acks[q] : q \in Replicas}
<1>1. \A q \in Replicas : s.acks[q] \in Nat
  BY ReplicaFields
<1>2. A \in SUBSET Nat /\ A # {}
  BY <1>1, PaxosAssumption DEF Replicas
<1>3. LeastAcked(s) \in A /\ \A y \in A : LeastAcked(s) <= y
  BY <1>2, MinIs DEF LeastAcked
<1>4. QuorumAcked(s) \in A
  <2> DEFINE S == AckedBy(s, Quorum)
  <2>1. S \subseteq A
    BY DEF AckedBy
  <2>2. S # {}
    <3>1. PICK p \in Replicas : s.acks[p] = LeastAcked(s)
      BY <1>3
    <3>2. {q \in Replicas : s.acks[q] >= s.acks[p]} = Replicas
      BY <1>1, <1>3, <3>1
    <3>3. Cardinality({q \in Replicas : s.acks[q] >= s.acks[p]}) >= Quorum
      BY <3>2, ReplicasFinite DEF Quorums
    <3> QED
      BY <3>3 DEF AckedBy
  <2>3. Max(S) \in S
    <3>1. S \in SUBSET Nat /\ \A y \in S : y <= n
      BY <1>1, <2>1
    <3> QED
      BY <2>2, <3>1, MaxIs
  <2> QED
    BY <2>1, <2>3 DEF QuorumAcked
<1> QED
  BY <1>1, <1>3, <1>4
-----------------------------------------------------------------------------
(* The handlers' parts.                                                    *)

\* The fields of s that applying and truncating leave alone.
SameRole(s, t) ==
    /\ t.leader = s.leader /\ t.probe = s.probe /\ t.ack = s.ack /\ t.election = s.election
    /\ t.prepares = s.prepares /\ t.next = s.next /\ t.acks = s.acks

\* The tables of the waiting slots and of the calls.
LEMMA WaiterTableIs ==
    ASSUME NEW f
    PROVE  f \in WaiterTable <=>
             /\ f = [x \in DOMAIN f |-> f[x]]
             /\ DOMAIN f \subseteq Nat /\ \A x \in DOMAIN f : f[x] \in Requests
<1>1. ASSUME f \in WaiterTable
      PROVE  /\ f = [x \in DOMAIN f |-> f[x]]
             /\ DOMAIN f \subseteq Nat /\ \A x \in DOMAIN f : f[x] \in Requests
  BY <1>1 DEF WaiterTable
<1>2. ASSUME f = [x \in DOMAIN f |-> f[x]], DOMAIN f \subseteq Nat, \A x \in DOMAIN f : f[x] \in Requests
      PROVE  f \in WaiterTable
  <2>1. f \in [DOMAIN f -> Requests]
    BY <1>2
  <2> QED
    BY <1>2, <2>1 DEF WaiterTable
<1> QED
  BY <1>1, <1>2

\* A call table gives a request or no reply to each of some requests.
LEMMA CallTableIs ==
    ASSUME NEW f
    PROVE  f \in CallTable <=>
             /\ f = [x \in DOMAIN f |-> f[x]]
             /\ DOMAIN f \subseteq Requests /\ \A x \in DOMAIN f : f[x] \in Requests \cup {NoReply}
<1>1. ASSUME f \in CallTable
      PROVE  /\ f = [x \in DOMAIN f |-> f[x]]
             /\ DOMAIN f \subseteq Requests /\ \A x \in DOMAIN f : f[x] \in Requests \cup {NoReply}
  BY <1>1 DEF CallTable
<1>2. ASSUME f = [x \in DOMAIN f |-> f[x]], DOMAIN f \subseteq Requests, \A x \in DOMAIN f : f[x] \in Requests \cup {NoReply}
      PROVE  f \in CallTable
  <2>1. f \in [DOMAIN f -> Requests \cup {NoReply}]
    BY <1>2
  <2> QED
    BY <1>2, <2>1 DEF CallTable
<1> QED
  BY <1>1, <1>2

\* Dropping entries leaves a suffix of the log, with the same end.
LEMMA DropBelowIs ==
    ASSUME NEW s \in ReplicaRecord, NEW slot \in Nat, slot <= LogEnd(s),
           NEW t, t = DropBelow(s, slot)
    PROVE  /\ t \in ReplicaRecord /\ SameRole(s, t)
           /\ t.decided = s.decided /\ t.applied = s.applied /\ t.db = s.db
           /\ t.journal = s.journal /\ t.waiters = s.waiters /\ t.calls = s.calls
           /\ t.base = MaxOf(s.base, slot) /\ LogEnd(t) = LogEnd(s)
           /\ Suffix(Held(t), Held(s))
<1>1. s.base \in Nat /\ s.log \in Seq(Requests) /\ Len(s.log) \in Nat /\ LogEnd(s) = s.base + Len(s.log)
  BY ReplicaFields, LenProperties DEF LogEnd
<1>2. CASE ~(s.base < slot)
  <2>1. t = s /\ t.base = MaxOf(s.base, slot)
    BY <1>1, <1>2 DEF DropBelow, MaxOf
  <2>2. Suffix(Held(s), Held(s))
    BY <1>1 DEF Suffix, Held
  <2> QED
    BY <2>1, <2>2 DEF SameRole
<1>3. CASE s.base < slot
  <2> DEFINE rest == SubSeq(s.log, slot - s.base + 1, Len(s.log))
  <2>1. /\ rest \in Seq(Requests) /\ Len(rest) = LogEnd(s) - slot
        /\ \A k \in 1..(LogEnd(s) - slot) : rest[k] = s.log[slot - s.base + k]
    <3>1. \A k \in (slot - s.base + 1)..Len(s.log) : s.log[k] \in Requests
      <4>1. \A k \in (slot - s.base + 1)..Len(s.log) : k \in 1..Len(s.log)
        BY <1>1, <1>3
      <4> QED
        BY <1>1, <4>1, ElementOfSeq
    <3> DEFINE a == slot - s.base + 1
               b == Len(s.log)
    <3>2. a \in Int /\ b \in Int /\ b - a + 1 = LogEnd(s) - slot /\ (a <= b \/ b - a + 1 = 0)
      BY <1>1, <1>3
    <3>3. /\ rest \in Seq(Requests) /\ Len(rest) = IF a <= b THEN b - a + 1 ELSE 0
          /\ \A k \in 1..(b - a + 1) : rest[k] = s.log[a + k - 1]
      BY <3>1, <3>2, SubSeqProperties
    <3>4. \A k \in 1..(LogEnd(s) - slot) : a + k - 1 = slot - s.base + k
      BY <1>1, <1>3
    <3> QED
      BY <3>2, <3>3, <3>4
  <2>2. t = [s EXCEPT !.log = rest, !.base = slot]
    BY <1>3 DEF DropBelow
  <2> HIDE DEF rest
  <2>3. /\ t \in ReplicaRecord /\ SameRole(s, t)
        /\ t.decided = s.decided /\ t.applied = s.applied /\ t.db = s.db
        /\ t.journal = s.journal /\ t.waiters = s.waiters /\ t.calls = s.calls
        /\ t.base = slot /\ t.log = rest
    <3>1. /\ t.decided = s.decided /\ t.applied = s.applied /\ t.db = s.db
          /\ t.journal = s.journal /\ t.waiters = s.waiters /\ t.calls = s.calls
          /\ t.base = slot /\ t.log = rest
      BY <2>2 DEF ReplicaRecord
    <3>2. t \in ReplicaRecord
      BY <2>1, <2>2 DEF ReplicaRecord
    <3>3. SameRole(s, t)
      BY <2>2 DEF ReplicaRecord, SameRole
    <3> QED
      BY <3>1, <3>2, <3>3
  <2>4. LogEnd(t) = LogEnd(s) /\ t.base = MaxOf(s.base, slot)
    <3>1. LogEnd(t) = slot + (LogEnd(s) - slot)
      BY <2>1, <2>3 DEF LogEnd
    <3>2. LogEnd(s) \in Nat
      BY <1>1
    <3> QED
      BY <1>1, <1>3, <2>3, <3>1, <3>2 DEF MaxOf
  <2>5. Suffix(Held(t), Held(s))
    <3>1. /\ Held(t).round = Held(s).round /\ Held(t).slot = slot /\ Held(s).slot = s.base
          /\ Held(t).values = rest /\ Held(s).values = s.log
      BY <2>3 DEF Held, SameRole
    <3>2. EndOf(Held(t)) = EndOf(Held(s)) /\ EndOf(Held(t)) = LogEnd(s)
      BY <1>1, <1>3, <2>1, <3>1 DEF EndOf
    <3>3. \A k \in Slots(Held(t)) : At(Held(t), k) = At(Held(s), k)
      <4> SUFFICES ASSUME NEW k \in slot..(LogEnd(s) - 1)
                   PROVE  rest[k - slot + 1] = s.log[k - s.base + 1]
        BY <3>1, <3>2 DEF Slots, At
      <4>1. k - slot + 1 \in 1..(LogEnd(s) - slot) /\ slot - s.base + (k - slot + 1) = k - s.base + 1
        BY <1>1
      <4> QED
        BY <2>1, <4>1
    <3> QED
      BY <1>1, <1>3, <3>1, <3>2, <3>3 DEF Suffix
  <2> QED
    BY <2>3, <2>4, <2>5
<1> QED
  BY <1>2, <1>3

\* The waiting calls of the slots from s.applied up to t.applied have the
\* requests of these slots for their answers.
Answered(s, t) ==
    LET due(k) == k \in DOMAIN s.waiters /\ s.applied <= k /\ k < t.applied
    IN  /\ DOMAIN t.calls = DOMAIN s.calls
        /\ \A v \in DOMAIN s.calls :
             \/ t.calls[v] = s.calls[v] /\ \A k : due(k) => s.waiters[k] # v
             \/ \E k : due(k) /\ s.waiters[k] = v /\ t.calls[v] = At(Held(s), k)
        /\ DOMAIN t.waiters = {k \in DOMAIN s.waiters : ~due(k)}
        /\ \A k \in DOMAIN t.waiters : t.waiters[k] = s.waiters[k]

\* Answer changes the calls and the waiters only, and tells a call the request of
\* a slot that is being applied.
LEMMA AnswerIs ==
    ASSUME NEW s \in ReplicaRecord, NEW upto \in Nat, s.base <= s.applied,
           upto <= LogEnd(s) \/ upto <= s.applied,
           NEW t, t = Answer(s, upto)
    PROVE  /\ t = [s EXCEPT !.calls = t.calls, !.waiters = t.waiters]
           /\ t.calls \in CallTable
           /\ t.waiters \in WaiterTable
           /\ Answered(s, [t EXCEPT !.applied = upto])
<1> DEFINE due == {k \in DOMAIN s.waiters : s.applied <= k /\ k < upto}
           slotOf(v) == CHOOSE k \in due : s.waiters[k] = v
           calls == [v \in DOMAIN s.calls |-> IF \E k \in due : s.waiters[k] = v
                                              THEN s.log[slotOf(v) - s.base + 1]
                                              ELSE s.calls[v]]
           waiters == [k \in DOMAIN s.waiters \ due |-> s.waiters[k]]
<1>1. t = [s EXCEPT !.calls = calls, !.waiters = waiters]
  BY DEF Answer
<1>2. /\ s.calls \in CallTable
      /\ s.waiters \in WaiterTable
      /\ s.log \in Seq(Requests) /\ s.base \in Nat /\ s.applied \in Nat /\ Len(s.log) \in Nat
      /\ LogEnd(s) = s.base + Len(s.log)
  BY LenProperties DEF ReplicaRecord, LogEnd
<1>3. /\ DOMAIN s.calls \subseteq Requests /\ \A v \in DOMAIN s.calls : s.calls[v] \in Requests \cup {NoReply}
      /\ DOMAIN s.waiters \subseteq Nat /\ \A k \in DOMAIN s.waiters : s.waiters[k] \in Requests
  BY <1>2, WaiterTableIs, CallTableIs
<1>4. \A k \in due : /\ k \in Nat /\ s.log[k - s.base + 1] \in Requests
                     /\ At(Held(s), k) = s.log[k - s.base + 1]
  <2> SUFFICES ASSUME NEW k \in due
               PROVE  /\ k \in Nat /\ s.log[k - s.base + 1] \in Requests
                      /\ At(Held(s), k) = s.log[k - s.base + 1]
    OBVIOUS
  <2>1. k \in Nat /\ s.applied <= k /\ k < upto
    BY <1>3
  <2>2. k - s.base + 1 \in 1..Len(s.log)
    BY <1>2, <2>1
  <2>3. Held(s).slot = s.base /\ Held(s).values = s.log
    BY DEF Held
  <2> QED
    BY <1>2, <2>1, <2>2, <2>3, ElementOfSeq DEF At
<1>5. \A v : (\E k \in due : s.waiters[k] = v) => slotOf(v) \in due /\ s.waiters[slotOf(v)] = v
  OBVIOUS
<1> HIDE DEF due, slotOf
<1>6. /\ calls = [v \in DOMAIN calls |-> calls[v]] /\ DOMAIN calls = DOMAIN s.calls
      /\ waiters = [k \in DOMAIN waiters |-> waiters[k]]
      /\ DOMAIN waiters = DOMAIN s.waiters \ due
      /\ \A k \in DOMAIN waiters : waiters[k] = s.waiters[k]
  OBVIOUS
<1>7. \A v \in DOMAIN s.calls :
         \/ calls[v] = s.calls[v] /\ \A k \in due : s.waiters[k] # v
         \/ \E k \in due : s.waiters[k] = v /\ calls[v] = s.log[k - s.base + 1]
  BY <1>5
<1> HIDE DEF calls, waiters
<1>8. /\ calls \in CallTable
      /\ waiters \in WaiterTable
  <2>1. \A v \in DOMAIN calls : calls[v] \in Requests \cup {NoReply}
    BY <1>3, <1>4, <1>6, <1>7
  <2>2. DOMAIN calls \subseteq Requests /\ DOMAIN waiters \subseteq Nat
    BY <1>3, <1>6
  <2>3. \A k \in DOMAIN waiters : waiters[k] \in Requests
    BY <1>3, <1>6
  <2> QED
    BY <1>6, <2>1, <2>2, <2>3, WaiterTableIs, CallTableIs
<1>9. t.calls = calls /\ t.waiters = waiters /\ t.log = s.log /\ t.base = s.base
  BY <1>1 DEF ReplicaRecord
<1>10. \A k : k \in due <=> (k \in DOMAIN s.waiters /\ s.applied <= k /\ k < upto)
  BY DEF due
<1> DEFINE u == [t EXCEPT !.applied = upto]
<1>11. u.calls = calls /\ u.waiters = waiters /\ u.applied = upto
  BY <1>1 DEF ReplicaRecord
<1> HIDE DEF u
<1>12. Answered(s, u)
  <2>1. \A v \in DOMAIN s.calls :
           \/ u.calls[v] = s.calls[v] /\ \A k \in due : s.waiters[k] # v
           \/ \E k \in due : s.waiters[k] = v /\ u.calls[v] = At(Held(s), k)
    BY <1>4, <1>7, <1>11
  <2>2. DOMAIN u.waiters = {k \in DOMAIN s.waiters : ~(k \in due)}
    BY <1>6, <1>11
  <2> QED
    BY <1>6, <1>10, <1>11, <2>1, <2>2 DEF Answered
<1> QED
  BY <1>1, <1>8, <1>9, <1>12 DEF u

\* The entries of a log that are applied at once.
LEMMA UnappliedIs ==
    ASSUME NEW s \in ReplicaRecord, NEW upto \in Nat, s.base <= s.applied,
           s.applied <= upto, upto <= LogEnd(s) \/ upto = s.applied
    PROVE  /\ Unapplied(s, upto) \in Seq(Requests)
           /\ Len(Unapplied(s, upto)) = upto - s.applied
           /\ \A k \in s.applied..(upto - 1) : Unapplied(s, upto)[k - s.applied + 1] = At(Held(s), k)
<1> DEFINE log == s.log
           base == s.base
           applied == s.applied
           a == applied - base + 1
           b == upto - base
<1>1. /\ log \in Seq(Requests) /\ Len(log) \in Nat /\ base \in Nat /\ applied \in Nat
      /\ base <= applied /\ applied <= upto
      /\ upto <= base + Len(log) \/ upto = applied
  BY ReplicaFields, LenProperties DEF LogEnd
<1>2. Unapplied(s, upto) = SubSeq(log, a, b) /\ \A k : At(Held(s), k) = log[k - base + 1]
  BY DEF Unapplied, At, Held
<1> HIDE DEF log, base, applied
<1>3. a \in Int /\ b \in Int /\ b - a + 1 = upto - applied
  BY <1>1
<1>4. \A k \in a..b : log[k] \in Requests
  <2>1. \A k \in a..b : k \in 1..Len(log)
    BY <1>1
  <2> QED
    BY <1>1, <2>1, ElementOfSeq
<1>5. /\ SubSeq(log, a, b) \in Seq(Requests)
      /\ Len(SubSeq(log, a, b)) = IF a <= b THEN b - a + 1 ELSE 0
      /\ \A k \in 1..(b - a + 1) : SubSeq(log, a, b)[k] = log[a + k - 1]
  BY <1>3, <1>4, SubSeqProperties
<1>6. (IF a <= b THEN b - a + 1 ELSE 0) = upto - applied
  BY <1>1
<1>7. \A k \in applied..(upto - 1) : k - applied + 1 \in 1..(b - a + 1)
                                      /\ a + (k - applied + 1) - 1 = k - base + 1
  BY <1>1
<1>8. \A k \in applied..(upto - 1) : SubSeq(log, a, b)[k - applied + 1] = log[k - base + 1]
  BY <1>5, <1>7
<1> QED
  BY <1>2, <1>5, <1>6, <1>8 DEF applied

\* Applied is a prefix of what is chosen, as long as the log agrees with it.
LEMMA DbGrows ==
    ASSUME NEW s \in ReplicaRecord, NEW c \in Seq(Requests), NEW upto \in Nat, s.base <= s.applied,
           s.applied <= upto, upto <= LogEnd(s) \/ upto = s.applied, upto <= Len(c),
           s.db = SubSeq(c, 1, s.applied),
           upto = s.applied \/ Matches(Held(s), c, upto)
    PROVE  s.db \o Unapplied(s, upto) = SubSeq(c, 1, upto)
<1> DEFINE applied == s.applied
           new == Unapplied(s, upto)
           rest == SubSeq(c, applied + 1, upto)
<1>1. /\ applied \in Nat /\ Len(c) \in Nat /\ applied <= upto /\ upto <= Len(c) /\ s.base \in Nat
      /\ s.base <= applied
  BY ReplicaFields, LenProperties
<1>2. /\ new \in Seq(Requests) /\ Len(new) = upto - applied
      /\ \A k \in applied..(upto - 1) : new[k - applied + 1] = At(Held(s), k)
  BY UnappliedIs
<1>3. \A k \in applied..(upto - 1) : At(Held(s), k) = c[k + 1]
  <2>1. CASE upto = s.applied
    BY <1>1, <2>1
  <2>2. CASE ~(upto = s.applied)
    <3>1. Matches(Held(s), c, upto) /\ upto <= LogEnd(s) /\ LogEnd(s) \in Nat
      BY <2>2, ReplicaFields
    <3>2. \A k \in applied..(upto - 1) : k \in Slots(Held(s)) /\ k < upto
      <4>1. Slots(Held(s)) = (s.base)..(LogEnd(s) - 1)
        BY ReplicaFields DEF Slots
      <4> QED
        BY <1>1, <3>1, <4>1
    <3> QED
      BY <3>1, <3>2 DEF Matches
  <2> QED
    BY <2>1, <2>2
<1> HIDE DEF new, applied
<1>4. /\ rest \in Seq(Requests) /\ Len(rest) = upto - applied
      /\ \A k \in 1..(upto - applied) : rest[k] = c[applied + k]
  <2>1. \A k \in (applied + 1)..upto : c[k] \in Requests
    <3>1. \A k \in (applied + 1)..upto : k \in 1..Len(c)
      BY <1>1
    <3> QED
      BY <3>1, ElementOfSeq
  <2>2. applied + 1 \in Int /\ upto \in Int
    BY <1>1
  <2>3. /\ rest \in Seq(Requests) /\ Len(rest) = IF applied + 1 <= upto THEN upto - (applied + 1) + 1 ELSE 0
        /\ \A k \in 1..(upto - (applied + 1) + 1) : rest[k] = c[applied + 1 + k - 1]
    BY <2>1, <2>2, SubSeqProperties
  <2>4. (IF applied + 1 <= upto THEN upto - (applied + 1) + 1 ELSE 0) = upto - applied
    BY <1>1
  <2>5. upto - (applied + 1) + 1 = upto - applied
    BY <1>1
  <2>6. \A k \in 1..(upto - applied) : rest[k] = c[applied + k]
    <3> SUFFICES ASSUME NEW k \in 1..(upto - applied)
                 PROVE  rest[k] = c[applied + k]
      OBVIOUS
    <3>1. applied + 1 + k - 1 = applied + k
      BY <1>1
    <3> HIDE DEF rest
    <3> QED
      BY <2>3, <2>5, <3>1
  <2> HIDE DEF rest
  <2> QED
    BY <2>3, <2>4, <2>6
<1>5. new = rest
  <2> HIDE DEF rest
  <2>1. \A k \in 1..(upto - applied) : new[k] = rest[k]
    <3> SUFFICES ASSUME NEW k \in 1..(upto - applied)
                 PROVE  new[k] = rest[k]
      OBVIOUS
    <3> DEFINE l == applied + k - 1
    <3>1. l \in applied..(upto - 1) /\ l - applied + 1 = k /\ l + 1 = applied + k
      BY <1>1
    <3> HIDE DEF l
    <3> QED
      BY <1>2, <1>3, <1>4, <3>1
  <2> QED
    BY <1>2, <1>4, <2>1, SeqEqual
<1>6. SubSeq(c, 1, applied) \o SubSeq(c, applied + 1, upto) = SubSeq(c, 1, upto)
  <2>1. 1 \in 1..(Len(c) + 1) /\ applied \in (1 - 1)..Len(c) /\ upto \in applied..Len(c)
    BY <1>1
  <2> QED
    BY <2>1, ConcatAdjacentSubSeq
<1> QED
  BY <1>5, <1>6 DEF new, applied

\* t is s after apply_decided.
Applied(i, s, t) ==
    /\ t \in ReplicaRecord /\ SameRole(s, t)
    /\ t.decided = MaxOf(s.decided, QuorumAcked(s))
    /\ t.applied = MaxOf(s.applied, MinOf(t.decided, LogEnd(s)))
    /\ t.db = s.db \o Unapplied(s, t.applied)
    /\ t.journal = s.journal \o Unapplied(s, t.applied)
    /\ LogEnd(t) = LogEnd(s) /\ Suffix(Held(t), Held(s))
    /\ t.base = IF i = s.leader THEN MaxOf(s.base, LeastAcked(s)) ELSE s.base
    /\ Answered(s, t)

\* ApplyDecided applies the slots of the log that are decided, and answers the
\* calls that wait for them.
LEMMA ApplyIs ==
    ASSUME NEW i \in Replicas, NEW s \in ReplicaRecord, NEW n \in Nat,
           \A q \in Replicas : s.acks[q] <= n, i = s.leader => n <= LogEnd(s),
           s.base <= s.applied, s.applied <= LogEnd(s)
    PROVE  Applied(i, s, ApplyDecided(i, s))
<1> DEFINE e == MaxOf(s.decided, QuorumAcked(s))
           upto == MaxOf(s.applied, MinOf(e, LogEnd(s)))
           a == Answer(s, upto)
           new == Unapplied(s, upto)
           t == [a EXCEPT !.decided = e, !.applied = upto, !.db = @ \o new, !.journal = @ \o new]
           u == ApplyDecided(i, s)
<1>1. /\ QuorumAcked(s) \in Nat /\ LeastAcked(s) \in Nat /\ LeastAcked(s) <= n
      /\ s.decided \in Nat /\ s.applied \in Nat /\ LogEnd(s) \in Nat /\ s.base \in Nat
      /\ s.db \in Seq(Requests) /\ s.journal \in Seq(Requests)
  BY QuorumAckedIs, LeastAckedIs, ReplicaFields
<1>2. e \in Nat
  BY <1>1 DEF MaxOf
<1> HIDE DEF e
<1>3. upto \in Nat /\ s.applied <= upto /\ (upto <= LogEnd(s) \/ upto = s.applied)
  BY <1>1, <1>2 DEF MaxOf, MinOf
<1>4. u = IF i = s.leader THEN TryTruncate(t) ELSE t
  BY DEF ApplyDecided, e
<1> HIDE DEF upto, u
<1>5. new \in Seq(Requests)
  BY <1>3, UnappliedIs
<1>6. /\ a = [s EXCEPT !.calls = a.calls, !.waiters = a.waiters]
      /\ a.calls \in CallTable
      /\ a.waiters \in WaiterTable
      /\ Answered(s, [a EXCEPT !.applied = upto])
  BY <1>3, AnswerIs
<1> HIDE DEF a, new
<1>7. s.db \o new \in Seq(Requests) /\ s.journal \o new \in Seq(Requests)
  BY <1>1, <1>5, ConcatProperties
<1>8. a \in ReplicaRecord /\ a.db = s.db /\ a.journal = s.journal /\ a.base = s.base /\ a.log = s.log
      /\ SameRole(s, a)
  BY <1>6 DEF ReplicaRecord, SameRole
<1>9. /\ t \in ReplicaRecord /\ SameRole(s, t)
      /\ t.decided = e /\ t.applied = upto /\ t.db = s.db \o new /\ t.journal = s.journal \o new
      /\ t.base = s.base /\ t.log = s.log /\ t.waiters = a.waiters /\ t.calls = a.calls
  BY <1>2, <1>3, <1>7, <1>8 DEF ReplicaRecord, SameRole
<1>10. /\ [a EXCEPT !.applied = upto].calls = t.calls /\ [a EXCEPT !.applied = upto].waiters = t.waiters
       /\ [a EXCEPT !.applied = upto].applied = t.applied
  BY <1>8, <1>9 DEF ReplicaRecord
<1> DEFINE a2 == [a EXCEPT !.applied = upto]
<1>11. Answered(s, t)
  <2>1. Answered(s, a2) /\ a2.calls = t.calls /\ a2.waiters = t.waiters /\ a2.applied = t.applied
    BY <1>6, <1>10
  <2> HIDE DEF a2, t
  <2> QED
    BY <2>1 DEF Answered
<1>12. LogEnd(t) = LogEnd(s) /\ Held(t) = Held(s)
  BY <1>9 DEF LogEnd, Held, SameRole
<1>13. Suffix(Held(t), Held(s))
  BY <1>1, <1>12, ReplicaFields DEF Suffix
<1> HIDE DEF t
<1>14. CASE ~(i = s.leader)
  <2>1. u = t
    BY <1>4, <1>14
  <2> QED
    BY <1>9, <1>11, <1>12, <1>13, <1>14, <2>1 DEF Applied, e, upto, new, u
<1>15. CASE i = s.leader
  <2>1. LeastAcked(t) = LeastAcked(s)
    BY <1>9 DEF SameRole, LeastAcked
  <2>2. u = DropBelow(t, LeastAcked(s))
    BY <1>4, <1>15, <2>1 DEF TryTruncate
  <2>3. LeastAcked(s) <= LogEnd(t)
    BY <1>1, <1>12, <1>15
  <2>4. /\ u \in ReplicaRecord /\ SameRole(t, u)
        /\ u.decided = t.decided /\ u.applied = t.applied /\ u.db = t.db
        /\ u.journal = t.journal /\ u.waiters = t.waiters /\ u.calls = t.calls
        /\ u.base = MaxOf(t.base, LeastAcked(s)) /\ LogEnd(u) = LogEnd(t)
        /\ Suffix(Held(u), Held(t))
    <3> DEFINE slot == LeastAcked(s)
    <3>1. slot \in Nat /\ slot <= LogEnd(t) /\ t \in ReplicaRecord /\ u = DropBelow(t, slot)
      BY <1>1, <1>9, <2>2, <2>3
    <3> HIDE DEF slot
    <3>2. /\ u \in ReplicaRecord /\ SameRole(t, u)
          /\ u.decided = t.decided /\ u.applied = t.applied /\ u.db = t.db
          /\ u.journal = t.journal /\ u.waiters = t.waiters /\ u.calls = t.calls
          /\ u.base = MaxOf(t.base, slot) /\ LogEnd(u) = LogEnd(t)
          /\ Suffix(Held(u), Held(t))
      BY <3>1, DropBelowIs
    <3> QED
      BY <3>2 DEF slot
  <2>5. Answered(s, u)
    BY <1>11, <2>4 DEF Answered
  <2>6. SameRole(s, u)
    BY <1>9, <2>4 DEF SameRole
  <2>7. /\ u.decided = e /\ u.applied = upto /\ u.db = s.db \o new /\ u.journal = s.journal \o new
        /\ u.base = MaxOf(s.base, LeastAcked(s)) /\ LogEnd(u) = LogEnd(s) /\ Suffix(Held(u), Held(s))
    BY <1>9, <1>12, <2>4
  <2> QED
    BY <1>15, <2>4, <2>5, <2>6, <2>7 DEF Applied, e, upto, new, u
<1> QED
  BY <1>14, <1>15

-----------------------------------------------------------------------------
(* Messages.                                                               *)

\* What a leader proposes is the rest of its log, from a slot that it knows
\* the peer to have, or from its own first one.
LEMMA ProposeToIs ==
    ASSUME NEW s \in ReplicaRecord, NEW p \in Replicas
    PROVE  LET m == ProposeTo(s, p)
           IN  /\ m \in Message /\ m.type = "PROPOSE" /\ m.round = s.probe
               /\ m.trunc = s.base /\ m.decided = s.decided
               /\ m.slot <= s.base \/ m.slot <= s.acks[p]
               /\ s.base <= m.slot /\ EndOf(m) = LogEnd(s)
               /\ \A k \in Slots(Offered(m)) : At(Offered(m), k) = At(Held(s), k)
<1> DEFINE log == s.log
           base == s.base
           start == MaxOf(s.base, MinOf(s.acks[p], LogEnd(s)))
           rest == SubSeq(log, start - base + 1, Len(log))
           m == ProposeTo(s, p)
<1>1. /\ log \in Seq(Requests) /\ Len(log) \in Nat /\ base \in Nat /\ s.acks[p] \in Nat
      /\ LogEnd(s) = base + Len(log) /\ s.decided \in Nat /\ s.probe \in Nat
  BY ReplicaFields, LenProperties DEF LogEnd
<1>2. start \in Nat /\ base <= start /\ start <= base + Len(log) /\ (start <= base \/ start <= s.acks[p])
  BY <1>1 DEF MaxOf, MinOf
<1>3. m = [type |-> "PROPOSE", slot |-> start, values |-> rest,
           decided |-> s.decided, round |-> s.probe, trunc |-> base]
  BY DEF ProposeTo
<1> HIDE DEF start, m
<1>4. /\ rest \in Seq(Requests) /\ Len(rest) = base + Len(log) - start
      /\ \A k \in start..(base + Len(log) - 1) : rest[k - start + 1] = log[k - base + 1]
  <2> HIDE DEF log, base
  <2> DEFINE a == start - base + 1
             b == Len(log)
  <2>1. a \in Int /\ b \in Int /\ b - a + 1 = base + Len(log) - start
    BY <1>1, <1>2
  <2>2. \A k \in a..b : log[k] \in Requests
    <3>1. \A k \in a..b : k \in 1..Len(log)
      BY <1>1, <1>2
    <3> QED
      BY <1>1, <3>1, ElementOfSeq
  <2>3. /\ rest \in Seq(Requests) /\ Len(rest) = IF a <= b THEN b - a + 1 ELSE 0
        /\ \A k \in 1..(b - a + 1) : rest[k] = log[a + k - 1]
    BY <2>1, <2>2, SubSeqProperties
  <2>4. (IF a <= b THEN b - a + 1 ELSE 0) = base + Len(log) - start
    BY <1>1, <1>2
  <2>5. \A k \in start..(base + Len(log) - 1) : rest[k - start + 1] = log[k - base + 1]
    <3> SUFFICES ASSUME NEW k \in start..(base + Len(log) - 1)
                 PROVE  rest[k - start + 1] = log[k - base + 1]
      OBVIOUS
    <3> DEFINE l == k - start + 1
    <3>1. l \in 1..(b - a + 1) /\ a + l - 1 = k - base + 1
      BY <1>1, <1>2
    <3> HIDE DEF l, rest
    <3>2. rest[l] = log[k - base + 1]
      BY <2>3, <3>1
    <3> QED
      BY <3>2 DEF l
  <2> HIDE DEF rest, a, b
  <2> QED
    BY <2>3, <2>4, <2>5
<1> HIDE DEF rest
<1>5. /\ m \in Message /\ m.type = "PROPOSE" /\ m.round = s.probe
      /\ m.trunc = base /\ m.decided = s.decided /\ m.slot = start /\ m.values = rest
  BY <1>1, <1>2, <1>3, <1>4 DEF Message, ProposeMessage
<1>6. EndOf(m) = LogEnd(s) /\ EndOf(m) = base + Len(log)
  <2>1. EndOf(m) = start + Len(rest)
    BY <1>5 DEF EndOf
  <2>2. start + (base + Len(log) - start) = base + Len(log)
    BY <1>1, <1>2
  <2> QED
    BY <1>1, <1>4, <2>1, <2>2
<1>7. \A k \in Slots(Offered(m)) : At(Offered(m), k) = At(Held(s), k)
  <2>1. Offered(m).slot = start /\ Offered(m).values = rest /\ EndOf(Offered(m)) = base + Len(log)
    BY <1>5, <1>6 DEF Offered, EndOf
  <2>2. \A k \in Slots(Offered(m)) : k \in start..(base + Len(log) - 1)
    <3> DEFINE t == Offered(m)
    <3>1. t.slot = start /\ EndOf(t) = base + Len(log)
      BY <2>1
    <3> HIDE DEF t, log, base
    <3>2. \A k \in Slots(t) : k \in start..(base + Len(log) - 1)
      BY <1>1, <1>2, <3>1 DEF Slots
    <3> QED
      BY <3>2 DEF t
  <2>3. \A k : At(Offered(m), k) = rest[k - start + 1] /\ At(Held(s), k) = log[k - base + 1]
    BY <2>1 DEF At, Held
  <2> HIDE DEF log, base
  <2> QED
    BY <1>4, <2>2, <2>3
<1> QED
  BY <1>2, <1>5, <1>6, <1>7 DEF m

\* A replica's PREPARE reports its log.
LEMMA PrepareIs ==
    ASSUME NEW s \in ReplicaRecord, NEW i \in Replicas, NEW r \in Nat
    PROVE  LET m == Prepare(i, s, r)
           IN  /\ m \in PrepareMessage /\ m \in Message /\ m.type = "PREPARE" /\ m.sender = i
               /\ m.round = r /\ m.ack = s.ack /\ m.slot = s.base /\ EndOf(m) = LogEnd(s)
               /\ Reported(m) = Held(s)
BY ReplicaFields DEF Prepare, PrepareMessage, Message, EndOf, LogEnd, Reported, Held

\* The PROBE of a candidate, of its election's round.
LEMMA ProbeIs ==
    ASSUME NEW s \in ReplicaRecord
    PROVE  Probe(s) \in Message /\ Probe(s).type = "PROBE" /\ Probe(s).round = s.election
BY ReplicaFields DEF Probe, ProbeMessage, Message

\* The ACK of a follower, up to the end of its log.
LEMMA AckIs ==
    ASSUME NEW s \in ReplicaRecord
    PROVE  /\ Ack(s) \in Message /\ Ack(s).type = "ACK"
           /\ Ack(s).round = s.probe /\ Ack(s).slot = LogEnd(s)
BY ReplicaFields DEF Ack, AckMessage, Message

\* A message that p may send to q.
Posted(R, p, q, m) ==
    \/ Leads(R, p) /\ m = ProposeTo(R[p], q)
    \/ Owner(R[p].election) = p /\ m = Probe(R[p])
    \/ \E r \in Nat : /\ m = Prepare(p, R[p], r) /\ Owner(r) = q
                      /\ R[p].ack <= r /\ r <= R[p].probe /\ r <= R[q].probe
    \/ R[p].ack = R[p].probe /\ Owner(R[p].ack) = q /\ m = Ack(R[p])

\* What a replica posts says what the replica has.
LEMMA PostedIs ==
    ASSUME NEW R, NEW W, NEW c, Core(R, W, c), NEW p \in Replicas, NEW q \in Replicas,
           NEW m, Posted(R, p, q, m)
    PROVE  /\ m \in Message
           /\ m.type = "PREPARE" => /\ m.sender = p /\ Reported(m) = Held(R[p])
                                    /\ R[p].ack <= m.round /\ m.round <= R[p].probe
           /\ m.type = "PROPOSE" => /\ Leads(R, p) /\ m.round = R[p].ack
                                    /\ Suffix(Offered(m), Held(R[p]))
                                    /\ m.trunc <= R[p].base /\ m.decided <= R[p].decided
                                    /\ m.slot <= R[p].base \/ m.slot <= R[p].acks[q]
           /\ m.type = "ACK" => m.round = R[p].ack /\ m.slot = LogEnd(R[p])
           /\ MessageRounds(R, p, q, m)
<1> DEFINE s == R[p]
<1>1. s \in ReplicaRecord /\ ReplicaRounds(R, p)
  BY RecordAt DEF Core, Rounds
<1>2. s.base \in Nat /\ s.decided \in Nat /\ s.probe \in Nat /\ s.ack \in Nat /\ s.election \in Nat
  BY <1>1, ReplicaFields
<1>3. CASE Leads(R, p) /\ m = ProposeTo(s, q)
  <2>1. s.ack = s.probe /\ Owner(s.probe) = p
    BY <1>1, <1>3 DEF ReplicaRounds
  <2>2. /\ m \in Message /\ m.type = "PROPOSE" /\ m.round = s.probe
        /\ m.trunc = s.base /\ m.decided = s.decided
        /\ m.slot <= s.base \/ m.slot <= s.acks[q]
        /\ s.base <= m.slot /\ EndOf(m) = LogEnd(s)
        /\ \A k \in Slots(Offered(m)) : At(Offered(m), k) = At(Held(s), k)
    BY <1>1, <1>3, ProposeToIs
  <2>3. Suffix(Offered(m), Held(s))
    BY <1>1, <2>1, <2>2, MessageFields, ReplicaFields DEF Suffix
  <2>4. MessageRounds(R, p, q, m)
    BY <1>2, <2>1, <2>2 DEF MessageRounds
  <2> QED
    BY <1>2, <1>3, <2>1, <2>2, <2>3, <2>4
<1>4. CASE Owner(s.election) = p /\ m = Probe(s)
  <2>1. s.election <= s.probe
    BY <1>1 DEF ReplicaRounds
  <2> QED
    BY <1>1, <1>4, <2>1, ProbeIs DEF MessageRounds
<1>5. CASE \E r \in Nat : /\ m = Prepare(p, s, r) /\ Owner(r) = q
                          /\ s.ack <= r /\ r <= s.probe /\ r <= R[q].probe
  BY <1>1, <1>5, PrepareIs DEF MessageRounds
<1>6. CASE s.ack = s.probe /\ Owner(s.ack) = q /\ m = Ack(s)
  <2>1. R[q].ack >= s.ack
    <3>1. Held(s) \in Logs(R, W) /\ Held(s).round = s.ack
      BY <1>1, InLogs, ReplicaFields
    <3>2. LogRounds(R, Held(s))
      BY <3>1 DEF Core, Rounds
    <3> QED
      BY <1>6, <3>1, <3>2 DEF LogRounds
  <2>2. R[q].ack <= R[q].probe /\ R[q].ack \in Nat /\ R[q].probe \in Nat
    BY RecordAt, ReplicaFields DEF Core, Rounds, ReplicaRounds
  <2> QED
    BY <1>1, <1>2, <1>6, <2>1, <2>2, AckIs DEF MessageRounds
<1> QED
  BY <1>3, <1>4, <1>5, <1>6 DEF Posted

\* Messages may be sent, and any may be lost or received.
LEMMA Posts ==
    ASSUME NEW R, NEW W, NEW c, Core(R, W, c), NEW W2,
           \A p, q \in Replicas : \A m \in W2[p][q] : m \in W[p][q] \/ Posted(R, p, q, m)
    PROVE  Core(R, W2, c)
<1>1. Typed(R, W) /\ Typed(R, W2)
  BY PostedIs DEF Core, Typed
<1>2. \A q \in Replicas : R[q].ack \in Nat /\ R[q].probe \in Nat /\ R[q].applied \in Nat
                          /\ Suffix(Held(R[q]), Held(R[q]))
  BY <1>1, RecordAt, ReplicaFields DEF Suffix
<1>3. \A m \in Reports(R, W2) :
         \/ m \in Reports(R, W)
         \/ /\ Reported(m) = Held(R[m.sender])
            /\ R[m.sender].ack <= m.round /\ m.round <= R[m.sender].probe
  <2> SUFFICES ASSUME NEW m \in Reports(R, W2), m \notin Reports(R, W)
               PROVE  /\ Reported(m) = Held(R[m.sender])
                      /\ R[m.sender].ack <= m.round /\ m.round <= R[m.sender].probe
    OBVIOUS
  <2>1. PICK p \in Replicas, q \in Replicas : m \in W2[p][q] /\ m.type = "PREPARE"
    BY InReports
  <2>2. m \notin W[p][q]
    BY <2>1, InReports
  <2> QED
    BY <2>1, <2>2, PostedIs
<1>4. Shift(R, W, R, W2)
  BY <1>1, <1>2, <1>3, PostedIs DEF Shift
<1>5. Counted(R, W, R) /\ Indices(R, c)
  BY DEF Counted, Core
<1>6. \A i \in Replicas : /\ ReplicaRounds(R, i)
                          /\ Settled(R, W, c, R[i].base, R[i].ack)
                          /\ Decided(R, W, c, R[i].decided, R[i].ack)
  BY DEF Core, Rounds, Witnesses
<1>7. \A p, q \in Replicas : \A m \in W2[p][q] : m \notin W[p][q] => MessageRounds(R, p, q, m)
  BY PostedIs
<1> QED
  BY <1>4, <1>5, <1>6, <1>7, ShiftCore

-----------------------------------------------------------------------------
(* Steps of one replica that write no log.                                 *)

\* A log is a suffix of itself.
LEMMA SuffixSelf ==
    ASSUME NEW s \in ReplicaRecord
    PROVE  Suffix(Held(s), Held(s))
<1>1. Held(s).slot \in Nat
  BY ReplicaFields
<1> QED
  BY <1>1 DEF Suffix

\* What the new record t of the replica i may differ in.
Moves(R, W, c, i, t) ==
    /\ t \in ReplicaRecord /\ t.ack = R[i].ack /\ t.probe >= R[i].probe /\ t.applied >= R[i].applied
    /\ Suffix(Held(t), Held(R[i]))
    /\ t.leader = i => R[i].leader = i /\ LeaderIndices(t, i)
    /\ \A k \in DOMAIN t.prepares :
          \/ t.prepares[k] \in Reports(R, W)
          \/ /\ t.prepares[k].sender = i /\ Reported(t.prepares[k]) = Held(R[i])
             /\ R[i].ack <= t.prepares[k].round /\ t.prepares[k].round <= t.probe
    /\ \A q \in Replicas : t.leader = i =>
          \/ t.acks[q] = R[i].acks[q]
          \/ \E m \in W[q][i] : m.type = "ACK" /\ m.round = R[i].ack /\ m.slot = t.acks[q]
    /\ ReplicaIndices(t, c)
    /\ Settled(R, W, c, t.base, R[i].ack) /\ Decided(R, W, c, t.decided, R[i].ack)

\* A step of one replica that writes no log keeps the invariant.
LEMMA MovesCore ==
    ASSUME NEW R, NEW W, NEW c, Core(R, W, c), NEW i \in Replicas, NEW t, Moves(R, W, c, i, t),
           NEW R2, R2 = [R EXCEPT ![i] = t], ReplicaRounds(R2, i)
    PROVE  Core(R2, W, c)
<1>1. /\ Typed(R, W) /\ R \in [Replicas -> ReplicaRecord]
      /\ \A q \in Replicas : R[q] \in ReplicaRecord
  BY DEF Core, Typed
<1>2. R2[i] = t /\ (\A q \in Replicas : q # i => R2[q] = R[q]) /\ R2 \in [Replicas -> ReplicaRecord]
  BY <1>1 DEF Moves
<1>3. Typed(R2, W)
  BY <1>1, <1>2 DEF Typed
<1>4. \A q \in Replicas : q # i => Leads(R2, q) = Leads(R, q)
  BY <1>2 DEF Leads
<1>5. \A m \in Reports(R2, W) :
         \/ m \in Reports(R, W)
         \/ /\ Reported(m) = Held(R[m.sender])
            /\ R[m.sender].ack <= m.round /\ m.round <= R2[m.sender].probe
  <2> SUFFICES ASSUME NEW m \in Reports(R2, W), m \notin Reports(R, W)
               PROVE  /\ Reported(m) = Held(R[m.sender])
                      /\ R[m.sender].ack <= m.round /\ m.round <= R2[m.sender].probe
    OBVIOUS
  <2>1. PICK q \in Replicas : \E k \in DOMAIN R2[q].prepares : m = R2[q].prepares[k]
    <3>1. \A p, q \in Replicas : m \in W[p][q] => m.type # "PREPARE"
      BY InReports
    <3>2. \/ \E p, q \in Replicas : m \in W[p][q] /\ m.type = "PREPARE"
          \/ \E q \in Replicas : \E k \in DOMAIN R2[q].prepares : m = R2[q].prepares[k]
      BY DEF Reports
    <3> QED
      BY <3>1, <3>2
  <2>2. q = i
    BY <1>2, <2>1, InReports
  <2> QED
    BY <1>2, <2>1, <2>2 DEF Moves
<1>6. \A q \in Replicas :
         /\ R2[q].ack = R[q].ack /\ R2[q].probe >= R[q].probe
         /\ R2[q].applied >= R[q].applied
         /\ Suffix(Held(R2[q]), Held(R[q]))
         /\ Leads(R2, q) => Leads(R, q)
  <2> SUFFICES ASSUME NEW q \in Replicas
               PROVE  /\ R2[q].ack = R[q].ack /\ R2[q].probe >= R[q].probe
                      /\ R2[q].applied >= R[q].applied
                      /\ Suffix(Held(R2[q]), Held(R[q]))
                      /\ Leads(R2, q) => Leads(R, q)
    OBVIOUS
  <2>1. CASE q = i
    BY <1>2, <2>1 DEF Moves, Leads
  <2>2. CASE q # i
    <3>1. R2[q] = R[q] /\ R[q].probe \in Nat /\ R[q].applied \in Nat
      BY <1>1, <1>2, <2>2, ReplicaFields
    <3>2. Suffix(Held(R[q]), Held(R[q]))
      BY <1>1, SuffixSelf
    <3>3. R[q].probe >= R[q].probe /\ R[q].applied >= R[q].applied
      BY <3>1
    <3> QED
      BY <1>4, <2>2, <3>1, <3>2, <3>3
  <2> QED
    BY <2>1, <2>2
<1>7. Shift(R, W, R2, W)
  BY <1>1, <1>3, <1>5, <1>6 DEF Shift
<1>8. Counted(R, W, R2)
  <2> SUFFICES ASSUME NEW p \in Replicas, NEW q \in Replicas, Leads(R2, p)
               PROVE  \/ R2[p].acks[q] = R[p].acks[q]
                      \/ \E m \in W[q][p] : m.type = "ACK" /\ m.round = R[p].ack /\ m.slot = R2[p].acks[q]
    BY DEF Counted
  <2>1. CASE p = i
    BY <1>2, <2>1 DEF Moves, Leads
  <2>2. CASE p # i
    BY <1>2, <2>2
  <2> QED
    BY <2>1, <2>2
<1>9. Indices(R2, c)
  <2> SUFFICES ASSUME NEW q \in Replicas
               PROVE  ReplicaIndices(R2[q], c) /\ (Leads(R2, q) => LeaderIndices(R2[q], q))
    BY DEF Indices
  <2>1. CASE q = i
    BY <1>2, <2>1 DEF Moves, Leads
  <2>2. CASE q # i
    <3>1. ReplicaIndices(R[q], c) /\ (Leads(R, q) => LeaderIndices(R[q], q))
      BY DEF Core, Indices
    <3> QED
      BY <1>2, <1>4, <2>2, <3>1
  <2> QED
    BY <2>1, <2>2
<1>10. ASSUME NEW q \in Replicas
       PROVE  /\ ReplicaRounds(R2, q)
              /\ Settled(R, W, c, R2[q].base, R[q].ack)
              /\ Decided(R, W, c, R2[q].decided, R[q].ack)
  <2>1. CASE q = i
    BY <1>2, <2>1 DEF Moves
  <2>2. CASE q # i
    <3>1. /\ ReplicaRounds(R, q)
          /\ Settled(R, W, c, R[q].base, R[q].ack)
          /\ Decided(R, W, c, R[q].decided, R[q].ack)
      BY DEF Core, Rounds, Witnesses
    <3>2. ReplicaRounds(R2, q)
      BY <1>2, <1>4, <2>2, <3>1 DEF ReplicaRounds
    <3> QED
      BY <1>2, <2>2, <3>1, <3>2
  <2> QED
    BY <2>1, <2>2
<1> QED
  BY <1>7, <1>8, <1>9, <1>10, ShiftCore

\* To apply, to learn what is decided and to truncate.
LEMMA SettlesCore ==
    ASSUME NEW R, NEW W, NEW c, Core(R, W, c), NEW i \in Replicas,
           NEW t \in ReplicaRecord, SameRole(R[i], t), t.applied >= R[i].applied,
           Suffix(Held(t), Held(R[i])), ReplicaIndices(t, c),
           Settled(R, W, c, t.base, R[i].ack), Decided(R, W, c, t.decided, R[i].ack),
           NEW R2, R2 = [R EXCEPT ![i] = t]
    PROVE  Core(R2, W, c)
<1> DEFINE s == R[i]
<1>1. /\ R \in [Replicas -> ReplicaRecord] /\ s \in ReplicaRecord /\ R2[i] = t
      /\ s.probe \in Nat
  <2>1. R \in [Replicas -> ReplicaRecord] /\ s \in ReplicaRecord
    BY DEF Core, Typed
  <2> QED
    BY <2>1, ReplicaFields
<1>2. LogEnd(t) = LogEnd(s)
  BY <1>1, ReplicaFields DEF Suffix
<1>3. s.leader = i => LeaderIndices(t, i)
  <2>1. s.leader = i => LeaderIndices(s, i)
    BY DEF Core, Indices, Leads
  <2> QED
    BY <1>2, <2>1 DEF LeaderIndices, SameRole
<1>4. \A k \in DOMAIN t.prepares : t.prepares[k] \in Reports(R, W)
  BY InReports DEF SameRole
<1>5. Moves(R, W, c, i, t)
  BY <1>1, <1>3, <1>4 DEF Moves, SameRole
<1>6. ReplicaRounds(R2, i)
  <2>1. ReplicaRounds(R, i)
    BY DEF Core, Rounds
  <2>2. Leads(R2, i) = Leads(R, i)
    BY <1>1 DEF Leads, SameRole
  <2> QED
    BY <1>1, <2>1, <2>2 DEF ReplicaRounds, SameRole
<1> QED
  BY <1>5, <1>6, MovesCore

\* A log has what is decided in its round or before.
LEMMA DecidedMatches ==
    ASSUME NEW R, NEW W, NEW c, Core(R, W, c), NEW i \in Replicas, NEW n \in Nat,
           Decided(R, W, c, n, R[i].ack)
    PROVE  n <= Len(c) /\ Matches(Held(R[i]), c, n)
<1>1. PICK Q \in Quorums, s \in 0..R[i].ack : Chosen(R, W, c, Q, n, s)
  BY DEF Decided
<1>2. R[i] \in ReplicaRecord
  BY RecordAt DEF Core
<1>3. Held(R[i]) \in Logs(R, W) /\ Held(R[i]).round = R[i].ack /\ R[i].ack \in Nat
  BY <1>2, InLogs, ReplicaFields
<1>4. R[i].ack > s \/ R[i].ack = s
  BY <1>3
<1>5. n <= Len(c) /\ \A t \in Logs(R, W) : /\ t.round > s => Covers(t, c, n)
                                           /\ t.round = s => Matches(t, c, n)
  BY <1>1 DEF Chosen
<1> QED
  BY <1>3, <1>4, <1>5 DEF Covers

\* The replica i applies, and what it decides and truncates is so.
Applies(R, W, c, i, t, R2) ==
    /\ Core(R, W, c) /\ Applied(i, R[i], t)
    /\ Settled(R, W, c, t.base, R[i].ack) /\ Decided(R, W, c, t.decided, R[i].ack)
    /\ t.base <= t.applied
    /\ R2 = [R EXCEPT ![i] = t]

\* It then has a longer prefix of what is chosen.
LEMMA AppliedCore ==
    ASSUME NEW R, NEW W, NEW c, NEW i \in Replicas, NEW t, NEW R2, Applies(R, W, c, i, t, R2)
    PROVE  Core(R2, W, c) /\ t.db = SubSeq(c, 1, t.applied)
<1> DEFINE s == R[i]
<1>1. s \in ReplicaRecord /\ c \in Seq(Requests) /\ ReplicaIndices(s, c)
  BY RecordAt DEF Core, Indices, Applies
<1>2. /\ s.base \in Nat /\ s.applied \in Nat /\ s.decided \in Nat /\ LogEnd(s) \in Nat
      /\ s.base <= s.applied /\ s.applied <= s.decided /\ s.applied <= LogEnd(s)
      /\ s.db = SubSeq(c, 1, s.applied)
  BY <1>1, ReplicaFields DEF ReplicaIndices
<1>3. /\ t \in ReplicaRecord /\ SameRole(s, t) /\ Suffix(Held(t), Held(s)) /\ LogEnd(t) = LogEnd(s)
      /\ t.applied = MaxOf(s.applied, MinOf(t.decided, LogEnd(s)))
      /\ t.db = s.db \o Unapplied(s, t.applied)
  BY DEF Applies, Applied
<1>4. /\ t.applied \in Nat /\ t.decided \in Nat /\ Len(c) \in Nat
      /\ t.decided <= Len(c) /\ Matches(Held(s), c, t.decided)
  BY <1>1, <1>3, ReplicaFields, LenProperties, DecidedMatches DEF Applies
<1>5. s.decided <= t.decided
  <2>1. t.decided = MaxOf(s.decided, QuorumAcked(s))
    BY DEF Applies, Applied
  <2>2. s.decided <= MaxOf(s.decided, QuorumAcked(s))
    BY <1>2, <1>4, <2>1 DEF MaxOf
  <2> QED
    BY <2>1, <2>2
<1>6. /\ s.applied <= t.applied /\ t.applied <= LogEnd(s) /\ t.applied <= t.decided
      /\ t.applied <= Len(c)
  BY <1>2, <1>3, <1>4, <1>5 DEF MaxOf, MinOf
<1>7. Matches(Held(s), c, t.applied)
  <2>1. \A k \in Slots(Held(s)) : k \in Nat
    BY <1>1, ReplicaFields, LogFields
  <2> QED
    BY <1>4, <1>6, <2>1 DEF Matches
<1>8. t.db = SubSeq(c, 1, t.applied)
  <2> DEFINE upto == t.applied
  <2>1. /\ upto \in Nat /\ s.applied <= upto /\ upto <= LogEnd(s) /\ upto <= Len(c)
        /\ Matches(Held(s), c, upto) /\ t.db = s.db \o Unapplied(s, upto)
    BY <1>3, <1>4, <1>6, <1>7
  <2> HIDE DEF upto
  <2>2. t.db = SubSeq(c, 1, upto)
    BY <1>1, <1>2, <2>1, DbGrows
  <2> QED
    BY <2>2 DEF upto
<1>9. ReplicaIndices(t, c)
  <2>1. t.base <= t.applied
    BY DEF Applies
  <2> QED
    BY <1>3, <1>4, <1>6, <1>8, <2>1 DEF ReplicaIndices
<1> QED
  BY <1>3, <1>6, <1>8, <1>9, SettlesCore DEF Applies

\* The replica i becomes t, and no other changes.
Becomes(R, R2, i, t) == R2 = [R EXCEPT ![i] = t]

\* When one replica becomes t, the others keep their records.
LEMMA OthersStay ==
    ASSUME NEW R, NEW W, Typed(R, W), NEW i \in Replicas, NEW t, NEW R2, Becomes(R, R2, i, t)
    PROVE  \A q \in Replicas \ {i} : R2[q] = R[q]
BY DEF Typed, Becomes

\* A leader applies what a quorum has acknowledged and truncates what all have.
LEMMA LeaderApplies ==
    ASSUME NEW R, NEW W, NEW c, Core(R, W, c), NEW i \in Replicas, Leads(R, i),
           NEW R2, Becomes(R, R2, i, ApplyDecided(i, R[i]))
    PROVE  /\ Applied(i, R[i], R2[i])
           /\ \E d \in Seq(Requests) :
                /\ Extends(d, c) /\ Core(R2, W, d) /\ R2[i].db = SubSeq(d, 1, R2[i].applied)
                /\ \A k \in 1..Len(d) : \/ k <= Len(c)
                                        \/ \E t \in Logs(R, W) : k - 1 \in Slots(t) /\ At(t, k - 1) = d[k]
<1> DEFINE s == R[i]
           t == ApplyDecided(i, s)
           n == QuorumAcked(s)
           l == LeastAcked(s)
<1>1. /\ R \in [Replicas -> ReplicaRecord] /\ Typed(R, W) /\ s \in ReplicaRecord /\ c \in Seq(Requests)
      /\ s.leader = i /\ R2[i] = t
  BY DEF Becomes, Core, Typed, Leads
<1>2. /\ s.base \in Nat /\ s.applied \in Nat /\ s.decided \in Nat /\ LogEnd(s) \in Nat /\ s.ack \in Nat
  BY <1>1, ReplicaFields
<1>3. /\ s.base <= s.applied /\ s.applied <= s.decided /\ s.applied <= LogEnd(s)
      /\ \A q \in Replicas : s.acks[q] <= LogEnd(s)
  BY DEF Core, Indices, ReplicaIndices, LeaderIndices
<1>4. Applied(i, s, t)
  BY <1>1, <1>2, <1>3, ApplyIs
<1> HIDE DEF t
<1>5. /\ n \in Nat /\ n <= LogEnd(s) /\ \E Q \in Quorums : \A q \in Q : s.acks[q] >= n
  BY <1>1, <1>2, <1>3, QuorumAckedIs
<1>6. l \in Nat /\ l <= LogEnd(s) /\ l <= n /\ \A q \in Replicas : s.acks[q] >= l
  BY <1>1, <1>2, <1>3, LeastAckedIs
<1> HIDE DEF n, l
<1>7. PICK Q \in Quorums : \A q \in Q : s.acks[q] >= n
  BY <1>5
<1>8. PICK d \in Seq(Requests) :
         /\ Extends(d, c) /\ Core(R, W, d) /\ Decided(R, W, d, n, s.ack)
         /\ \A k \in 1..Len(d) : \/ k <= Len(c)
                                 \/ \E u \in Logs(R, W) : k - 1 \in Slots(u) /\ At(u, k - 1) = d[k]
  BY <1>2, <1>5, <1>7, Decide
<1>9. PICK e \in Seq(Requests) :
         /\ Extends(e, d) /\ Core(R, W, e) /\ Decided(R, W, e, l, s.ack) /\ Settled(R, W, e, l, s.ack)
         /\ \A k \in 1..Len(e) : \/ k <= Len(d)
                                 \/ \E u \in Logs(R, W) : k - 1 \in Slots(u) /\ At(u, k - 1) = e[k]
  BY <1>2, <1>6, <1>8, ReplicasFinite, Decide
<1>10. Extends(e, c) /\ \A k \in 1..Len(e) :
          \/ k <= Len(c)
          \/ \E u \in Logs(R, W) : k - 1 \in Slots(u) /\ At(u, k - 1) = e[k]
  <2>1. Len(c) \in Nat /\ Len(d) \in Nat /\ Len(e) \in Nat
    BY <1>1, LenProperties
  <2>2. Extends(e, c)
    BY <1>8, <1>9, <2>1 DEF Extends
  <2>3. ASSUME NEW k \in 1..Len(e), ~(k <= Len(c))
        PROVE  \E u \in Logs(R, W) : k - 1 \in Slots(u) /\ At(u, k - 1) = e[k]
    <3>1. CASE k <= Len(d)
      <4>1. k \in 1..Len(d) /\ e[k] = d[k]
        BY <1>9, <2>1, <3>1 DEF Extends
      <4> QED
        BY <1>8, <2>3, <4>1
    <3>2. CASE ~(k <= Len(d))
      BY <1>9, <3>2
    <3> QED
      BY <3>1, <3>2
  <2> QED
    BY <2>2, <2>3
<1>11. Decided(R, W, e, n, s.ack)
  BY <1>1, <1>2, <1>5, <1>8, <1>9, ExtendsSettled
<1>12. /\ t.decided = MaxOf(s.decided, n) /\ t.base = MaxOf(s.base, l)
       /\ t.applied = MaxOf(s.applied, MinOf(t.decided, LogEnd(s)))
  BY <1>1, <1>4 DEF Applied, n, l
<1>13. Settled(R, W, e, t.base, s.ack) /\ Decided(R, W, e, t.decided, s.ack)
  <2>1. Settled(R, W, e, s.base, s.ack) /\ Decided(R, W, e, s.decided, s.ack)
    BY <1>9 DEF Core, Witnesses
  <2>2. (t.base = s.base \/ t.base = l) /\ (t.decided = s.decided \/ t.decided = n)
    BY <1>12 DEF MaxOf
  <2> QED
    BY <1>9, <1>11, <2>1, <2>2
<1>14. t.base <= t.applied
  BY <1>2, <1>3, <1>5, <1>6, <1>12 DEF MaxOf, MinOf
<1>15. R2 = [R EXCEPT ![i] = t]
  BY DEF t, Becomes
<1>16. Core(R2, W, e) /\ t.db = SubSeq(e, 1, t.applied)
  <2>1. Applies(R, W, e, i, t, R2)
    BY <1>4, <1>9, <1>13, <1>14, <1>15 DEF Applies
  <2> QED
    BY <2>1, AppliedCore
<1> QED
  BY <1>1, <1>4, <1>9, <1>10, <1>16

\* A replica that does not lead has peers.
LEMMA NotAlone ==
    ASSUME NEW R \in [Replicas -> ReplicaRecord], NEW i \in Replicas, ~Leads(R, i)
    PROVE  N > 1
<1>1. R[i].leader \in Replicas /\ R[i].leader # i
  BY ReplicaFields DEF Leads
<1> QED
  BY <1>1, PaxosAssumption DEF Replicas

\* A follower applies what its leader has decided.
LEMMA FollowerApplies ==
    ASSUME NEW R, NEW W, NEW c, Core(R, W, c), NEW i \in Replicas, ~Leads(R, i), Tallied(R[i]),
           NEW R2, Becomes(R, R2, i, ApplyDecided(i, R[i]))
    PROVE  /\ Applied(i, R[i], R2[i]) /\ Core(R2, W, c)
           /\ R2[i].decided = R[i].decided /\ R2[i].base = R[i].base
           /\ R2[i].db = SubSeq(c, 1, R2[i].applied)
<1> DEFINE s == R[i]
           t == ApplyDecided(i, s)
<1>1. /\ R \in [Replicas -> ReplicaRecord] /\ s \in ReplicaRecord
      /\ s.leader # i /\ R2[i] = t
  BY DEF Becomes, Core, Typed, Leads
<1>2. /\ s.base \in Nat /\ s.applied \in Nat /\ s.decided \in Nat /\ LogEnd(s) \in Nat /\ s.ack \in Nat
  BY <1>1, ReplicaFields
<1>3. /\ s.base <= s.applied /\ s.applied <= s.decided /\ s.applied <= LogEnd(s)
  BY DEF Core, Indices, ReplicaIndices
<1>0. N > 1
  BY NotAlone DEF Core, Typed
<1>4. PICK n \in Nat : \A q \in Replicas : s.acks[q] <= n
  BY <1>0 DEF Tallied
<1>5. Applied(i, s, t)
  BY <1>1, <1>3, <1>4, ApplyIs
<1>6. QuorumAcked(s) \in Nat /\ QuorumAcked(s) <= s.decided
  BY <1>0, <1>1, <1>4, QuorumAckedIs DEF Tallied
<1> HIDE DEF t
<1>7. t.decided = s.decided /\ t.base = s.base
  BY <1>1, <1>2, <1>5, <1>6 DEF Applied, MaxOf
<1>8. Settled(R, W, c, t.base, s.ack) /\ Decided(R, W, c, t.decided, s.ack)
  BY <1>7 DEF Core, Witnesses
<1>9. t.base <= t.applied
  <2>1. t.applied = MaxOf(s.applied, MinOf(t.decided, LogEnd(s)))
    BY <1>5 DEF Applied
  <2> QED
    BY <1>2, <1>3, <1>7, <2>1 DEF MaxOf, MinOf
<1>10. R2 = [R EXCEPT ![i] = t]
  BY DEF t, Becomes
<1>12. Core(R2, W, c) /\ t.db = SubSeq(c, 1, t.applied)
  <2>1. Applies(R, W, c, i, t, R2)
    BY <1>5, <1>8, <1>9, <1>10 DEF Applies
  <2>2. Core(R2, W, c)
    BY <2>1, AppliedCore
  <2>3. t.db = SubSeq(c, 1, t.applied)
    BY <2>1, AppliedCore
  <2> QED
    BY <2>2, <2>3
<1> QED
  BY <1>1, <1>5, <1>7, <1>12

\* A follower drops what its leader says all have.
LEMMA FollowerDrops ==
    ASSUME NEW R, NEW W, NEW c, Core(R, W, c), NEW i \in Replicas, NEW trunc \in Nat,
           Settled(R, W, c, trunc, R[i].ack),
           NEW R2, Becomes(R, R2, i, DropBelow(R[i], MinOf(MinOf(trunc, R[i].applied), LogEnd(R[i]))))
    PROVE  /\ Core(R2, W, c) /\ SameRole(R[i], R2[i]) /\ LogEnd(R2[i]) = LogEnd(R[i])
           /\ Suffix(Held(R2[i]), Held(R[i]))
           /\ R2[i].decided = R[i].decided /\ R2[i].applied = R[i].applied /\ R2[i].db = R[i].db
           /\ R2[i].journal = R[i].journal /\ R2[i].waiters = R[i].waiters /\ R2[i].calls = R[i].calls
<1> DEFINE s == R[i]
           slot == MinOf(MinOf(trunc, s.applied), LogEnd(s))
           t == DropBelow(s, slot)
<1>1. /\ R \in [Replicas -> ReplicaRecord] /\ s \in ReplicaRecord /\ R2[i] = t
      /\ R2 = [R EXCEPT ![i] = t] /\ Typed(R, W)
  BY DEF Becomes, Core, Typed
<1>2. /\ s.base \in Nat /\ s.applied \in Nat /\ s.decided \in Nat /\ LogEnd(s) \in Nat /\ s.ack \in Nat
  BY <1>1, ReplicaFields
<1>3. slot \in Nat /\ slot <= trunc /\ slot <= s.applied /\ slot <= LogEnd(s)
  BY <1>2 DEF MinOf
<1> HIDE DEF slot
<1>4. /\ t \in ReplicaRecord /\ SameRole(s, t)
      /\ t.decided = s.decided /\ t.applied = s.applied /\ t.db = s.db
      /\ t.journal = s.journal /\ t.waiters = s.waiters /\ t.calls = s.calls
      /\ t.base = MaxOf(s.base, slot) /\ LogEnd(t) = LogEnd(s)
      /\ Suffix(Held(t), Held(s))
  BY <1>1, <1>3, DropBelowIs
<1> HIDE DEF t
<1>5. ReplicaIndices(s, c) /\ Settled(R, W, c, s.base, s.ack) /\ Decided(R, W, c, s.decided, s.ack)
  BY DEF Core, Indices, Witnesses
<1>6. Settled(R, W, c, slot, s.ack)
  BY <1>1, <1>2, <1>3, SettledLess DEF Core
<1>7. t.base <= s.applied /\ (t.base = s.base \/ t.base = slot)
  BY <1>2, <1>3, <1>4, <1>5 DEF MaxOf, ReplicaIndices
<1>8. ReplicaIndices(t, c)
  BY <1>4, <1>5, <1>7 DEF ReplicaIndices
<1>9. Settled(R, W, c, t.base, s.ack) /\ Decided(R, W, c, t.decided, s.ack)
  BY <1>4, <1>5, <1>6, <1>7
<1>10. t.applied >= s.applied
  BY <1>2, <1>4
<1>11. Core(R2, W, c)
  BY <1>1, <1>4, <1>8, <1>9, <1>10, SettlesCore
<1> QED
  BY <1>1, <1>4, <1>11

\* A replica turns to another leader.
LEMMA FollowsCore ==
    ASSUME NEW R, NEW W, NEW c, Core(R, W, c), NEW i \in Replicas, NEW j \in Replicas \ {i},
           NEW r \in Nat, r >= R[i].probe, r > R[i].probe \/ ~Leads(R, i),
           NEW R2, Becomes(R, R2, i, [R[i] EXCEPT !.probe = r, !.leader = j])
    PROVE  Core(R2, W, c)
<1> DEFINE s == R[i]
           t == [s EXCEPT !.probe = r, !.leader = j]
<1>1. /\ R \in [Replicas -> ReplicaRecord] /\ s \in ReplicaRecord /\ R2 = [R EXCEPT ![i] = t]
      /\ R2[i] = t /\ Typed(R, W)
  BY DEF Becomes, Core, Typed
<1>2. /\ s.probe \in Nat /\ s.ack \in Nat /\ s.election \in Nat /\ s.applied \in Nat
  BY <1>1, ReplicaFields
<1>3. /\ t \in ReplicaRecord /\ t.probe = r /\ t.leader = j /\ t.ack = s.ack /\ t.applied = s.applied
      /\ t.election = s.election /\ t.prepares = s.prepares /\ t.base = s.base /\ t.log = s.log
      /\ t.decided = s.decided /\ t.db = s.db
  BY <1>1 DEF ReplicaRecord
<1> HIDE DEF t
<1>4. Held(t) = Held(s) /\ LogEnd(t) = LogEnd(s)
  BY <1>3 DEF Held, LogEnd
<1>5. ReplicaIndices(s, c) /\ Settled(R, W, c, s.base, s.ack) /\ Decided(R, W, c, s.decided, s.ack)
  BY DEF Core, Indices, Witnesses
<1>6. ReplicaIndices(t, c)
  BY <1>3, <1>4, <1>5 DEF ReplicaIndices
<1>7. \A k \in DOMAIN t.prepares : t.prepares[k] \in Reports(R, W)
  BY <1>3, InReports
<1>8. t.probe >= s.probe /\ t.applied >= s.applied /\ Suffix(Held(t), Held(s)) /\ t.leader # i
  BY <1>1, <1>2, <1>3, <1>4, SuffixSelf
<1>9. Moves(R, W, c, i, t)
  BY <1>3, <1>5, <1>6, <1>7, <1>8 DEF Moves
<1>10. ReplicaRounds(R2, i)
  <2>1. ReplicaRounds(R, i)
    BY DEF Core, Rounds
  <2>2. ~Leads(R2, i)
    BY <1>1, <1>3 DEF Leads
  <2>3. ~(t.ack = t.probe /\ Owner(t.probe) = i)
    <3>1. s.ack <= s.probe /\ (Leads(R, i) <=> (s.ack = s.probe /\ Owner(s.probe) = i))
      BY <2>1 DEF ReplicaRounds
    <3> QED
      BY <1>2, <1>3, <3>1
  <2>4. /\ s.ack <= s.probe /\ s.election <= s.probe
        /\ s.prepares # <<>> => /\ Owner(s.election) = i
                                /\ s.election = s.probe => s.ack < s.election
    BY <2>1 DEF ReplicaRounds
  <2>5. /\ t.ack <= t.probe /\ t.election <= t.probe
        /\ t.prepares # <<>> => /\ Owner(t.election) = i
                                /\ t.election = t.probe => t.ack < t.election
    BY <1>2, <1>3, <2>4
  <2>6. /\ \A k \in DOMAIN t.prepares : t.prepares[k].round = t.election
        /\ \A k, l \in DOMAIN t.prepares : t.prepares[k].sender = t.prepares[l].sender => k = l
    BY <1>3, <2>1 DEF ReplicaRounds
  <2> QED
    BY <1>1, <2>2, <2>3, <2>5, <2>6 DEF ReplicaRounds
<1> QED
  BY <1>1, <1>9, <1>10, MovesCore

\* A leader counts an acknowledgment.
LEMMA CountsCore ==
    ASSUME NEW R, NEW W, NEW c, Core(R, W, c), NEW i \in Replicas, Leads(R, i),
           NEW j \in Replicas \ {i}, NEW m \in W[j][i], m.type = "ACK", m.round = R[i].ack,
           NEW R2, Becomes(R, R2, i, [R[i] EXCEPT !.acks[j] = MaxOf(@, m.slot)])
    PROVE  Core(R2, W, c)
<1> DEFINE s == R[i]
           most == MaxOf(s.acks[j], m.slot)
           acks == [s.acks EXCEPT ![j] = most]
           t == [s EXCEPT !.acks = acks]
<1>1. /\ R \in [Replicas -> ReplicaRecord] /\ s \in ReplicaRecord /\ R2 = [R EXCEPT ![i] = t]
      /\ R2[i] = t /\ Typed(R, W) /\ m \in Message
  BY DEF Becomes, Core, Typed
<1>2. /\ s.probe \in Nat /\ s.applied \in Nat /\ LogEnd(s) \in Nat /\ s.acks \in [Replicas -> Nat]
      /\ m.slot \in Nat
  BY <1>1, ReplicaFields, MessageFields
<1>3. /\ acks \in [Replicas -> Nat] /\ acks[j] = most /\ (most = s.acks[j] \/ most = m.slot)
      /\ \A q \in Replicas : q # j => acks[q] = s.acks[q]
  BY <1>2 DEF MaxOf
<1> HIDE DEF acks, most
<1>4. /\ t \in ReplicaRecord /\ t.acks = acks /\ t.next = s.next
      /\ t.probe = s.probe /\ t.leader = s.leader /\ t.ack = s.ack /\ t.applied = s.applied
      /\ t.election = s.election /\ t.prepares = s.prepares /\ t.base = s.base /\ t.log = s.log
      /\ t.decided = s.decided /\ t.db = s.db
  BY <1>1, <1>3 DEF ReplicaRecord
<1> HIDE DEF t
<1>5. Held(t) = Held(s) /\ LogEnd(t) = LogEnd(s)
  BY <1>4 DEF Held, LogEnd
<1>6. /\ ReplicaIndices(s, c) /\ Settled(R, W, c, s.base, s.ack) /\ Decided(R, W, c, s.decided, s.ack)
      /\ LeaderIndices(s, i)
  BY DEF Core, Indices, Witnesses
<1>7. ReplicaIndices(t, c)
  BY <1>4, <1>5, <1>6 DEF ReplicaIndices
<1>8. m.slot <= LogEnd(s)
  BY DEF Core, Votes
<1>9. LeaderIndices(t, i)
  BY <1>3, <1>4, <1>5, <1>6, <1>8 DEF LeaderIndices
<1>10. \A k \in DOMAIN t.prepares : t.prepares[k] \in Reports(R, W)
  BY <1>4, InReports
<1>11. t.probe >= s.probe /\ t.applied >= s.applied /\ Suffix(Held(t), Held(s)) /\ s.leader = i
  BY <1>1, <1>2, <1>4, <1>5, SuffixSelf DEF Leads
<1>12. \A q \in Replicas : \/ t.acks[q] = s.acks[q]
                           \/ \E a \in W[q][i] : a.type = "ACK" /\ a.round = s.ack /\ a.slot = t.acks[q]
  <2> SUFFICES ASSUME NEW q \in Replicas, t.acks[q] # s.acks[q]
               PROVE  \E a \in W[q][i] : a.type = "ACK" /\ a.round = s.ack /\ a.slot = t.acks[q]
    OBVIOUS
  <2>1. q = j /\ t.acks[q] = m.slot
    BY <1>3, <1>4
  <2> QED
    BY <2>1
<1>13. Moves(R, W, c, i, t)
  BY <1>4, <1>6, <1>7, <1>9, <1>10, <1>11, <1>12 DEF Moves
<1>14. ReplicaRounds(R2, i)
  <2>1. ReplicaRounds(R, i)
    BY DEF Core, Rounds
  <2>2. Leads(R2, i) = Leads(R, i)
    BY <1>1, <1>4 DEF Leads
  <2> QED
    BY <1>1, <1>4, <2>1, <2>2 DEF ReplicaRounds
<1> QED
  BY <1>1, <1>13, <1>14, MovesCore

\* A replica becomes a candidate in a round of its own.
LEMMA CandidateCore ==
    ASSUME NEW R, NEW W, NEW c, Core(R, W, c), NEW i \in Replicas, ~Leads(R, i), NEW r \in Nat,
           r > R[i].probe, Owner(r) = i,
           NEW R2, Becomes(R, R2, i, [R[i] EXCEPT !.election = r, !.probe = r,
                                                      !.prepares = <<Prepare(i, R[i], r)>>])
    PROVE  Core(R2, W, c)
<1> DEFINE s == R[i]
           m == Prepare(i, s, r)
           t == [s EXCEPT !.election = r, !.probe = r, !.prepares = <<m>>]
<1>1. /\ R \in [Replicas -> ReplicaRecord] /\ s \in ReplicaRecord /\ R2 = [R EXCEPT ![i] = t]
      /\ R2[i] = t /\ Typed(R, W) /\ s.leader # i
  BY DEF Becomes, Core, Typed, Leads
<1>2. /\ s.probe \in Nat /\ s.ack \in Nat /\ s.election \in Nat /\ s.applied \in Nat
  BY <1>1, ReplicaFields
<1>3. m \in PrepareMessage /\ m.sender = i /\ m.round = r /\ Reported(m) = Held(s)
  BY <1>1, PrepareIs
<1> HIDE DEF m
<1>4. <<m>> \in Seq(PrepareMessage) /\ DOMAIN <<m>> = {1} /\ <<m>>[1] = m
  BY <1>3
<1>5. /\ t \in ReplicaRecord /\ t.probe = r /\ t.election = r /\ t.prepares = <<m>>
      /\ t.leader = s.leader /\ t.ack = s.ack /\ t.applied = s.applied
      /\ t.base = s.base /\ t.log = s.log /\ t.decided = s.decided /\ t.db = s.db
  BY <1>1, <1>4 DEF ReplicaRecord
<1> HIDE DEF t
<1>6. Held(t) = Held(s) /\ LogEnd(t) = LogEnd(s)
  BY <1>5 DEF Held, LogEnd
<1>7. /\ ReplicaIndices(s, c) /\ Settled(R, W, c, s.base, s.ack) /\ Decided(R, W, c, s.decided, s.ack)
      /\ ReplicaRounds(R, i)
  BY DEF Core, Indices, Witnesses, Rounds
<1>8. ReplicaIndices(t, c)
  BY <1>5, <1>6, <1>7 DEF ReplicaIndices
<1>9. s.ack <= s.probe /\ s.ack < r
  BY <1>2, <1>7 DEF ReplicaRounds
<1>10. t.probe >= s.probe /\ t.applied >= s.applied /\ Suffix(Held(t), Held(s)) /\ t.leader # i
  BY <1>1, <1>2, <1>5, <1>6, SuffixSelf
<1>11. \A k \in DOMAIN t.prepares :
          /\ t.prepares[k].sender = i /\ Reported(t.prepares[k]) = Held(s)
          /\ t.prepares[k].round = r /\ s.ack <= t.prepares[k].round /\ t.prepares[k].round <= t.probe
  BY <1>2, <1>3, <1>4, <1>5, <1>9
<1>12. Moves(R, W, c, i, t)
  BY <1>5, <1>7, <1>8, <1>10, <1>11 DEF Moves
<1>13. ReplicaRounds(R2, i)
  <2>1. ~Leads(R2, i)
    BY <1>1, <1>5 DEF Leads
  <2>2. t.ack <= t.probe /\ t.election <= t.probe /\ t.ack < t.election /\ ~(t.ack = t.probe)
    BY <1>2, <1>5, <1>9
  <2>3. \A k, l \in DOMAIN t.prepares : k = l
    BY <1>4, <1>5
  <2> QED
    BY <1>1, <1>5, <1>11, <2>1, <2>2, <2>3 DEF ReplicaRounds
<1> QED
  BY <1>1, <1>12, <1>13, MovesCore

\* A candidate collects the PREPARE of another replica.
LEMMA CollectsCore ==
    ASSUME NEW R, NEW W, NEW c, Core(R, W, c), NEW i \in Replicas, NEW j \in Replicas,
           NEW m \in W[j][i], m.type = "PREPARE", m.round = R[i].election, R[i].prepares # <<>>,
           \A k \in DOMAIN R[i].prepares : R[i].prepares[k].sender # j,
           NEW R2, Becomes(R, R2, i, [R[i] EXCEPT !.prepares = Append(@, m)])
    PROVE  Core(R2, W, c)
<1> DEFINE s == R[i]
           prepares == Append(s.prepares, m)
           t == [s EXCEPT !.prepares = prepares]
<1>1. /\ R \in [Replicas -> ReplicaRecord] /\ s \in ReplicaRecord /\ R2 = [R EXCEPT ![i] = t]
      /\ R2[i] = t /\ Typed(R, W) /\ m \in Message
  BY DEF Becomes, Core, Typed
<1>2. /\ s.probe \in Nat /\ s.applied \in Nat /\ s.prepares \in Seq(PrepareMessage)
      /\ m \in PrepareMessage
  BY <1>1, ReplicaFields, MessageFields
<1>3. m.sender = j /\ m \in Reports(R, W)
  BY InReports DEF Core, Rounds, MessageRounds
<1>4. /\ prepares \in Seq(PrepareMessage) /\ prepares # <<>>
      /\ \A k \in DOMAIN prepares : \/ k \in DOMAIN s.prepares /\ prepares[k] = s.prepares[k]
                                    \/ k = Len(s.prepares) + 1 /\ prepares[k] = m
  <2>1. /\ prepares \in Seq(PrepareMessage) /\ prepares # <<>> /\ Len(prepares) = Len(s.prepares) + 1
        /\ \A k \in 1..Len(s.prepares) : prepares[k] = s.prepares[k]
        /\ prepares[Len(s.prepares) + 1] = m
    BY <1>2, AppendProperties
  <2>2. DOMAIN prepares = 1..Len(prepares) /\ DOMAIN s.prepares = 1..Len(s.prepares) /\ Len(s.prepares) \in Nat
    BY <1>2, <2>1, LenProperties
  <2>3. \A k \in 1..(Len(s.prepares) + 1) : k \in 1..Len(s.prepares) \/ k = Len(s.prepares) + 1
    BY <2>2
  <2> HIDE DEF prepares
  <2> QED
    BY <2>1, <2>2, <2>3
<1> HIDE DEF prepares
<1>5. /\ t \in ReplicaRecord /\ t.probe = s.probe /\ t.election = s.election /\ t.prepares = prepares
      /\ t.leader = s.leader /\ t.ack = s.ack /\ t.applied = s.applied
      /\ t.base = s.base /\ t.log = s.log /\ t.decided = s.decided /\ t.db = s.db
      /\ t.next = s.next /\ t.acks = s.acks
  BY <1>1, <1>4 DEF ReplicaRecord
<1> HIDE DEF t
<1>6. Held(t) = Held(s) /\ LogEnd(t) = LogEnd(s)
  BY <1>5 DEF Held, LogEnd
<1>7. /\ ReplicaIndices(s, c) /\ Settled(R, W, c, s.base, s.ack) /\ Decided(R, W, c, s.decided, s.ack)
      /\ ReplicaRounds(R, i) /\ (s.leader = i => LeaderIndices(s, i))
  BY DEF Core, Indices, Witnesses, Rounds, Leads
<1>8. ReplicaIndices(t, c) /\ (s.leader = i => LeaderIndices(t, i))
  BY <1>5, <1>6, <1>7 DEF ReplicaIndices, LeaderIndices
<1>9. t.probe >= s.probe /\ t.applied >= s.applied /\ Suffix(Held(t), Held(s))
  BY <1>1, <1>2, <1>5, <1>6, SuffixSelf
<1>10. \A k \in DOMAIN t.prepares : t.prepares[k] \in Reports(R, W)
  BY <1>3, <1>4, <1>5, InReports
<1>11. Moves(R, W, c, i, t)
  BY <1>5, <1>7, <1>8, <1>9, <1>10 DEF Moves
<1>12. ReplicaRounds(R2, i)
  <2>1. Leads(R2, i) = Leads(R, i)
    BY <1>1, <1>5 DEF Leads
  <2>2. \A k \in DOMAIN t.prepares : t.prepares[k].round = t.election
    BY <1>4, <1>5, <1>7 DEF ReplicaRounds
  <2>3. \A k, l \in DOMAIN t.prepares : t.prepares[k].sender = t.prepares[l].sender => k = l
    BY <1>3, <1>4, <1>5, <1>7 DEF ReplicaRounds
  <2>4. /\ t.ack <= t.probe /\ t.election <= t.probe
        /\ Leads(R2, i) <=> (t.ack = t.probe /\ Owner(t.probe) = i)
        /\ Owner(t.election) = i
        /\ t.election = t.probe => t.ack < t.election
    BY <1>5, <1>7, <2>1 DEF ReplicaRounds
  <2> QED
    BY <1>1, <2>2, <2>3, <2>4 DEF ReplicaRounds
<1> QED
  BY <1>1, <1>11, <1>12, MovesCore

-----------------------------------------------------------------------------
(* Steps of one replica that write its log.                                *)

\* What the entry of v into the log of i leaves of its replica.
EntersLog(R, R2, i, v) ==
    /\ R2[i].applied = R[i].applied /\ R2[i].decided = R[i].decided
    /\ R2[i].prepares = R[i].prepares
    /\ R2[i].db = R[i].db /\ R2[i].journal = R[i].journal
    /\ R2[i].waiters = [k \in DOMAIN R[i].waiters \cup {LogEnd(R[i])} |->
                          IF k = LogEnd(R[i]) THEN v ELSE R[i].waiters[k]]
    /\ R2[i].calls = [w \in DOMAIN R[i].calls \cup {v} |->
                        IF w = v THEN NoReply ELSE R[i].calls[w]]
    /\ LogEnd(R2[i]) = LogEnd(R[i]) + 1 /\ Held(R2[i]).slot = Held(R[i]).slot
    /\ \A k \in Slots(Held(R[i])) : At(Held(R2[i]), k) = At(Held(R[i]), k)
    /\ At(Held(R2[i]), LogEnd(R[i])) = v

\* A request enters the log of a leader.
LEMMA EnqueueCore ==
    ASSUME NEW R, NEW W, NEW c, Core(R, W, c), NEW i \in Replicas, Leads(R, i), NEW v \in Requests,
           NEW R2, Becomes(R, R2, i, Enqueue(i, R[i], v))
    PROVE  Core(R2, W, c) /\ Leads(R2, i) /\ EntersLog(R, R2, i, v)
<1> DEFINE s == R[i]
           log == Append(s.log, v)
           acks == [s.acks EXCEPT ![i] = s.next + 1]
           waiters == [k \in DOMAIN s.waiters \cup {s.next} |-> IF k = s.next THEN v ELSE s.waiters[k]]
           calls == [w \in DOMAIN s.calls \cup {v} |-> IF w = v THEN NoReply ELSE s.calls[w]]
           t == [s EXCEPT !.log = log, !.next = s.next + 1, !.acks = acks, !.waiters = waiters,
                          !.calls = calls]
<1>1. /\ R \in [Replicas -> ReplicaRecord] /\ s \in ReplicaRecord /\ Typed(R, W) /\ s.leader = i
      /\ s.next = LogEnd(s) /\ s.acks[i] = LogEnd(s)
  BY DEF Becomes, Core, Typed, Leads, Indices, LeaderIndices
<1>2. R2 = [R EXCEPT ![i] = t]
  BY <1>1 DEF Becomes, Enqueue, ReplicaRecord
<1>3. /\ s.next \in Nat /\ s.acks \in [Replicas -> Nat] /\ s.log \in Seq(Requests) /\ Len(s.log) \in Nat
      /\ s.base \in Nat /\ LogEnd(s) = s.base + Len(s.log)
      /\ s.waiters \in WaiterTable /\ s.calls \in CallTable
  <2>1. s.waiters \in WaiterTable /\ s.calls \in CallTable
    BY <1>1 DEF ReplicaRecord
  <2> QED
    BY <1>1, <2>1, ReplicaFields, LenProperties DEF LogEnd
<1>4. /\ log \in Seq(Requests) /\ Len(log) = Len(s.log) + 1 /\ log[Len(s.log) + 1] = v
      /\ \A k \in 1..Len(s.log) : log[k] = s.log[k]
  BY <1>3, AppendProperties
<1>5. acks \in [Replicas -> Nat] /\ acks[i] = s.next + 1 /\ \A q \in Replicas \ {i} : acks[q] = s.acks[q]
  BY <1>3
<1>6. waiters \in WaiterTable /\ calls \in CallTable
  <2>1. /\ DOMAIN s.calls \subseteq Requests /\ \A w \in DOMAIN s.calls : s.calls[w] \in Requests \cup {NoReply}
        /\ DOMAIN s.waiters \subseteq Nat /\ \A k \in DOMAIN s.waiters : s.waiters[k] \in Requests
    BY <1>3, WaiterTableIs, CallTableIs
  <2>2. waiters \in WaiterTable
    <3>1. /\ DOMAIN waiters = DOMAIN s.waiters \cup {s.next} /\ waiters = [k \in DOMAIN waiters |-> waiters[k]]
          /\ \A k \in DOMAIN waiters : waiters[k] = IF k = s.next THEN v ELSE s.waiters[k]
      OBVIOUS
    <3> HIDE DEF waiters
    <3>2. DOMAIN waiters \subseteq Nat /\ \A k \in DOMAIN waiters : waiters[k] \in Requests
      BY <1>3, <2>1, <3>1
    <3> QED
      BY <3>1, <3>2, WaiterTableIs
  <2>3. calls \in CallTable
    <3>1. /\ DOMAIN calls = DOMAIN s.calls \cup {v} /\ calls = [w \in DOMAIN calls |-> calls[w]]
          /\ \A w \in DOMAIN calls : calls[w] = IF w = v THEN NoReply ELSE s.calls[w]
      OBVIOUS
    <3> HIDE DEF calls
    <3>2. DOMAIN calls \subseteq Requests /\ \A w \in DOMAIN calls : calls[w] \in Requests \cup {NoReply}
      BY <1>3, <2>1, <3>1
    <3> QED
      BY <3>1, <3>2, CallTableIs
  <2> QED
    BY <2>2, <2>3
<1> HIDE DEF log, acks, waiters, calls
<1>7. /\ t \in ReplicaRecord /\ t.probe = s.probe /\ t.leader = s.leader /\ t.ack = s.ack
      /\ t.election = s.election /\ t.prepares = s.prepares /\ t.applied = s.applied
      /\ t.base = s.base /\ t.log = log /\ t.decided = s.decided /\ t.db = s.db
      /\ t.next = s.next + 1 /\ t.acks = acks /\ t.waiters = waiters /\ t.calls = calls
      /\ t.journal = s.journal
  <2>1. s.next + 1 \in Nat
    BY <1>3
  <2> QED
    BY <1>1, <1>4, <1>5, <1>6, <2>1 DEF ReplicaRecord
<1> HIDE DEF t
<1>8. R2[i] = t /\ (\A q \in Replicas \ {i} : R2[q] = R[q]) /\ R2 \in [Replicas -> ReplicaRecord]
  BY <1>1, <1>2, <1>7
<1>9. Typed(R2, W) /\ Leads(R2, i) /\ OnlyAt(R, R2, i)
  BY <1>1, <1>7, <1>8 DEF Typed, Leads, OnlyAt
<1>10. LogEnd(t) = LogEnd(s) + 1 /\ Held(t).slot = Held(s).slot
  <2>1. LogEnd(t) = s.base + (Len(s.log) + 1)
    BY <1>4, <1>7 DEF LogEnd
  <2>2. s.base + (Len(s.log) + 1) = LogEnd(s) + 1
    <3> DEFINE b == s.base
               n == Len(s.log)
               e == LogEnd(s)
    <3>1. b \in Nat /\ n \in Nat /\ e = b + n
      BY <1>3
    <3> HIDE DEF b, n, e
    <3>2. b + (n + 1) = e + 1
      BY <3>1
    <3> QED
      BY <3>2 DEF b, n, e
  <2>3. Held(t).slot = Held(s).slot
    BY <1>7 DEF Held
  <2> QED
    BY <2>1, <2>2, <2>3
<1>11. /\ \A k \in Slots(Held(s)) : At(Held(t), k) = At(Held(s), k)
       /\ At(Held(t), LogEnd(s)) = v
  <2>1. \A k : At(Held(t), k) = log[k - s.base + 1] /\ At(Held(s), k) = s.log[k - s.base + 1]
    BY <1>7 DEF At, Held
  <2>2. \A k \in Slots(Held(s)) : k - s.base + 1 \in 1..Len(s.log)
    <3>1. \A k \in Slots(Held(s)) : k \in Nat /\ s.base <= k /\ k < LogEnd(s)
      BY <1>1, ReplicaFields, LogFields
    <3> DEFINE b == s.base
               n == Len(s.log)
               e == LogEnd(s)
    <3>2. b \in Nat /\ n \in Nat /\ e = b + n
      BY <1>3
    <3>3. \A k \in Slots(Held(s)) : k \in Nat /\ b <= k /\ k < e
      BY <3>1
    <3> HIDE DEF b, n, e
    <3>4. \A k \in Slots(Held(s)) : k - b + 1 \in 1..n
      BY <3>2, <3>3
    <3> QED
      BY <3>4 DEF b, n
  <2>3. LogEnd(s) - s.base + 1 = Len(s.log) + 1
    BY <1>3
  <2> QED
    BY <1>4, <2>1, <2>2, <2>3
<1>12. t.next = LogEnd(t) /\ t.acks[i] = LogEnd(t)
  BY <1>1, <1>5, <1>7, <1>10
<1>13. Grows(R, W, R2, i)
  BY <1>1, <1>5, <1>7, <1>8, <1>9, <1>10, <1>11, <1>12 DEF Grows
<1>14. Core(R2, W, c)
  BY <1>13, GrowsCore
<1> QED
  <2>1. EntersLog(R, R2, i, v)
    BY <1>1, <1>7, <1>8, <1>9, <1>10, <1>11 DEF waiters, calls, EntersLog
  <2> QED
    BY <1>9, <1>14, <2>1

\* The record of a follower that takes over the PROPOSE m, before it applies.
NewEntry(s, m, k) ==
    IF m.slot <= k /\ k < m.slot + Len(m.values) THEN m.values[k - m.slot + 1] ELSE s.log[k - s.base + 1]
NewLog(s, m) ==
    [k \in 1..((m.slot + Len(m.values)) - s.base) |-> NewEntry(s, m, s.base + k - 1)]
TakenOver(s, m) ==
    [s EXCEPT !.ack = m.round, !.log = NewLog(s, m), !.decided = MaxOf(@, m.decided)]

\* It fits the follower's log: there is no gap, and it ends the log.
LEMMA TakenOverCore ==
    ASSUME NEW R, NEW W, NEW c, Core(R, W, c), NEW i \in Replicas, NEW j \in Replicas, ~Leads(R, i),
           NEW m \in W[j][i], m.type = "PROPOSE", m.round = R[i].probe,
           ~(m.round = R[i].ack /\ m.slot + Len(m.values) < LogEnd(R[i])),
           NEW R2, Becomes(R, R2, i, TakenOver(R[i], m))
    PROVE  /\ Core(R2, W, c)
           /\ AcceptPropose(i, R[i], m) =
                LET t == ApplyDecided(i, R2[i])
                IN  DropBelow(t, MinOf(MinOf(m.trunc, t.applied), LogEnd(t)))
           /\ R2[i].leader = R[i].leader /\ R2[i].probe = R[i].probe /\ R2[i].ack = m.round
           /\ R2[i].election = R[i].election /\ R2[i].prepares = R[i].prepares
           /\ R2[i].acks = R[i].acks /\ R2[i].decided >= R[i].decided /\ R2[i].applied = R[i].applied
           /\ R2[i].db = R[i].db /\ R2[i].journal = R[i].journal
           /\ R2[i].waiters = R[i].waiters /\ R2[i].calls = R[i].calls
           /\ \A k \in Slots(Held(R2[i])) :
                \/ k \in Slots(Offered(m)) /\ At(Held(R2[i]), k) = At(Offered(m), k)
                \/ k \in Slots(Held(R[i])) /\ At(Held(R2[i]), k) = At(Held(R[i]), k)
<1> DEFINE s == R[i]
           slot == m.slot
           values == m.values
           base == s.base
           old == s.log
           end == slot + Len(values)
           len == end - base
           log == NewLog(s, m)
           decided == MaxOf(s.decided, m.decided)
           t == [s EXCEPT !.ack = m.round, !.log = log, !.decided = decided]
<1>1. /\ R \in [Replicas -> ReplicaRecord] /\ s \in ReplicaRecord /\ Typed(R, W) /\ s.leader # i
      /\ m \in Message /\ m \in ProposeMessage /\ ReplicaRounds(R, i) /\ ReplicaIndices(s, c)
      /\ R2 = [R EXCEPT ![i] = t]
  <2>1. /\ R \in [Replicas -> ReplicaRecord] /\ s \in ReplicaRecord /\ Typed(R, W) /\ s.leader # i
        /\ m \in Message /\ ReplicaRounds(R, i) /\ ReplicaIndices(s, c)
    BY DEF Becomes, Core, Typed, Leads, Rounds, Indices
  <2>2. m \in ProposeMessage
    BY <2>1, MessageFields
  <2>4. R2 = [R EXCEPT ![i] = t]
    BY DEF Becomes, TakenOver
  <2> QED
    BY <2>1, <2>2, <2>4
<1>2. /\ s.decided \in Nat /\ s.applied \in Nat /\ base \in Nat /\ s.ack \in Nat /\ LogEnd(s) \in Nat
      /\ old \in Seq(Requests) /\ Len(old) \in Nat /\ LogEnd(s) = base + Len(old)
      /\ slot \in Nat /\ values \in Seq(Requests) /\ Len(values) \in Nat /\ m.round \in Nat
      /\ m.decided \in Nat /\ m.trunc \in Nat /\ base <= s.applied /\ s.applied <= LogEnd(s)
      /\ s.ack <= m.round /\ end = EndOf(m)
  <2>1. /\ m.slot \in Nat /\ m.values \in Seq(Requests) /\ m.round \in Nat /\ m.decided \in Nat
        /\ m.trunc \in Nat
    BY <1>1 DEF ProposeMessage
  <2>2. s.ack <= m.round
    BY <1>1 DEF ReplicaRounds
  <2>3. /\ s.decided \in Nat /\ s.applied \in Nat /\ base \in Nat /\ s.ack \in Nat /\ LogEnd(s) \in Nat
        /\ old \in Seq(Requests)
    BY <1>1, ReplicaFields
  <2>4. Len(old) \in Nat /\ Len(values) \in Nat
    BY <2>1, <2>3, LenProperties
  <2> QED
    BY <1>1, <2>1, <2>2, <2>3, <2>4 DEF ReplicaIndices, LogEnd, EndOf
<1>3. slot <= LogEnd(s) /\ (m.round > s.ack => end >= s.applied)
  BY <1>2, ProposeFits
<1>4. /\ ~(slot > LogEnd(s)) /\ end \in Nat /\ base <= end /\ len \in Nat
      /\ m.round > s.ack \/ MaxOf(end, LogEnd(s)) = end
      /\ m.round = s.ack => end >= LogEnd(s)
  <2>1. m.round = s.ack \/ m.round > s.ack
    BY <1>2
  <2> DEFINE e == LogEnd(s)
             a == s.applied
             r == m.round
             o == s.ack
  <2>2. /\ e \in Nat /\ a \in Nat /\ r \in Nat /\ o \in Nat /\ base \in Nat /\ end \in Nat /\ slot \in Nat
        /\ base <= a /\ a <= e /\ o <= r /\ slot <= e /\ (r > o => end >= a)
        /\ ~(r = o /\ end < e)
    BY <1>2, <1>3
  <2> HIDE DEF s, base, slot, values, e, a, r, o, end
  <2>3. /\ ~(slot > e) /\ end \in Nat /\ base <= end /\ end - base \in Nat
        /\ r > o \/ MaxOf(end, e) = end
        /\ r = o => end >= e
    BY <2>2 DEF MaxOf
  <2> QED
    BY <2>3 DEF e, r, o
<1> HIDE DEF log
<1>0. log = [k \in 1..len |-> NewEntry(s, m, base + k - 1)]
  BY DEF NewLog, log
<1>5. AcceptPropose(i, s, m) =
         LET u == ApplyDecided(i, t)
         IN  DropBelow(u, MinOf(MinOf(m.trunc, u.applied), LogEnd(u)))
  <2>1. (IF m.round > s.ack THEN end ELSE MaxOf(end, LogEnd(s))) = end
    BY <1>4
  <2>2. [s EXCEPT !.ack = m.round, !.base = base,
                  !.log = [k \in 1..(end - base) |-> NewEntry(s, m, base + k - 1)],
                  !.applied = s.applied, !.decided = MaxOf(@, m.decided)] = t
    <3>1. [s EXCEPT !.ack = m.round, !.base = base, !.log = log,
                    !.applied = s.applied, !.decided = MaxOf(@, m.decided)] = t
      BY <1>1 DEF ReplicaRecord
    <3> QED
      BY <1>0, <3>1 DEF NewEntry
  <2> QED
    BY <1>4, <2>1, <2>2 DEF AcceptPropose, NewEntry
<1>6. \A k \in 1..len : /\ NewEntry(s, m, base + k - 1) \in Requests
                        /\ log[k] = NewEntry(s, m, base + k - 1)
  <2> SUFFICES ASSUME NEW k \in 1..len
               PROVE  NewEntry(s, m, base + k - 1) \in Requests
    BY <1>0
  <2> DEFINE l == base + k - 1
             e == LogEnd(s)
  <2>1. /\ l \in Nat /\ base <= l /\ l < end
        /\ slot <= l => l - slot + 1 \in 1..Len(values)
        /\ ~(slot <= l) => l - base + 1 \in 1..Len(old)
    <3>1. e \in Nat /\ e = base + Len(old) /\ ~(slot > e)
      BY <1>2, <1>4
    <3>2. k \in Int /\ 1 <= k /\ k <= end - base
      BY <1>4
    <3> HIDE DEF s, base, slot, values, old, e, len
    <3> QED
      BY <1>2, <1>4, <3>1, <3>2
  <2> HIDE DEF l
  <2>2. slot <= l => values[l - slot + 1] \in Requests
    BY <1>2, <2>1, ElementOfSeq
  <2>3. ~(slot <= l) => old[l - base + 1] \in Requests
    BY <1>2, <2>1, ElementOfSeq
  <2>4. NewEntry(s, m, l) \in Requests
    BY <2>1, <2>2, <2>3 DEF NewEntry
  <2> QED
    BY <2>4 DEF l
<1>7. log \in Seq(Requests) /\ Len(log) = len
  <2>1. log \in [1..len -> Requests]
    BY <1>0, <1>6
  <2> HIDE DEF log, len
  <2> QED
    BY <1>4, <2>1
<1>8. decided \in Nat /\ decided >= s.decided
  <2> DEFINE d == s.decided
             e == m.decided
  <2>1. d \in Nat /\ e \in Nat
    BY <1>2
  <2> HIDE DEF d, e
  <2>2. MaxOf(d, e) \in Nat /\ MaxOf(d, e) >= d
    BY <2>1 DEF MaxOf
  <2> QED
    BY <2>2 DEF d, e
<1> HIDE DEF decided
<1>9. /\ t \in ReplicaRecord /\ t.leader = s.leader /\ t.probe = s.probe /\ t.ack = m.round
      /\ t.election = s.election /\ t.prepares = s.prepares /\ t.applied = s.applied
      /\ t.base = s.base /\ t.log = log /\ t.decided = decided /\ t.db = s.db
      /\ t.next = s.next /\ t.acks = s.acks /\ t.waiters = s.waiters /\ t.calls = s.calls
      /\ t.journal = s.journal
  BY <1>1, <1>2, <1>7, <1>8 DEF ReplicaRecord
<1> HIDE DEF t
<1>10. R2[i] = t /\ (\A q \in Replicas \ {i} : R2[q] = R[q]) /\ R2 \in [Replicas -> ReplicaRecord]
  BY <1>1, <1>9
<1>11. Typed(R2, W) /\ ~Leads(R2, i) /\ OnlyAt(R, R2, i)
  BY <1>1, <1>9, <1>10 DEF Typed, Leads, OnlyAt
<1>12. LogEnd(t) = end
  <2>1. LogEnd(t) = base + len
    BY <1>7, <1>9 DEF LogEnd
  <2>2. base + len = end
    <3> HIDE DEF s, base, slot, values
    <3> QED
      BY <1>2, <1>4
  <2> QED
    BY <2>1, <2>2
<1>13. \A k \in Slots(Held(t)) :
          IF slot <= k THEN At(Held(t), k) = At(Offered(m), k) ELSE At(Held(t), k) = At(Held(s), k)
  <2> SUFFICES ASSUME NEW k \in Slots(Held(t))
               PROVE  IF slot <= k THEN At(Held(t), k) = At(Offered(m), k)
                                   ELSE At(Held(t), k) = At(Held(s), k)
    OBVIOUS
  <2>1. k \in Nat /\ base <= k /\ k < end
    BY <1>9, <1>12, ReplicaFields, LogFields
  <2>2. /\ At(Held(t), k) = log[k - base + 1] /\ At(Held(s), k) = old[k - base + 1]
        /\ At(Offered(m), k) = values[k - slot + 1]
    BY <1>9 DEF At, Held, Offered
  <2>3. k - base + 1 \in 1..len /\ base + (k - base + 1) - 1 = k
    <3>1. base \in Nat /\ end \in Nat /\ k \in Nat /\ base <= k /\ k < end /\ len = end - base
      BY <1>2, <1>4, <2>1
    <3> HIDE DEF s, base, end, len
    <3> QED
      BY <3>1
  <2>4. log[k - base + 1] = NewEntry(s, m, k)
    <3> DEFINE l == k - base + 1
    <3>1. l \in 1..len /\ base + l - 1 = k
      BY <2>3
    <3> HIDE DEF l, len
    <3>2. log[l] = NewEntry(s, m, base + l - 1)
      BY <1>6, <3>1
    <3> QED
      BY <3>1, <3>2 DEF l
  <2> QED
    BY <2>1, <2>2, <2>4 DEF NewEntry
<1>14. Takes(R, W, R2, c, i, j, m)
  BY <1>1, <1>2, <1>4, <1>9, <1>10, <1>11, <1>12, <1>13 DEF Takes, decided
<1>15. Core(R2, W, c)
  BY <1>14, TakesCore
<1>16. \A k \in Slots(Held(t)) :
          \/ k \in Slots(Offered(m)) /\ At(Held(t), k) = At(Offered(m), k)
          \/ k \in Slots(Held(s)) /\ At(Held(t), k) = At(Held(s), k)
  <2> SUFFICES ASSUME NEW k \in Slots(Held(t))
               PROVE  \/ k \in Slots(Offered(m)) /\ At(Held(t), k) = At(Offered(m), k)
                      \/ k \in Slots(Held(s)) /\ At(Held(t), k) = At(Held(s), k)
    OBVIOUS
  <2>1. k \in Nat /\ base <= k /\ k < end
    BY <1>9, <1>12, ReplicaFields, LogFields
  <2>2. CASE slot <= k
    <3>1. Offered(m) \in Log /\ Offered(m).slot = slot /\ EndOf(Offered(m)) = end
      BY <1>1, <1>2, MessageFields
    <3>2. k \in Slots(Offered(m))
      BY <2>1, <2>2, <3>1, LogFields
    <3> QED
      BY <1>13, <2>2, <3>2
  <2>3. CASE ~(slot <= k)
    <3>1. k < LogEnd(s)
      BY <1>2, <1>4, <2>1, <2>3
    <3>2. Held(s) \in Log /\ Held(s).slot = base /\ EndOf(Held(s)) = LogEnd(s)
      BY <1>1, ReplicaFields
    <3>3. k \in Slots(Held(s))
      BY <2>1, <3>1, <3>2, LogFields
    <3> QED
      BY <1>13, <2>3, <3>3
  <2> QED
    BY <2>2, <2>3
<1> QED
  BY <1>5, <1>8, <1>9, <1>10, <1>15, <1>16

\* The senders of as many PREPAREs as make a quorum are one.
LEMMA SendersAreQuorum ==
    ASSUME NEW prepares \in Seq(PrepareMessage), Len(prepares) = Quorum,
           \A k, l \in DOMAIN prepares : prepares[k].sender = prepares[l].sender => k = l
    PROVE  {prepares[k].sender : k \in DOMAIN prepares} \in Quorums
<1> DEFINE S == {prepares[k].sender : k \in DOMAIN prepares}
           f == [k \in 1..Quorum |-> prepares[k].sender]
<1>1. DOMAIN prepares = 1..Quorum /\ \A k \in DOMAIN prepares : prepares[k].sender \in Replicas
  <2>1. DOMAIN prepares = 1..Quorum
    BY LenProperties
  <2>2. \A k \in DOMAIN prepares : prepares[k] \in PrepareMessage
    BY <2>1, ElementOfSeq
  <2> QED
    BY <2>1, <2>2 DEF PrepareMessage
<1>2. f \in Bijection(1..Quorum, S)
  <2>1. f \in [1..Quorum -> S] /\ \A k, l \in 1..Quorum : f[k] = f[l] => k = l
    BY <1>1
  <2>2. \A x \in S : \E k \in 1..Quorum : f[k] = x
    BY <1>1
  <2> QED
    BY <2>1, <2>2, Zenon DEF Bijection, Injection, Surjection, IsInjective
<1>3. Cardinality(1..Quorum) = Quorum /\ IsFiniteSet(1..Quorum)
  BY ReplicasFinite, FS_Interval
<1>4. Cardinality(S) = Quorum
  BY <1>2, <1>3, FS_Bijection DEF ExistsBijection
<1>5. S \in SUBSET Replicas
  BY <1>1
<1> QED
  BY <1>4, <1>5, ReplicasFinite DEF Quorums

\* The candidate adopts the best of the logs that a quorum has reported.
LEMMA AdoptBestCore ==
    ASSUME NEW R, NEW W, NEW c, Core(R, W, c), NEW i \in Replicas, R[i].election = R[i].probe,
           Len(R[i].prepares) = Quorum,
           NEW R2, Becomes(R, R2, i, AdoptBest(i, R[i]))
    PROVE  /\ Core(R2, W, c) /\ Leads(R2, i) /\ R2[i].prepares = <<>>
           /\ R2[i].election = R[i].election
           /\ R2[i].applied >= R[i].applied /\ R2[i].db = SubSeq(c, 1, R2[i].applied)
           /\ R2[i].applied = R[i].applied \/ \E j \in Replicas : R2[i].applied <= R[j].applied
           /\ R2[i].journal = R[i].journal
           /\ R2[i].waiters = R[i].waiters /\ R2[i].calls = R[i].calls
           /\ \E m \in Reports(R, W) : /\ Slots(Held(R2[i])) = Slots(Reported(m))
                                       /\ \A k : At(Held(R2[i]), k) = At(Reported(m), k)
<1> DEFINE s == R[i]
           b == BestPrepare(s.prepares)
           slot == b.slot
           end == b.slot + Len(b.values)
           upto == MaxOf(s.applied, MinOf(slot, LogEnd(s)))
           db == s.db \o Unapplied(s, upto)
           applied == MaxOf(upto, slot)
           decided == MaxOf(s.decided, slot)
           acks == [j \in Replicas |-> IF j = i THEN end ELSE slot]
           Q == {s.prepares[k].sender : k \in DOMAIN s.prepares}
           t == [s EXCEPT !.db = db, !.decided = decided, !.applied = applied, !.log = b.values,
                          !.base = slot, !.next = end, !.leader = i, !.ack = s.election,
                          !.acks = acks, !.prepares = <<>>]
<1>1. /\ R \in [Replicas -> ReplicaRecord] /\ s \in ReplicaRecord /\ Typed(R, W)
      /\ ReplicaRounds(R, i) /\ ReplicaIndices(s, c) /\ c \in Seq(Requests)
  BY DEF Becomes, Core, Typed, Rounds, Indices
<1>2. R2 = [R EXCEPT ![i] = t]
  BY <1>1 DEF Becomes, AdoptBest, ReplicaRecord
<1>3. /\ s.prepares \in Seq(PrepareMessage) /\ s.prepares # <<>>
      /\ \A k, l \in DOMAIN s.prepares : s.prepares[k].sender = s.prepares[l].sender => k = l
  <2>1. s.prepares \in Seq(PrepareMessage)
    BY <1>1, ReplicaFields
  <2>2. s.prepares # <<>>
    BY <2>1, ReplicasFinite, EmptySeq
  <2> QED
    BY <1>1, <2>1, <2>2 DEF ReplicaRounds
<1>4. Q \in Quorums
  BY <1>3, SendersAreQuorum
<1>5. PICK k0 \in DOMAIN s.prepares :
         /\ b = s.prepares[k0]
         /\ \A l \in DOMAIN s.prepares : ~Worse(s.prepares[k0], s.prepares[l])
  BY <1>3, BestPrepareIs
<1>6. b \in Reports(R, W)
  BY <1>5, InReports
<1> HIDE DEF b
<1>7. /\ slot \in Nat /\ b.ack \in Nat /\ b.values \in Seq(Requests) /\ Len(b.values) \in Nat
      /\ end \in Nat /\ end = EndOf(b) /\ slot <= end /\ b \in PrepareMessage
  <2>1. b \in PrepareMessage
    BY <1>1, <1>6, ReportTypes
  <2>2. b.slot \in Nat /\ b.ack \in Nat /\ b.values \in Seq(Requests)
    BY <2>1 DEF PrepareMessage
  <2> QED
    BY <2>1, <2>2, LenProperties DEF EndOf
<1>8. /\ s.applied \in Nat /\ s.decided \in Nat /\ LogEnd(s) \in Nat /\ s.base \in Nat /\ s.ack \in Nat
      /\ s.base <= s.applied /\ s.applied <= s.decided /\ s.applied <= LogEnd(s)
      /\ s.decided <= Len(c) /\ s.db = SubSeq(c, 1, s.applied)
      /\ s.election \in Nat /\ s.probe \in Nat
  BY <1>1, ReplicaFields DEF ReplicaIndices
<1>9. /\ slot <= LogEnd(s) /\ slot <= Len(c) /\ Matches(Held(s), c, slot)
  <2>1. Settled(R, W, c, slot, b.ack)
    BY <1>6 DEF Core, Witnesses
  <2>2. PICK r \in 0..b.ack : Chosen(R, W, c, Replicas, slot, r)
    BY <2>1 DEF Settled
  <2>3. Covers(Held(s), c, slot) /\ slot <= Len(c)
    BY <2>2 DEF Chosen
  <2> QED
    BY <1>1, <2>3, ReplicaFields DEF Covers
<1>10. \E j \in Replicas : slot <= R[j].applied
  BY <1>6 DEF Core, Witnesses
<1>11. /\ upto \in Nat /\ s.applied <= upto /\ upto <= LogEnd(s) /\ upto <= Len(c)
       /\ upto = applied /\ applied = MaxOf(s.applied, slot)
       /\ upto = s.applied \/ upto = slot
  <2> DEFINE a == s.applied
             e == LogEnd(s)
             n == Len(c)
             d == s.decided
  <2>1. a \in Nat /\ e \in Nat /\ n \in Nat /\ d \in Nat /\ slot \in Nat /\ slot <= e /\ slot <= n
        /\ a <= e /\ a <= d /\ d <= n
    BY <1>1, <1>7, <1>8, <1>9, LenProperties
  <2> HIDE DEF a, e, n, slot, d
  <2>2. LET u == MaxOf(a, MinOf(slot, e))
        IN  /\ u \in Nat /\ a <= u /\ u <= e /\ u <= n /\ u = MaxOf(u, slot)
            /\ MaxOf(u, slot) = MaxOf(a, slot) /\ (u = a \/ u = slot)
    BY <2>1 DEF MaxOf, MinOf
  <2> QED
    BY <2>2 DEF a, e, n
<1> HIDE DEF upto
<1>12. db = SubSeq(c, 1, applied) /\ db \in Seq(Requests)
  <2>1. upto = s.applied \/ Matches(Held(s), c, upto)
    BY <1>9, <1>11
  <2>2. db = SubSeq(c, 1, upto)
    BY <1>1, <1>8, <1>11, <2>1, DbGrows
  <2>3. Unapplied(s, upto) \in Seq(Requests)
    BY <1>1, <1>8, <1>11, UnappliedIs
  <2>4. s.db \in Seq(Requests)
    BY <1>1, ReplicaFields
  <2> QED
    BY <1>11, <2>2, <2>3, <2>4, ConcatProperties
<1>13. /\ applied \in Nat /\ decided \in Nat /\ acks \in [Replicas -> Nat]
       /\ decided = MaxOf(s.decided, slot)
       /\ \A q \in Replicas : acks[q] = IF q = i THEN end ELSE slot
       /\ applied >= s.applied
  BY <1>7, <1>8, <1>11 DEF MaxOf
<1>14. <<>> \in Seq(PrepareMessage)
  OBVIOUS
<1> HIDE DEF db, applied, decided, acks, end, slot
<1>15. /\ t \in ReplicaRecord /\ t.probe = s.probe /\ t.leader = i /\ t.ack = s.election
       /\ t.election = s.election /\ t.prepares = <<>> /\ t.applied = applied
       /\ t.base = slot /\ t.log = b.values /\ t.decided = decided /\ t.db = db
       /\ t.next = end /\ t.acks = acks /\ t.waiters = s.waiters /\ t.calls = s.calls
       /\ t.journal = s.journal
  <2> DEFINE values == b.values
             none == <<>>
  <2>1. /\ s \in ReplicaRecord /\ i \in Replicas /\ s.election \in Nat
        /\ db \in Seq(Requests) /\ decided \in Nat /\ applied \in Nat /\ values \in Seq(Requests)
        /\ slot \in Nat /\ end \in Nat /\ acks \in [Replicas -> Nat] /\ none \in Seq(PrepareMessage)
    BY <1>1, <1>7, <1>8, <1>12, <1>13, <1>14 DEF slot, end
  <2>2. t = [s EXCEPT !.db = db, !.decided = decided, !.applied = applied, !.log = values,
                      !.base = slot, !.next = end, !.leader = i, !.ack = s.election,
                      !.acks = acks, !.prepares = none]
    OBVIOUS
  <2> HIDE DEF s, values, none, t
  <2>3. t \in ReplicaRecord
    BY <2>1, <2>2 DEF ReplicaRecord
  <2>4. /\ t.probe = s.probe /\ t.leader = i /\ t.ack = s.election
        /\ t.election = s.election /\ t.prepares = none /\ t.applied = applied
        /\ t.base = slot /\ t.log = values /\ t.decided = decided /\ t.db = db
        /\ t.next = end /\ t.acks = acks /\ t.waiters = s.waiters /\ t.calls = s.calls
        /\ t.journal = s.journal
    BY <2>1, <2>2 DEF ReplicaRecord
  <2> QED
    BY <2>3, <2>4 DEF values, none
<1> HIDE DEF t
<1>16. R2[i] = t /\ (\A q \in Replicas \ {i} : R2[q] = R[q]) /\ R2 \in [Replicas -> ReplicaRecord]
  BY <1>1, <1>2, <1>15
<1>17. Typed(R2, W) /\ Leads(R2, i) /\ OnlyAt(R, R2, i)
  BY <1>1, <1>15, <1>16 DEF Typed, Leads, OnlyAt
<1>18. \A q \in Q : \E k \in DOMAIN s.prepares : s.prepares[k].sender = q
  OBVIOUS
<1>19. \A k \in DOMAIN s.prepares :
          \/ s.prepares[k].ack < b.ack
          \/ s.prepares[k].ack = b.ack /\ EndOf(s.prepares[k]) <= EndOf(b)
  <2> SUFFICES ASSUME NEW k \in DOMAIN s.prepares
               PROVE  \/ s.prepares[k].ack < b.ack
                      \/ s.prepares[k].ack = b.ack /\ EndOf(s.prepares[k]) <= EndOf(b)
    OBVIOUS
  <2> DEFINE m == s.prepares[k]
             x == m.ack
             y == b.ack
             u == EndOf(m)
             v == EndOf(b)
  <2>1. m \in Reports(R, W)
    BY InReports
  <2>2. x \in Nat /\ u \in Nat
    BY <1>1, <2>1, ReportTypes, LogFields
  <2>3. y \in Nat /\ v \in Nat
    BY <1>7
  <2>4. ~(y < x \/ (y = x /\ v < u))
    BY <1>5 DEF Worse, EndOf
  <2> HIDE DEF x, y, u, v
  <2>5. x < y \/ (x = y /\ u <= v)
    BY <2>2, <2>3, <2>4
  <2> QED
    BY <2>5 DEF x, y, u, v
<1>20. Adopts(R, W, R2, c, i, b, Q)
  <2>1. \E k \in DOMAIN s.prepares : s.prepares[k] = b
    BY <1>5
  <2>2. t.applied = MaxOf(s.applied, b.slot) /\ t.decided = MaxOf(s.decided, b.slot)
        /\ t.base = b.slot /\ t.next = EndOf(b)
        /\ \A q \in Replicas : t.acks[q] = IF q = i THEN EndOf(b) ELSE b.slot
    BY <1>7, <1>11, <1>13, <1>15 DEF slot
  <2>3. t.db = SubSeq(c, 1, t.applied)
    BY <1>12, <1>15
  <2> HIDE DEF Q
  <2> QED
    BY <1>1, <1>3, <1>4, <1>15, <1>16, <1>17, <1>18, <1>19, <2>1, <2>2, <2>3 DEF Adopts
<1>21. Core(R2, W, c)
  BY <1>20, AdoptsCore
<1>22. applied = s.applied \/ \E j \in Replicas : applied <= R[j].applied
  BY <1>10, <1>11
<1>23. /\ Slots(Held(t)) = Slots(Reported(b))
       /\ \A k : At(Held(t), k) = At(Reported(b), k)
  BY <1>15 DEF Held, Reported, Slots, EndOf, At, slot
<1> QED
  BY <1>6, <1>12, <1>13, <1>15, <1>16, <1>17, <1>21, <1>22, <1>23

-----------------------------------------------------------------------------
(* The network.                                                            *)

\* The messages that wait in a queue.
LEMMA FlightIs ==
    ASSUME NEW n, NetType(n), NEW p \in Replicas, NEW q \in Replicas
    PROVE  /\ n[p][q] \in Seq(Message)
           /\ \A m : m \in Flight(n)[p][q] <=> \E k \in DOMAIN n[p][q] : m = n[p][q][k]
           /\ Flight(n)[p][q] \subseteq Message
           /\ n[p][q] # <<>> => Head(n[p][q]) \in Flight(n)[p][q]
<1>1. n[p][q] \in Seq(Message)
  BY DEF NetType
<1>2. Flight(n)[p][q] = {n[p][q][k] : k \in DOMAIN n[p][q]}
  BY DEF Flight
<1> DEFINE mail == n[p][q]
<1>3. \A k \in DOMAIN mail : mail[k] \in Message
  BY <1>1, ElementOfSeq, LenProperties
<1>4. mail # <<>> => 1 \in DOMAIN mail /\ Head(mail) = mail[1]
  BY <1>1, EmptySeq, LenProperties
<1> QED
  BY <1>1, <1>2, <1>3, <1>4

\* What one queue becomes: it may lose its first message and then, or
\* without that, get a new one.
LEMMA TailIs ==
    ASSUME NEW mail \in Seq(Message), mail # <<>>
    PROVE  /\ Tail(mail) \in Seq(Message) /\ Len(mail) \in Nat \ {0} /\ Len(Tail(mail)) = Len(mail) - 1
           /\ DOMAIN mail = 1..Len(mail) /\ Head(mail) = mail[1]
           /\ \A k \in DOMAIN Tail(mail) : k + 1 \in DOMAIN mail /\ Tail(mail)[k] = mail[k + 1]
<1>1. /\ Tail(mail) \in Seq(Message) /\ Len(Tail(mail)) = Len(mail) - 1 /\ Len(mail) \in Nat \ {0}
      /\ \A k \in 1..Len(Tail(mail)) : Tail(mail)[k] = mail[k + 1]
  BY HeadTailProperties, EmptySeq
<1>2. DOMAIN Tail(mail) = 1..Len(Tail(mail)) /\ DOMAIN mail = 1..Len(mail)
  BY <1>1, LenProperties
<1>3. \A k \in 1..(Len(mail) - 1) : k + 1 \in 1..Len(mail)
  BY <1>1
<1> QED
  BY <1>1, <1>2, <1>3

\* A queue with one more message at its end.
LEMMA AppendIs ==
    ASSUME NEW mail \in Seq(Message), NEW m \in Message
    PROVE  /\ Append(mail, m) \in Seq(Message) /\ Len(mail) \in Nat
           /\ DOMAIN mail = 1..Len(mail) /\ DOMAIN Append(mail, m) = 1..(Len(mail) + 1)
           /\ \A k \in DOMAIN mail : Append(mail, m)[k] = mail[k]
           /\ Append(mail, m)[Len(mail) + 1] = m
           /\ \A k \in DOMAIN Append(mail, m) : k \in DOMAIN mail \/ k = Len(mail) + 1
<1>1. /\ Append(mail, m) \in Seq(Message) /\ Len(Append(mail, m)) = Len(mail) + 1 /\ Len(mail) \in Nat
      /\ \A k \in 1..Len(mail) : Append(mail, m)[k] = mail[k]
      /\ Append(mail, m)[Len(mail) + 1] = m
  BY AppendProperties, LenProperties
<1>2. DOMAIN Append(mail, m) = 1..(Len(mail) + 1) /\ DOMAIN mail = 1..Len(mail)
  BY <1>1, LenProperties
<1> QED
  BY <1>1, <1>2

\* i sends out[q] to each q in to.
Sends(n, i, to, out, n2) ==
    /\ NetType(n) /\ i \in Replicas /\ to \in SUBSET Replicas
    /\ \A q \in to : out[q] \in Message
    /\ n2 \in Sent(n, i, to, out)

\* A message is sent behind those on their way, or lost.
LEMMA SentIs ==
    ASSUME NEW n, NEW i, NEW to, NEW out, NEW n2, Sends(n, i, to, out, n2)
    PROVE  /\ NetType(n2)
           /\ \A p, q \in Replicas : \/ n2[p][q] = n[p][q]
                                     \/ p = i /\ q \in to /\ n2[p][q] = Append(n[p][q], out[q])
<1>0. /\ NetType(n) /\ i \in Replicas /\ to \in SUBSET Replicas
      /\ \A q \in to : out[q] \in Message
      /\ n2 \in Sent(n, i, to, out)
  BY DEF Sends
<1>1. PICK kept \in SUBSET to :
         n2 = [n EXCEPT ![i] = [p \in Replicas |-> IF p \in kept THEN Append(@[p], out[p]) ELSE @[p]]]
  BY <1>0 DEF Sent
<1> DEFINE row == [p \in Replicas |-> IF p \in kept THEN Append(n[i][p], out[p]) ELSE n[i][p]]
<1>2. n2 = [n EXCEPT ![i] = row]
  BY <1>0, <1>1
<1>3. \A q \in Replicas : /\ row[q] = IF q \in kept THEN Append(n[i][q], out[q]) ELSE n[i][q]
                          /\ row[q] \in Seq(Message)
  <2> SUFFICES ASSUME NEW q \in Replicas
               PROVE  row[q] \in Seq(Message)
    OBVIOUS
  <2>1. n[i][q] \in Seq(Message)
    BY <1>0 DEF NetType
  <2>2. q \in kept => Append(n[i][q], out[q]) \in Seq(Message)
    BY <1>0, <2>1, AppendIs
  <2> QED
    BY <2>1, <2>2
<1>4. row \in [Replicas -> Seq(Message)]
  BY <1>3
<1> HIDE DEF row
<1>5. n \in [Replicas -> [Replicas -> Seq(Message)]]
  BY <1>0 DEF NetType
<1>6. n2 \in [Replicas -> [Replicas -> Seq(Message)]] /\ n2[i] = row
      /\ \A p \in Replicas : p # i => n2[p] = n[p]
  BY <1>0, <1>2, <1>4, <1>5
<1> QED
  BY <1>3, <1>6 DEF NetType

\* A message is received.
LEMMA TakenIs ==
    ASSUME NetType(net), NEW i \in Replicas, NEW j \in Replicas, net[j][i] # <<>>
    PROVE  /\ NetType(Taken(i, j))
           /\ \A p, q \in Replicas : \/ Taken(i, j)[p][q] = net[p][q]
                                     \/ p = j /\ q = i
           /\ Taken(i, j)[j][i] = Tail(net[j][i])
<1> DEFINE row == [net[j] EXCEPT ![i] = Tail(@)]
<1>1. net \in [Replicas -> [Replicas -> Seq(Message)]] /\ Taken(i, j) = [net EXCEPT ![j] = row]
  BY DEF NetType, Taken
<1>2. net[j] \in [Replicas -> Seq(Message)] /\ Tail(net[j][i]) \in Seq(Message)
  BY <1>1, TailIs
<1>3. row \in [Replicas -> Seq(Message)] /\ row[i] = Tail(net[j][i])
      /\ \A q \in Replicas : q # i => row[q] = net[j][q]
  BY <1>2
<1> HIDE DEF row
<1>4. /\ Taken(i, j) \in [Replicas -> [Replicas -> Seq(Message)]] /\ Taken(i, j)[j] = row
      /\ \A p \in Replicas : p # j => Taken(i, j)[p] = net[p]
  BY <1>1, <1>3
<1> QED
  BY <1>3, <1>4 DEF NetType

-----------------------------------------------------------------------------
(* A PROBE and its PREPARE are on their way at most once.                  *)

\* A queue without its first message has no second one of it.
LEMMA SingleTail ==
    ASSUME NEW mail \in Seq(Message), mail # <<>>, Single(mail)
    PROVE  /\ Single(Tail(mail))
           /\ \A k \in DOMAIN Tail(mail) :
                Once(Head(mail)) /\ Tail(mail)[k].type = Head(mail).type
                  => Tail(mail)[k].round # Head(mail).round
<1>1. /\ DOMAIN mail = 1..Len(mail) /\ Head(mail) = mail[1] /\ Len(mail) \in Nat \ {0}
      /\ \A k \in DOMAIN Tail(mail) : k + 1 \in DOMAIN mail /\ Tail(mail)[k] = mail[k + 1]
      /\ DOMAIN Tail(mail) \subseteq Nat \ {0}
  <2>1. DOMAIN Tail(mail) = 1..Len(Tail(mail))
    BY TailIs, LenProperties
  <2> QED
    BY <2>1, TailIs
<1>2. Single(Tail(mail))
  <2> SUFFICES ASSUME NEW k \in DOMAIN Tail(mail), NEW l \in DOMAIN Tail(mail),
                      Once(Tail(mail)[k]), Tail(mail)[k].type = Tail(mail)[l].type,
                      Tail(mail)[k].round = Tail(mail)[l].round
               PROVE  k = l
    BY DEF Single
  <2>1. k + 1 = l + 1
    BY <1>1 DEF Single
  <2> QED
    BY <1>1, <2>1
<1>3. ASSUME NEW k \in DOMAIN Tail(mail), Once(Head(mail)), Tail(mail)[k].type = Head(mail).type,
             Tail(mail)[k].round = Head(mail).round
      PROVE  FALSE
  <2>1. 1 \in DOMAIN mail /\ k + 1 \in DOMAIN mail
    BY <1>1
  <2>2. k + 1 = 1
    BY <1>1, <1>3, <2>1 DEF Single
  <2> QED
    BY <1>1, <2>2
<1> QED
  BY <1>2, <1>3

\* A queue gets no second PROBE or PREPARE of a round from a new message that has
\* a round of its own.
LEMMA SingleAppend ==
    ASSUME NEW mail \in Seq(Message), NEW m \in Message, Single(mail),
           Once(m) => \A k \in DOMAIN mail : mail[k].type = m.type => mail[k].round # m.round
    PROVE  Single(Append(mail, m))
<1> DEFINE more == Append(mail, m)
           e == Len(mail) + 1
<1>1. /\ \A k \in DOMAIN mail : more[k] = mail[k]
      /\ more[e] = m
      /\ \A k \in DOMAIN more : k \in DOMAIN mail \/ k = e
  BY AppendIs
<1> HIDE DEF more, e
<1> SUFFICES ASSUME NEW k \in DOMAIN more, NEW l \in DOMAIN more, Once(more[k]),
                    more[k].type = more[l].type, more[k].round = more[l].round
             PROVE  k = l
  BY DEF Single, more
<1>2. Once(more[l])
  BY DEF Once
<1> QED
  BY <1>1, <1>2 DEF Single

\* Where one replica takes a message and no PROBE or PREPARE is new, none is
\* doubled.
LEMMA FreshTaken ==
    ASSUME NEW R, NEW n, NEW R2, NEW n2, NetType(n), NetType(n2), Fresh(R, n),
           \A p, q \in Replicas : n2[p][q] = n[p][q] \/ (n[p][q] # <<>> /\ n2[p][q] = Tail(n[p][q])),
           \A i \in Replicas : R2[i].prepares = R[i].prepares \/ R2[i].prepares = <<>>
    PROVE  Fresh(R2, n2)
<1>1. \A p, q \in Replicas : Flight(n2)[p][q] \subseteq Flight(n)[p][q]
  <2> SUFFICES ASSUME NEW p \in Replicas, NEW q \in Replicas, NEW m \in Flight(n2)[p][q]
               PROVE  m \in Flight(n)[p][q]
    OBVIOUS
  <2>1. PICK k \in DOMAIN n2[p][q] : m = n2[p][q][k]
    BY FlightIs
  <2>2. n[p][q] \in Seq(Message)
    BY FlightIs
  <2>3. \E l \in DOMAIN n[p][q] : m = n[p][q][l]
    <3>1. CASE n2[p][q] = n[p][q]
      BY <2>1, <3>1
    <3>2. CASE n[p][q] # <<>> /\ n2[p][q] = Tail(n[p][q])
      <4>1. k + 1 \in DOMAIN n[p][q] /\ m = n[p][q][k + 1]
        BY <2>1, <2>2, <3>2, TailIs
      <4> QED
        BY <4>1
    <3> QED
      BY <3>1, <3>2
  <2> QED
    BY <2>3, FlightIs
<1>2. \A p, q \in Replicas : Single(n2[p][q])
  <2> SUFFICES ASSUME NEW p \in Replicas, NEW q \in Replicas
               PROVE  Single(n2[p][q])
    OBVIOUS
  <2>1. n[p][q] \in Seq(Message) /\ Single(n[p][q])
    BY FlightIs DEF Fresh
  <2> QED
    BY <2>1, SingleTail
<1>3. \A i, j \in Replicas : \A r : Collected(R2, i, j, r) => Collected(R, i, j, r)
  BY DEF Collected
<1> QED
  BY <1>1, <1>2, <1>3 DEF Fresh

\* None of the messages is a PROBE or a PREPARE.
Others(to, out) == \A q \in to : ~Once(out[q])

\* Where messages of other types are sent, none is doubled.
LEMMA FreshSent ==
    ASSUME NEW R, NEW n, NEW i, NEW to, NEW out, NEW n2, Sends(n, i, to, out, n2), Fresh(R, n),
           Others(to, out)
    PROVE  Fresh(R, n2)
<1>0. /\ NetType(n) /\ NetType(n2)
      /\ \A q \in to : out[q] \in Message /\ ~Once(out[q])
      /\ \A p, q \in Replicas : \/ n2[p][q] = n[p][q]
                                \/ p = i /\ q \in to /\ n2[p][q] = Append(n[p][q], out[q])
  BY SentIs DEF Sends, Others
<1>1. \A p, q \in Replicas : \A m \in Flight(n2)[p][q] : Once(m) => m \in Flight(n)[p][q]
  <2> SUFFICES ASSUME NEW p \in Replicas, NEW q \in Replicas, NEW m \in Flight(n2)[p][q], Once(m)
               PROVE  m \in Flight(n)[p][q]
    OBVIOUS
  <2>1. PICK k \in DOMAIN n2[p][q] : m = n2[p][q][k]
    BY <1>0, FlightIs
  <2>2. n[p][q] \in Seq(Message)
    BY <1>0, FlightIs
  <2>3. \E l \in DOMAIN n[p][q] : m = n[p][q][l]
    <3>1. CASE n2[p][q] = n[p][q]
      BY <2>1, <3>1
    <3>2. CASE p = i /\ q \in to /\ n2[p][q] = Append(n[p][q], out[q])
      <4> DEFINE mail == n[p][q]
                 e == Len(mail) + 1
      <4>1. /\ k \in DOMAIN mail \/ k = e
            /\ Append(mail, out[q])[e] = out[q]
            /\ \A l \in DOMAIN mail : Append(mail, out[q])[l] = mail[l]
        BY <1>0, <2>1, <2>2, <3>2, AppendIs
      <4>2. m # out[q]
        BY <1>0, <3>2
      <4> HIDE DEF mail, e
      <4>3. n2[p][q] = Append(mail, out[q])
        BY <3>2 DEF mail
      <4>4. k \in DOMAIN mail /\ m = mail[k]
        BY <2>1, <4>1, <4>2, <4>3
      <4> QED
        BY <4>4 DEF mail
    <3> QED
      BY <1>0, <3>1, <3>2
  <2> QED
    BY <1>0, <2>3, FlightIs
<1>2. \A p, q \in Replicas : Single(n2[p][q])
  <2> SUFFICES ASSUME NEW p \in Replicas, NEW q \in Replicas
               PROVE  Single(n2[p][q])
    OBVIOUS
  <2>1. n[p][q] \in Seq(Message) /\ Single(n[p][q])
    BY <1>0, FlightIs DEF Fresh
  <2> QED
    BY <1>0, <2>1, SingleAppend
<1> QED
  BY <1>1, <1>2 DEF Fresh, Once

\* A message on its way waits somewhere in its queue.
LEMMA FlightAt ==
    ASSUME NEW n, NEW p \in Replicas, NEW q \in Replicas, NEW m \in Flight(n)[p][q]
    PROVE  \E k \in DOMAIN n[p][q] : m = n[p][q][k]
BY DEF Flight

\* A candidate i sends the PROBE m of its round r, and counts its own PREPARE.
ProbesSent(R, n, c, i, r, R2, m, n2) ==
    /\ NetType(n) /\ Core(R, Flight(n), c) /\ Fresh(R, n)
    /\ r > R[i].probe
    /\ \A q \in Replicas \ {i} : R2[q].prepares = R[q].prepares
    /\ \A k \in DOMAIN R2[i].prepares : R2[i].prepares[k].sender = i /\ R2[i].prepares[k].round = r
    /\ m.type = "PROBE" /\ m.round = r /\ NetType(n2)
    /\ \A p, q \in Replicas : \/ n2[p][q] = n[p][q]
                              \/ p = i /\ q # i /\ n2[p][q] = Append(n[p][q], m)

\* A candidate's PROBEs are of a round of which none was sent.
LEMMA FreshProbe ==
    ASSUME NEW R, NEW n, NEW c, NEW i \in Replicas, NEW r \in Nat, NEW R2, NEW m \in Message, NEW n2,
           ProbesSent(R, n, c, i, r, R2, m, n2)
    PROVE  Fresh(R2, n2)
<1> USE DEF ProbesSent
<1>1. \A p, q \in Replicas : \A a \in Flight(n2)[p][q] :
         \/ a \in Flight(n)[p][q]
         \/ p = i /\ q # i /\ a = m
  <2> SUFFICES ASSUME NEW p \in Replicas, NEW q \in Replicas, NEW a \in Flight(n2)[p][q],
                      a \notin Flight(n)[p][q]
               PROVE  p = i /\ q # i /\ a = m
    OBVIOUS
  <2>1. PICK k \in DOMAIN n2[p][q] : a = n2[p][q][k]
    BY FlightIs
  <2>2. n[p][q] \in Seq(Message) /\ \A l \in DOMAIN n[p][q] : a # n[p][q][l]
    BY FlightIs
  <2>3. p = i /\ q # i /\ n2[p][q] = Append(n[p][q], m)
    BY <2>1, <2>2
  <2> DEFINE mail == n[p][q]
             e == Len(mail) + 1
  <2>4. /\ k \in DOMAIN mail \/ k = e
        /\ Append(mail, m)[e] = m
        /\ \A l \in DOMAIN mail : Append(mail, m)[l] = mail[l]
    BY <2>1, <2>2, <2>3, AppendIs
  <2>5. n2[p][q] = Append(mail, m) /\ \A l \in DOMAIN mail : a # mail[l]
    BY <2>2, <2>3
  <2> HIDE DEF mail, e
  <2> QED
    BY <2>1, <2>3, <2>4, <2>5
<1>2. \A p, q \in Replicas : \A a \in Flight(n)[p][q] :
         /\ a.type = "PROBE" /\ p = i => a.round # r
         /\ a.type = "PREPARE" /\ q = i => a.round # r
  <2> SUFFICES ASSUME NEW p \in Replicas, NEW q \in Replicas, NEW a \in Flight(n)[p][q]
               PROVE  /\ a.type = "PROBE" /\ p = i => a.round # r
                      /\ a.type = "PREPARE" /\ q = i => a.round # r
    OBVIOUS
  <2>1. MessageRounds(R, p, q, a)
    BY DEF Core, Rounds
  <2>2. R[i].probe \in Nat /\ a.round \in Nat
    BY FlightIs, MessageFields, RecordAt, ReplicaFields DEF Core
  <2> QED
    BY <2>1, <2>2 DEF MessageRounds
<1>3. \A p, q \in Replicas : Single(n2[p][q])
  <2> SUFFICES ASSUME NEW p \in Replicas, NEW q \in Replicas
               PROVE  Single(n2[p][q])
    OBVIOUS
  <2>1. n[p][q] \in Seq(Message) /\ Single(n[p][q])
    BY FlightIs DEF Fresh
  <2>2. CASE p = i /\ q # i /\ n2[p][q] = Append(n[p][q], m)
    <3>1. \A k \in DOMAIN n[p][q] : n[p][q][k] \in Flight(n)[p][q]
      BY FlightIs
    <3>2. \A k \in DOMAIN n[p][q] : n[p][q][k].type = m.type => n[p][q][k].round # m.round
      BY <1>2, <2>2, <3>1
    <3> QED
      BY <2>1, <2>2, <3>2, SingleAppend
  <2> QED
    BY <2>1, <2>2
<1>4. \A p, q \in Replicas : \A s : Collected(R2, p, q, s) =>
         \/ p = i /\ q = i /\ s = r
         \/ p # i /\ Collected(R, p, q, s)
  <2> SUFFICES ASSUME NEW p \in Replicas, NEW q \in Replicas, NEW s, Collected(R2, p, q, s)
               PROVE  \/ p = i /\ q = i /\ s = r
                      \/ p # i /\ Collected(R, p, q, s)
    OBVIOUS
  <2>1. PICK k \in DOMAIN R2[p].prepares : R2[p].prepares[k].sender = q /\ R2[p].prepares[k].round = s
    BY DEF Collected
  <2>2. CASE p = i
    BY <2>1, <2>2
  <2>3. CASE p # i
    BY <2>1, <2>3 DEF Collected
  <2> QED
    BY <2>2, <2>3
<1>5. ASSUME NEW p \in Replicas, NEW q \in Replicas, NEW a \in Flight(n2)[p][q], a.type = "PROBE"
      PROVE  /\ ~Collected(R2, p, q, a.round)
             /\ \A b \in Flight(n2)[q][p] : b.type = "PREPARE" => b.round # a.round
  <2>1. \A b \in Flight(n2)[q][p] : b.type = "PREPARE" => b \in Flight(n)[q][p]
    BY <1>1
  <2>2. CASE a \in Flight(n)[p][q]
    <3>1. /\ ~Collected(R, p, q, a.round)
          /\ \A b \in Flight(n)[q][p] : b.type = "PREPARE" => b.round # a.round
      BY <1>5, <2>2 DEF Fresh
    <3>2. p = i => a.round # r
      BY <1>2, <1>5, <2>2
    <3> QED
      BY <1>4, <2>1, <3>1, <3>2
  <2>3. CASE p = i /\ q # i /\ a = m
    <3>1. \A b \in Flight(n)[q][p] : b.type = "PREPARE" => b.round # r
      BY <1>2, <2>3
    <3> QED
      BY <1>4, <2>1, <2>3, <3>1
  <2> QED
    BY <1>1, <2>2, <2>3
<1>6. ASSUME NEW p \in Replicas, NEW q \in Replicas, NEW b \in Flight(n2)[q][p], b.type = "PREPARE"
      PROVE  ~Collected(R2, p, q, b.round)
  <2>1. b \in Flight(n)[q][p]
    BY <1>1, <1>6
  <2>2. ~Collected(R, p, q, b.round)
    BY <1>6, <2>1 DEF Fresh
  <2>3. p = i => b.round # r
    BY <1>2, <1>6, <2>1
  <2> QED
    BY <1>4, <2>2, <2>3
<1> QED
  BY <1>3, <1>5, <1>6 DEF Fresh

\* i has received the first message from j.
Received(n, n1, i, j) ==
    \A p, q \in Replicas : n1[p][q] = IF p = j /\ q = i THEN Tail(n[p][q]) ELSE n[p][q]

\* i receives a PROBE from j and answers with the PREPARE m.
PrepareSent(R, n, i, j, R2, m, n1, n2) ==
    /\ NetType(n) /\ Fresh(R, n) /\ i # j /\ n[j][i] # <<>> /\ Head(n[j][i]).type = "PROBE"
    /\ \A q \in Replicas : R2[q].prepares = R[q].prepares
    /\ m.type = "PREPARE" /\ m.round = Head(n[j][i]).round
    /\ NetType(n1) /\ Received(n, n1, i, j) /\ NetType(n2)
    /\ \A p, q \in Replicas : \/ n2[p][q] = n1[p][q]
                              \/ p = i /\ q = j /\ n2[p][q] = Append(n1[p][q], m)

\* The answer to a PROBE, which is taken, is the first.
LEMMA FreshPrepare ==
    ASSUME NEW R, NEW n, NEW i \in Replicas, NEW j \in Replicas, NEW R2, NEW m \in Message, NEW n1, NEW n2,
           PrepareSent(R, n, i, j, R2, m, n1, n2)
    PROVE  Fresh(R2, n2)
<1> USE DEF PrepareSent
<1> DEFINE a0 == Head(n[j][i])
<1>1. a0 \in Flight(n)[j][i] /\ a0 \in Message /\ n[j][i] \in Seq(Message)
  BY FlightIs
<1>2. /\ ~Collected(R, j, i, a0.round)
      /\ \A b \in Flight(n)[i][j] : b.type = "PREPARE" => b.round # a0.round
  BY <1>1 DEF Fresh
<1>3. Fresh(R2, n1)
  BY FreshTaken DEF Received
<1>4. \A k \in DOMAIN n1[j][i] : n1[j][i][k].type = "PROBE" => n1[j][i][k].round # a0.round
  <2>1. Single(n[j][i])
    BY DEF Fresh
  <2>2. \A k \in DOMAIN Tail(n[j][i]) :
           Tail(n[j][i])[k].type = a0.type => Tail(n[j][i])[k].round # a0.round
    BY <1>1, <2>1, SingleTail DEF Once
  <2>3. n1[j][i] = Tail(n[j][i]) /\ a0.type = "PROBE"
    BY DEF Received
  <2> HIDE DEF a0
  <2> QED
    BY <2>2, <2>3
<1>5. \A a \in Flight(n1)[j][i] : a.type = "PROBE" => a.round # m.round
  <2> SUFFICES ASSUME NEW a \in Flight(n1)[j][i], a.type = "PROBE"
               PROVE  a.round # m.round
    OBVIOUS
  <2>1. PICK k \in DOMAIN n1[j][i] : a = n1[j][i][k]
    BY FlightIs
  <2>2. m.round = a0.round
    OBVIOUS
  <2> HIDE DEF a0
  <2> QED
    BY <1>4, <2>1, <2>2
<1>6. \A p, q \in Replicas : \A a \in Flight(n2)[p][q] :
         \/ a \in Flight(n1)[p][q]
         \/ p = i /\ q = j /\ a = m
  <2> SUFFICES ASSUME NEW p \in Replicas, NEW q \in Replicas, NEW a \in Flight(n2)[p][q],
                      a \notin Flight(n1)[p][q]
               PROVE  p = i /\ q = j /\ a = m
    OBVIOUS
  <2>0. NetType(n1) /\ NetType(n2)
    OBVIOUS
  <2>1. PICK k \in DOMAIN n2[p][q] : a = n2[p][q][k]
    <3> HIDE DEF PrepareSent
    <3>1. \A x : x \in Flight(n2)[p][q] <=> \E k \in DOMAIN n2[p][q] : x = n2[p][q][k]
      BY <2>0, FlightIs
    <3> QED
      BY <3>1
  <2>2. n1[p][q] \in Seq(Message) /\ \A l \in DOMAIN n1[p][q] : a # n1[p][q][l]
    <3> HIDE DEF PrepareSent
    <3> QED
      BY <2>0, FlightIs
  <2>3. p = i /\ q = j /\ n2[p][q] = Append(n1[p][q], m)
    BY <2>1, <2>2
  <2> DEFINE mail == n1[p][q]
             e == Len(mail) + 1
  <2>4. /\ k \in DOMAIN mail \/ k = e
        /\ Append(mail, m)[e] = m
        /\ \A l \in DOMAIN mail : Append(mail, m)[l] = mail[l]
    BY <2>1, <2>2, <2>3, AppendIs
  <2>5. n2[p][q] = Append(mail, m) /\ \A l \in DOMAIN mail : a # mail[l]
    BY <2>2, <2>3
  <2> HIDE DEF mail, e
  <2> QED
    BY <2>1, <2>3, <2>4, <2>5
<1>7. \A b \in Flight(n1)[i][j] : b.type = "PREPARE" => b.round # m.round
  <2>1. n1[i][j] = n[i][j]
    BY DEF Received
  <2>2. Flight(n1)[i][j] = Flight(n)[i][j]
    BY <2>1 DEF Flight
  <2> QED
    BY <1>2, <2>2
<1>8. \A p, q \in Replicas : Single(n2[p][q])
  <2> SUFFICES ASSUME NEW p \in Replicas, NEW q \in Replicas
               PROVE  Single(n2[p][q])
    OBVIOUS
  <2>1. n1[p][q] \in Seq(Message) /\ Single(n1[p][q])
    BY <1>3, FlightIs DEF Fresh
  <2>2. CASE p = i /\ q = j /\ n2[p][q] = Append(n1[p][q], m)
    <3>1. \A k \in DOMAIN n1[p][q] : n1[p][q][k] \in Flight(n1)[p][q]
      BY FlightIs
    <3>2. \A k \in DOMAIN n1[p][q] : n1[p][q][k].type = m.type => n1[p][q][k].round # m.round
      BY <1>7, <2>2, <3>1
    <3> QED
      BY <2>1, <2>2, <3>2, SingleAppend
  <2> QED
    BY <2>1, <2>2
<1>9. ~Collected(R2, j, i, m.round)
  BY <1>2 DEF Collected
<1>10. ASSUME NEW p \in Replicas, NEW q \in Replicas, NEW a \in Flight(n2)[p][q], a.type = "PROBE"
       PROVE  /\ ~Collected(R2, p, q, a.round)
              /\ \A b \in Flight(n2)[q][p] : b.type = "PREPARE" => b.round # a.round
  <2>1. a \in Flight(n1)[p][q]
    BY <1>6, <1>10
  <2>2. /\ ~Collected(R2, p, q, a.round)
        /\ \A b \in Flight(n1)[q][p] : b.type = "PREPARE" => b.round # a.round
    BY <1>3, <1>10, <2>1 DEF Fresh
  <2>3. ASSUME NEW b \in Flight(n2)[q][p], b.type = "PREPARE"
        PROVE  b.round # a.round
    <3>1. CASE b \in Flight(n1)[q][p]
      BY <2>2, <2>3, <3>1
    <3>2. CASE q = i /\ p = j /\ b = m
      BY <1>5, <1>10, <2>1, <3>2
    <3> QED
      BY <1>6, <3>1, <3>2
  <2> QED
    BY <2>2, <2>3
<1>11. ASSUME NEW p \in Replicas, NEW q \in Replicas, NEW b \in Flight(n2)[q][p], b.type = "PREPARE"
       PROVE  ~Collected(R2, p, q, b.round)
  <2>1. CASE b \in Flight(n1)[q][p]
    BY <1>3, <1>11, <2>1 DEF Fresh
  <2>2. CASE q = i /\ p = j /\ b = m
    BY <1>9, <2>2
  <2> QED
    BY <1>6, <2>1, <2>2
<1> QED
  BY <1>8, <1>10, <1>11 DEF Fresh

\* i receives a PREPARE from j and counts it.
PrepareCounted(R, n, i, j, R2, n1) ==
    /\ NetType(n) /\ Fresh(R, n) /\ i # j /\ n[j][i] # <<>> /\ Head(n[j][i]).type = "PREPARE"
    /\ \A q \in Replicas \ {i} : R2[q].prepares = R[q].prepares
    /\ \A k \in DOMAIN R2[i].prepares :
         \/ \E l \in DOMAIN R[i].prepares : R2[i].prepares[k] = R[i].prepares[l]
         \/ R2[i].prepares[k] = Head(n[j][i]) /\ R2[i].prepares[k].sender = j
    /\ NetType(n1) /\ Received(n, n1, i, j)

\* A PREPARE is collected when it is taken.
LEMMA FreshCollect ==
    ASSUME NEW R, NEW n, NEW i \in Replicas, NEW j \in Replicas, NEW R2, NEW n1,
           PrepareCounted(R, n, i, j, R2, n1)
    PROVE  Fresh(R2, n1)
<1> USE DEF PrepareCounted
<1> DEFINE b0 == Head(n[j][i])
<1>1. b0 \in Flight(n)[j][i] /\ b0 \in Message /\ n[j][i] \in Seq(Message)
  BY FlightIs
<1>2. \A a \in Flight(n)[i][j] : a.type = "PROBE" => a.round # b0.round
  BY <1>1 DEF Fresh
<1>3. Fresh(R, n1)
  BY FreshTaken DEF Received
<1>4. \A b \in Flight(n1)[j][i] : b.type = "PREPARE" => b.round # b0.round
  <2>1. Single(n[j][i])
    BY DEF Fresh
  <2>2. \A k \in DOMAIN n1[j][i] : n1[j][i][k].type = "PREPARE" => n1[j][i][k].round # b0.round
    BY <1>1, <2>1, SingleTail DEF Once, Received
  <2> SUFFICES ASSUME NEW b \in Flight(n1)[j][i], b.type = "PREPARE"
               PROVE  b.round # b0.round
    OBVIOUS
  <2>3. PICK k \in DOMAIN n1[j][i] : b = n1[j][i][k]
    BY FlightIs
  <2> HIDE DEF b0
  <2> QED
    BY <2>2, <2>3
<1>5. \A a \in Flight(n1)[i][j] : a.type = "PROBE" => a.round # b0.round
  <2>1. n1[i][j] = n[i][j]
    BY DEF Received
  <2>2. Flight(n1)[i][j] = Flight(n)[i][j]
    BY <2>1 DEF Flight
  <2> QED
    BY <1>2, <2>2
<1>6. \A p, q \in Replicas : \A r : Collected(R2, p, q, r) =>
         Collected(R, p, q, r) \/ (p = i /\ q = j /\ r = b0.round)
  <2> SUFFICES ASSUME NEW p \in Replicas, NEW q \in Replicas, NEW r, Collected(R2, p, q, r)
               PROVE  Collected(R, p, q, r) \/ (p = i /\ q = j /\ r = b0.round)
    OBVIOUS
  <2>1. PICK k \in DOMAIN R2[p].prepares : R2[p].prepares[k].sender = q /\ R2[p].prepares[k].round = r
    BY DEF Collected
  <2>2. CASE p = i
    BY <2>1, <2>2 DEF Collected
  <2>3. CASE p # i
    BY <2>1, <2>3 DEF Collected
  <2> QED
    BY <2>2, <2>3
<1> HIDE DEF b0
<1> QED
  BY <1>3, <1>4, <1>5, <1>6 DEF Fresh

-----------------------------------------------------------------------------
(* Where requests are, and what calls were told.                           *)

\* A log's requests are where the log has them.
LEMMA InPlaces ==
    ASSUME NEW R, NEW W
    PROVE  /\ \A t \in Logs(R, W) : \A k \in Slots(t) : <<At(t, k), k>> \in Places(R, W)
           /\ \A x \in Places(R, W) : \E t \in Logs(R, W) : \E k \in Slots(t) : x = <<At(t, k), k>>
BY DEF Places

\* The requests in a sequence.
LEMMA InSequenced ==
    ASSUME NEW c \in Seq(Requests)
    PROVE  /\ \A k \in 1..Len(c) : <<c[k], k - 1>> \in Sequenced(c)
           /\ \A x \in Sequenced(c) : x[2] \in Nat /\ x[2] < Len(c) /\ x = <<c[x[2] + 1], x[2]>>
<1>1. Len(c) \in Nat
  BY LenProperties
<1>2. ASSUME NEW k \in 1..Len(c)
      PROVE  <<c[k], k - 1>> \in Sequenced(c)
  <2>1. k - 1 \in 0..(Len(c) - 1) /\ (k - 1) + 1 = k
    BY <1>1
  <2> QED
    BY <2>1 DEF Sequenced
<1>3. ASSUME NEW x \in Sequenced(c)
      PROVE  x[2] \in Nat /\ x[2] < Len(c) /\ x = <<c[x[2] + 1], x[2]>>
  BY <1>1, <1>3 DEF Sequenced
<1> QED
  BY <1>2, <1>3

\* A suffix has its requests where the whole has them.
LEMMA SuffixPlaces ==
    ASSUME NEW R, NEW W, NEW u \in Logs(R, W), NEW t \in Log, u \in Log, Suffix(t, u),
           NEW k \in Slots(t)
    PROVE  <<At(t, k), k>> \in Places(R, W)
<1>1. k \in Slots(u) /\ At(t, k) = At(u, k)
  BY LogFields DEF Suffix
<1> QED
  BY <1>1, InPlaces

\* Messages bring requests to no new place.
LEMMA PlacesPosted ==
    ASSUME NEW R, NEW W, NEW c, Core(R, W, c), NEW W2,
           \A p, q \in Replicas : \A m \in W2[p][q] : m \in W[p][q] \/ Posted(R, p, q, m)
    PROVE  Places(R, W2) \subseteq Places(R, W)
<1> SUFFICES ASSUME NEW t \in Logs(R, W2), NEW k \in Slots(t)
             PROVE  <<At(t, k), k>> \in Places(R, W)
  BY InPlaces
<1>1. Typed(R, W) /\ Typed(R, W2) /\ \A q \in Replicas : Held(R[q]) \in Log /\ Held(R[q]) \in Logs(R, W)
  BY PostedIs, RecordAt, ReplicaFields, InLogs DEF Core, Typed
<1>2. CASE t \in Logs(R, W)
  BY <1>2, InPlaces
<1>3. ASSUME NEW m \in Reports(R, W2), t = Reported(m), m \notin Reports(R, W)
      PROVE  <<At(t, k), k>> \in Places(R, W)
  <2>1. PICK p \in Replicas, q \in Replicas : m \in W2[p][q] /\ m.type = "PREPARE"
    BY <1>3, InReports
  <2>2. Posted(R, p, q, m)
    BY <1>3, <2>1, InReports
  <2>3. t = Held(R[p])
    BY <1>3, <2>1, <2>2, PostedIs
  <2> QED
    BY <1>1, <2>3, InPlaces
<1>4. ASSUME NEW p \in Replicas, NEW q \in Replicas, NEW m \in W2[p][q], m.type = "PROPOSE",
             t = Offered(m), m \notin W[p][q]
      PROVE  <<At(t, k), k>> \in Places(R, W)
  <2>1. Posted(R, p, q, m)
    BY <1>4
  <2>2. Suffix(t, Held(R[p])) /\ t \in Log
    BY <1>4, <2>1, PostedIs, MessageFields
  <2> QED
    BY <1>1, <2>2, SuffixPlaces
<1> QED
  BY <1>2, <1>3, <1>4, InLogs

\* A replica that changes its log brings requests to the places that its new
\* log has them at.
LEMMA PlacesStep ==
    ASSUME NEW R, NEW W, Typed(R, W), NEW i \in Replicas, NEW R2, \A q \in Replicas \ {i} : R2[q] = R[q],
           NEW P, Places(R, W) \subseteq P,
           \A k \in Slots(Held(R2[i])) : <<At(Held(R2[i]), k), k>> \in P,
           \A k \in DOMAIN R2[i].prepares : \/ R2[i].prepares[k] \in Reports(R, W)
                                        \/ Reported(R2[i].prepares[k]) = Held(R[i])
    PROVE  Places(R2, W) \subseteq P
<1> SUFFICES ASSUME NEW u \in Logs(R2, W), NEW k \in Slots(u)
             PROVE  <<At(u, k), k>> \in P
  BY DEF Places
<1>1. \A q \in Replicas : q # i => R2[q] = R[q]
  OBVIOUS
<1>2. CASE u \in Logs(R, W)
  BY <1>2, InPlaces
<1>3. ASSUME NEW q \in Replicas, u = Held(R2[q])
      PROVE  <<At(u, k), k>> \in P
  <2>1. q # i => u \in Logs(R, W)
    BY <1>1, <1>3, InLogs
  <2> QED
    BY <1>1, <1>2, <1>3, <2>1, InPlaces
<1>4. ASSUME NEW m \in Reports(R2, W), u = Reported(m)
      PROVE  <<At(u, k), k>> \in P
  <2>1. CASE m \in Reports(R, W)
    BY <1>2, <1>4, <2>1, InLogs
  <2>2. CASE \E q \in Replicas : \E l \in DOMAIN R2[q].prepares : m = R2[q].prepares[l]
    <3>1. PICK q \in Replicas : \E l \in DOMAIN R2[q].prepares : m = R2[q].prepares[l]
      BY <2>2
    <3>2. PICK l \in DOMAIN R2[q].prepares : m = R2[q].prepares[l]
      BY <3>1
    <3>3. CASE q # i
      BY <1>1, <2>1, <3>2, <3>3, InReports
    <3>4. CASE q = i
      <4>1. m \in Reports(R, W) \/ Reported(m) = Held(R[i])
        BY <1>1, <3>2, <3>4
      <4>2. Reported(m) = Held(R[i]) => u \in Logs(R, W)
        BY <1>4, InLogs
      <4> QED
        BY <1>2, <2>1, <4>1, <4>2
    <3> QED
      BY <3>3, <3>4
  <2>3. CASE \E p, q \in Replicas : m \in W[p][q] /\ m.type = "PREPARE"
    BY <2>1, <2>3, InReports
  <2> QED
    BY <2>2, <2>3, InReports
<1>5. ASSUME NEW p \in Replicas, NEW q \in Replicas, NEW m \in W[p][q], m.type = "PROPOSE", u = Offered(m)
      PROVE  <<At(u, k), k>> \in P
  BY <1>2, <1>5, InLogs
<1> QED
  BY <1>3, <1>4, <1>5, InLogs

\* Where a sequence is extended by requests in logs.
LEMMA SequencedMore ==
    ASSUME NEW c \in Seq(Requests), NEW d \in Seq(Requests), Extends(d, c), NEW P,
           \A k \in 1..Len(d) : k <= Len(c) \/ <<d[k], k - 1>> \in P
    PROVE  /\ Sequenced(c) \subseteq Sequenced(d)
           /\ \A x \in Sequenced(d) : x \in Sequenced(c) \/ (x \in P /\ x[2] >= Len(c))
<1>1. Len(c) \in Nat /\ Len(d) \in Nat /\ Len(c) <= Len(d)
  BY LenProperties DEF Extends
<1>2. ASSUME NEW x \in Sequenced(c)
      PROVE  x \in Sequenced(d)
  <2>1. x[2] \in Nat /\ x[2] < Len(c) /\ x = <<c[x[2] + 1], x[2]>>
    BY <1>2, InSequenced
  <2>2. x[2] + 1 \in 1..Len(c) /\ x[2] \in 0..(Len(d) - 1)
    BY <1>1, <2>1
  <2>3. d[x[2] + 1] = c[x[2] + 1]
    BY <2>2 DEF Extends
  <2> QED
    BY <2>1, <2>2, <2>3 DEF Sequenced
<1>3. ASSUME NEW x \in Sequenced(d)
      PROVE  x \in Sequenced(c) \/ (x \in P /\ x[2] >= Len(c))
  <2>1. x[2] \in Nat /\ x[2] < Len(d) /\ x = <<d[x[2] + 1], x[2]>>
    BY <1>3, InSequenced
  <2> DEFINE k == x[2]
  <2>2. k + 1 \in 1..Len(d) /\ (k + 1) - 1 = k /\ k \in Nat
    BY <1>1, <2>1
  <2>3. CASE k < Len(c)
    <3>1. k + 1 \in 1..Len(c)
      BY <1>1, <2>2, <2>3
    <3>2. d[k + 1] = c[k + 1] /\ <<c[k + 1], (k + 1) - 1>> \in Sequenced(c)
      BY <3>1, InSequenced DEF Extends
    <3> QED
      BY <2>1, <2>2, <3>2
  <2>4. CASE k >= Len(c)
    <3>1. <<d[k + 1], (k + 1) - 1>> \in P
      BY <1>1, <2>2, <2>4
    <3> QED
      BY <2>1, <2>2, <2>4, <3>1
  <2> QED
    BY <1>1, <2>2, <2>3, <2>4
<1> QED
  BY <1>2, <1>3

\* Nothing is lost from the books when messages and logs are.
LEMMA BooksSame ==
    ASSUME NEW R, NEW P, NEW c, Books(R, P, c), NEW P2, P2 \subseteq P, NEW R2,
           \A q \in Replicas : /\ R2[q].applied = R[q].applied /\ R2[q].journal = R[q].journal
                               /\ R2[q].waiters = R[q].waiters /\ R2[q].calls = R[q].calls
    PROVE  Books(R2, P2, c)
<1>1. \A x, y \in P2 \cup Sequenced(c) : x[1] = y[1] => x[2] = y[2]
  BY DEF Books
<1>2. \A x \in P2 \cup Sequenced(c) : \E i \in Replicas : x[1] \in DOMAIN R2[i].calls
  <2> SUFFICES ASSUME NEW x \in P2 \cup Sequenced(c)
               PROVE  \E i \in Replicas : x[1] \in DOMAIN R2[i].calls
    OBVIOUS
  <2>1. PICK i \in Replicas : x[1] \in DOMAIN R[i].calls
    BY DEF Books
  <2> QED
    BY <2>1
<1>3. \A i \in Replicas : /\ WaitersKept(R2[i], P2 \cup Sequenced(c))
                          /\ CallsKept(R2[i], P2 \cup Sequenced(c), c)
  <2> SUFFICES ASSUME NEW i \in Replicas
               PROVE  /\ WaitersKept(R2[i], P2 \cup Sequenced(c))
                      /\ CallsKept(R2[i], P2 \cup Sequenced(c), c)
    OBVIOUS
  <2>1. WaitersKept(R[i], P \cup Sequenced(c)) /\ CallsKept(R[i], P \cup Sequenced(c), c)
    BY DEF Books
  <2>2. WaitersKept(R2[i], P2 \cup Sequenced(c))
    BY <2>1 DEF WaitersKept
  <2>3. CallsKept(R2[i], P2 \cup Sequenced(c), c)
    BY <2>1 DEF CallsKept
  <2> QED
    BY <2>2, <2>3
<1>4. Recorded(R2, c)
  <2>1. Recorded(R, c)
    BY DEF Books
  <2> QED
    BY <2>1 DEF Recorded
<1> QED
  BY <1>1, <1>2, <1>3, <1>4 DEF Books

\* More requests of the logs are chosen.
LEMMA BooksExtends ==
    ASSUME NEW R, NEW P, NEW c \in Seq(Requests), Books(R, P, c), NEW d \in Seq(Requests),
           Extends(d, c), \A k \in 1..Len(d) : k <= Len(c) \/ <<d[k], k - 1>> \in P,
           \A q \in Replicas : R[q].applied \in 0..Len(c), \A x \in P : x[2] \in Nat
    PROVE  Books(R, P, d)
<1>1. /\ Len(c) \in Nat /\ Len(d) \in Nat /\ Len(c) <= Len(d)
      /\ \A q \in Replicas : \A k \in 1..R[q].applied : d[k] = c[k]
  <2>1. Len(c) \in Nat /\ Len(d) \in Nat /\ Len(c) <= Len(d)
    BY LenProperties DEF Extends
  <2>2. \A q \in Replicas : \A k \in 1..R[q].applied : k \in 1..Len(c)
    BY <2>1
  <2> QED
    BY <2>1, <2>2 DEF Extends
<1>2. P \cup Sequenced(d) = P \cup Sequenced(c)
  BY SequencedMore
<1>3. ASSUME NEW i \in Replicas
      PROVE  CallsKept(R[i], P \cup Sequenced(c), d)
  <2>1. CallsKept(R[i], P \cup Sequenced(c), c)
    BY DEF Books
  <2> SUFFICES ASSUME NEW v \in DOMAIN R[i].calls
               PROVE  /\ R[i].calls[v] # NoReply => \E k \in 1..R[i].applied : R[i].calls[v] = d[k]
                      /\ R[i].calls[v] \notin {v, NoReply} =>
                            \A x \in P \cup Sequenced(c) :
                               x[1] = v => x[2] \in 0..(R[i].applied - 1) /\ x \notin Sequenced(d)
    BY DEF CallsKept
  <2>2. R[i].calls[v] # NoReply => \E k \in 1..R[i].applied : R[i].calls[v] = d[k]
    BY <1>1, <2>1 DEF CallsKept
  <2>3. ASSUME R[i].calls[v] \notin {v, NoReply}, NEW x \in P \cup Sequenced(c), x[1] = v
        PROVE  x[2] \in 0..(R[i].applied - 1) /\ x \notin Sequenced(d)
    <3>1. x[2] \in 0..(R[i].applied - 1) /\ x \notin Sequenced(c)
      BY <2>1, <2>3 DEF CallsKept
    <3>2. x \notin Sequenced(d)
      <4> SUFFICES ASSUME x \in Sequenced(d)
                   PROVE  FALSE
        OBVIOUS
      <4>1. x[2] >= Len(c) /\ x[2] \in Nat
        BY <3>1, SequencedMore, InSequenced
      <4> QED
        BY <1>1, <3>1, <4>1
    <3>3. x[2] \in Nat
      BY InSequenced
    <3> QED
      BY <1>1, <3>1, <3>2, <3>3
  <2> QED
    BY <2>2, <2>3
<1>4. Recorded(R, d)
  BY <1>1 DEF Books, Recorded
<1> QED
  BY <1>2, <1>3, <1>4 DEF Books

\* A request is submitted.
LEMMA BooksEnqueue ==
    ASSUME NEW R, NEW P, NEW c, Books(R, P, c), NEW i \in Replicas, NEW v \in Requests, NEW e,
           \A q \in Replicas : v \notin DOMAIN R[q].calls,
           NEW R2, \A q \in Replicas \ {i} : R2[q] = R[q],
           R2[i].applied = R[i].applied, R2[i].journal = R[i].journal,
           R2[i].waiters = [k \in DOMAIN R[i].waiters \cup {e} |-> IF k = e THEN v ELSE R[i].waiters[k]],
           R2[i].calls = [w \in DOMAIN R[i].calls \cup {v} |-> IF w = v THEN NoReply ELSE R[i].calls[w]]
    PROVE  Books(R2, P \cup {<<v, e>>}, c)
<1> DEFINE A == P \cup Sequenced(c)
           B == A \cup {<<v, e>>}
           s == R[i]
           t == R2[i]
<1>1. /\ \A x, y \in A : x[1] = y[1] => x[2] = y[2]
      /\ \A x \in A : \E q \in Replicas : x[1] \in DOMAIN R[q].calls
      /\ \A q \in Replicas : WaitersKept(R[q], A) /\ CallsKept(R[q], A, c)
      /\ Recorded(R, c)
  BY DEF Books
<1>2. (P \cup {<<v, e>>}) \cup Sequenced(c) = B
  OBVIOUS
<1>3. \A x \in B : x[1] # v => x \in A
  OBVIOUS
<1>4. \A x \in A : x[1] # v
  BY <1>1
<1>5. \A x \in B : x[1] = v => x[2] = e
  <2>1. \A x \in B : x \in A \/ x = <<v, e>>
    OBVIOUS
  <2> HIDE DEF A, B
  <2> QED
    BY <1>4, <2>1
<1>6. DOMAIN t.calls = DOMAIN s.calls \cup {v} /\ t.calls[v] = NoReply
      /\ \A w \in DOMAIN s.calls : w # v /\ t.calls[w] = s.calls[w]
  OBVIOUS
<1>7. DOMAIN t.waiters = DOMAIN s.waiters \cup {e} /\ t.waiters[e] = v
      /\ \A k \in DOMAIN s.waiters : k # e => t.waiters[k] = s.waiters[k]
  OBVIOUS
<1>8. \A q \in Replicas : q # i => R2[q] = R[q]
  OBVIOUS
<1>9. t.applied = s.applied /\ t.journal = s.journal
  OBVIOUS
<1> HIDE DEF A, B, s, t
<1>10. \A x, y \in B : x[1] = y[1] => x[2] = y[2]
  BY <1>1, <1>3, <1>5
<1>11. \A x \in B : \E q \in Replicas : x[1] \in DOMAIN R2[q].calls
  <2> SUFFICES ASSUME NEW x \in B
               PROVE  \E q \in Replicas : x[1] \in DOMAIN R2[q].calls
    OBVIOUS
  <2>1. CASE x[1] = v
    BY <1>6, <2>1 DEF t
  <2>2. CASE x[1] # v
    <3>1. PICK q \in Replicas : x[1] \in DOMAIN R[q].calls
      BY <1>1, <1>3, <2>2
    <3>2. CASE q = i
      BY <1>6, <3>1, <3>2 DEF s, t
    <3>3. CASE q # i
      BY <1>8, <3>1, <3>3
    <3> QED
      BY <3>2, <3>3
  <2> QED
    BY <2>1, <2>2
<1>12. ASSUME NEW q \in Replicas
       PROVE  WaitersKept(R2[q], B) /\ CallsKept(R2[q], B, c)
  <2>1. WaitersKept(R[q], A) /\ CallsKept(R[q], A, c) /\ v \notin DOMAIN R[q].calls
    BY <1>1
  <2>2. CASE q # i
    <3>1. R2[q] = R[q]
      BY <1>8, <2>2
    <3>2. WaitersKept(R[q], B)
      BY <1>3, <2>1 DEF WaitersKept
    <3>3. CallsKept(R[q], B, c)
      BY <1>3, <2>1 DEF CallsKept
    <3> QED
      BY <3>1, <3>2, <3>3
  <2>3. CASE q = i
    <3>1. WaitersKept(s, A) /\ CallsKept(s, A, c)
      BY <2>1, <2>3 DEF s
    <3>2. WaitersKept(t, B)
      <4> SUFFICES ASSUME NEW k \in DOMAIN t.waiters
                   PROVE  /\ t.waiters[k] \in DOMAIN t.calls
                          /\ \A x \in B : x[1] = t.waiters[k] => x[2] = k
        BY DEF WaitersKept
      <4>1. CASE k = e
        BY <1>5, <1>6, <1>7, <4>1
      <4>2. CASE k # e
        <5>1. k \in DOMAIN s.waiters /\ t.waiters[k] = s.waiters[k]
          BY <1>7, <4>2
        <5>2. /\ s.waiters[k] \in DOMAIN s.calls
              /\ \A x \in A : x[1] = s.waiters[k] => x[2] = k
          BY <3>1, <5>1 DEF WaitersKept
        <5>3. s.waiters[k] # v
          BY <1>6, <5>2
        <5> QED
          BY <1>3, <1>6, <5>1, <5>2, <5>3
      <4> QED
        BY <4>1, <4>2
    <3>3. CallsKept(t, B, c)
      <4> SUFFICES ASSUME NEW w \in DOMAIN t.calls
                   PROVE  /\ t.calls[w] # NoReply => \E k \in 1..t.applied : t.calls[w] = c[k]
                          /\ t.calls[w] \notin {w, NoReply} =>
                                \A x \in B : x[1] = w =>
                                   x[2] \in 0..(t.applied - 1) /\ x \notin Sequenced(c)
        BY DEF CallsKept
      <4>1. CASE w = v
        BY <1>6, <4>1
      <4>2. CASE w # v
        <5>1. w \in DOMAIN s.calls /\ t.calls[w] = s.calls[w]
          BY <1>6, <4>2
        <5> QED
          BY <1>3, <1>9, <3>1, <4>2, <5>1 DEF CallsKept
      <4> QED
        BY <4>1, <4>2
    <3> QED
      BY <2>3, <3>2, <3>3 DEF t
  <2> QED
    BY <2>2, <2>3
<1>13. Recorded(R2, c)
  <2>1. \A q \in Replicas : R2[q].applied = R[q].applied /\ R2[q].journal = R[q].journal
    BY <1>8, <1>9 DEF s, t
  <2> QED
    BY <1>1, <2>1 DEF Recorded
<1>14. Books(R2, P \cup {<<v, e>>}, c) <=>
          /\ \A x, y \in B : x[1] = y[1] => x[2] = y[2]
          /\ \A x \in B : \E q \in Replicas : x[1] \in DOMAIN R2[q].calls
          /\ \A q \in Replicas : WaitersKept(R2[q], B) /\ CallsKept(R2[q], B, c)
          /\ Recorded(R2, c)
  BY <1>2 DEF Books
<1> QED
  BY <1>10, <1>11, <1>12, <1>13, <1>14

\* A new leader has applied no more than some replica had.
LEMMA BooksAdopt ==
    ASSUME NEW R, NEW P, NEW c, Books(R, P, c), NEW i \in Replicas,
           NEW R2, \A q \in Replicas \ {i} : R2[q] = R[q],
           \A q \in Replicas : R[q].applied \in Nat, R2[i].applied \in Nat,
           R2[i].applied >= R[i].applied, \E j \in Replicas : R2[i].applied <= R[j].applied,
           R2[i].journal = R[i].journal, R2[i].waiters = R[i].waiters, R2[i].calls = R[i].calls
    PROVE  Books(R2, P, c)
<1> DEFINE A == P \cup Sequenced(c)
<1>1. /\ \A x, y \in A : x[1] = y[1] => x[2] = y[2]
      /\ \A x \in A : \E q \in Replicas : x[1] \in DOMAIN R[q].calls
      /\ \A q \in Replicas : WaitersKept(R[q], A) /\ CallsKept(R[q], A, c)
      /\ Recorded(R, c)
  BY DEF Books
<1>2. \A q \in Replicas : /\ R2[q].calls = R[q].calls /\ R2[q].waiters = R[q].waiters
                          /\ R2[q].journal = R[q].journal
                          /\ R2[q].applied \in Nat /\ R2[q].applied >= R[q].applied
  OBVIOUS
<1> HIDE DEF A
<1>3. \A x \in A : \E q \in Replicas : x[1] \in DOMAIN R2[q].calls
  <2> SUFFICES ASSUME NEW x \in A
               PROVE  \E q \in Replicas : x[1] \in DOMAIN R2[q].calls
    OBVIOUS
  <2>1. PICK q \in Replicas : x[1] \in DOMAIN R[q].calls
    BY <1>1
  <2> QED
    BY <1>2, <2>1
<1>4. \A q \in Replicas : WaitersKept(R2[q], A)
  BY <1>1, <1>2 DEF WaitersKept
<1>5. ASSUME NEW q \in Replicas
      PROVE  CallsKept(R2[q], A, c)
  <2>1. CallsKept(R[q], A, c)
    BY <1>1
  <2>2. \A k \in 1..R[q].applied : k \in 1..R2[q].applied
    BY <1>2
  <2>3. R2[q].calls = R[q].calls
    BY <1>2
  <2> SUFFICES ASSUME NEW v \in DOMAIN R[q].calls
               PROVE  /\ R[q].calls[v] # NoReply => \E k \in 1..R2[q].applied : R[q].calls[v] = c[k]
                      /\ R[q].calls[v] \notin {v, NoReply} =>
                            \A x \in A : x[1] = v => x[2] \in 0..(R2[q].applied - 1)
                                                     /\ x \notin Sequenced(c)
    BY <2>3 DEF CallsKept
  <2>4. \A k \in 0..(R[q].applied - 1) : k \in 0..(R2[q].applied - 1)
    BY <1>2
  <2> QED
    BY <2>1, <2>2, <2>4 DEF CallsKept
<1>6. Recorded(R2, c)
  <2> SUFFICES ASSUME NEW q \in Replicas, NEW k \in 1..R2[q].applied
               PROVE  \E j \in Replicas : Contains(R2[j].journal, c[k])
    BY DEF Recorded
  <2>1. \E p \in Replicas : k \in 1..R[p].applied
    <3>1. CASE q # i
      BY <3>1
    <3>2. CASE q = i
      <4>1. PICK j \in Replicas : R2[i].applied <= R[j].applied
        OBVIOUS
      <4>2. R2[i].applied \in Nat /\ R[j].applied \in Nat
        OBVIOUS
      <4> QED
        BY <3>2, <4>1, <4>2
    <3> QED
      BY <3>1, <3>2
  <2>2. PICK j \in Replicas : Contains(R[j].journal, c[k])
    BY <1>1, <2>1 DEF Recorded
  <2> QED
    BY <1>2, <2>2
<1> QED
  BY <1>1, <1>3, <1>4, <1>5, <1>6 DEF Books, A

\* What applying the next slots adds, slot by slot.
LEMMA AppliesSlots ==
    ASSUME NEW i \in Replicas, NEW s \in ReplicaRecord, NEW t, Applied(i, s, t),
           s.base <= s.applied, s.applied <= LogEnd(s), NEW c \in Seq(Requests),
           t.applied <= Len(c), s.db = SubSeq(c, 1, s.applied), t.db = SubSeq(c, 1, t.applied)
    PROVE  /\ t.applied \in Nat /\ s.applied <= t.applied
           /\ \A k \in Nat : s.applied <= k /\ k < t.applied =>
                /\ At(Held(s), k) = c[k + 1]
                /\ Contains(t.journal, c[k + 1])
           /\ \A v : Contains(s.journal, v) => Contains(t.journal, v)
<1> DEFINE new == Unapplied(s, t.applied)
           a == s.applied
           b == t.applied
           old == s.journal
<1>1. /\ t \in ReplicaRecord /\ b = MaxOf(a, MinOf(t.decided, LogEnd(s)))
      /\ t.db = s.db \o new /\ t.journal = old \o new
  BY DEF Applied
<1>2. /\ t.decided \in Nat /\ a \in Nat /\ b \in Nat /\ LogEnd(s) \in Nat
      /\ s.db \in Seq(Requests) /\ old \in Seq(Requests) /\ Len(old) \in Nat /\ Len(c) \in Nat
  BY <1>1, ReplicaFields, LenProperties
<1>3. a <= b /\ (b <= LogEnd(s) \/ b = a)
  <2> DEFINE e == LogEnd(s)
             d == t.decided
  <2>1. b = MaxOf(a, MinOf(d, e)) /\ a \in Nat /\ d \in Nat /\ e \in Nat
    BY <1>1, <1>2
  <2> HIDE DEF a, b, d, e
  <2>2. a <= b /\ (b <= e \/ b = a)
    BY <2>1 DEF MaxOf, MinOf
  <2> QED
    BY <2>2 DEF e
<1>4. /\ new \in Seq(Requests) /\ Len(new) = b - a
      /\ \A k \in a..(b - 1) : new[k - a + 1] = At(Held(s), k)
  BY <1>2, <1>3, UnappliedIs
<1>5. Len(s.db) = a /\ \A k \in 1..b : t.db[k] = c[k]
  <2>1. a <= Len(c) /\ b <= Len(c)
    BY <1>2, <1>3
  <2>2. Len(SubSeq(c, 1, a)) = a
    BY <1>2, <2>1, SubSeqProperties
  <2>3. \A k \in 1..b : SubSeq(c, 1, b)[k] = c[k]
    BY <1>2, <2>1, SubSeqProperties
  <2> QED
    BY <2>2, <2>3
<1>6. /\ \A k \in 1..b : t.db[k] = IF k <= a THEN s.db[k] ELSE new[k - a]
      /\ Len(t.journal) = Len(old) + (b - a)
      /\ \A k \in 1..(Len(old) + (b - a)) :
            t.journal[k] = IF k <= Len(old) THEN old[k] ELSE new[k - Len(old)]
  <2>1. Len(s.db) + Len(new) = b
    <3> HIDE DEF a, b, new
    <3> QED
      BY <1>2, <1>4, <1>5
  <2>2. \A k \in 1..(Len(s.db) + Len(new)) : (s.db \o new)[k] = IF k <= Len(s.db) THEN s.db[k] ELSE new[k - Len(s.db)]
    BY <1>2, <1>4, ConcatProperties
  <2>3. /\ Len(old \o new) = Len(old) + Len(new)
        /\ \A k \in 1..(Len(old) + Len(new)) : (old \o new)[k] = IF k <= Len(old) THEN old[k] ELSE new[k - Len(old)]
    <3>1. old \in Seq(Requests) /\ new \in Seq(Requests)
      BY <1>2, <1>4
    <3> HIDE DEF old, new
    <3> QED
      BY <3>1, ConcatProperties
  <2> QED
    BY <1>1, <1>4, <1>5, <2>1, <2>2, <2>3
<1> HIDE DEF new, a, b, old
<1>7. ASSUME NEW k \in Nat, a <= k, k < b
      PROVE  At(Held(s), k) = c[k + 1] /\ Contains(t.journal, c[k + 1])
  <2>1. k \in a..(b - 1) /\ k + 1 \in 1..b /\ ~(k + 1 <= a) /\ k - a + 1 = (k + 1) - a
    BY <1>2, <1>7
  <2>2. new[(k + 1) - a] = c[k + 1]
    BY <1>5, <1>6, <2>1
  <2>3. At(Held(s), k) = c[k + 1]
    BY <1>4, <2>1, <2>2
  <2> DEFINE l == Len(old) + ((k + 1) - a)
  <2>4. l \in 1..(Len(old) + (b - a)) /\ ~(l <= Len(old)) /\ l - Len(old) = (k + 1) - a
    BY <1>2, <2>1
  <2> HIDE DEF l
  <2>5. l \in 1..Len(t.journal) /\ t.journal[l] = c[k + 1]
    BY <1>6, <2>2, <2>4
  <2> QED
    BY <2>3, <2>5 DEF Contains
<1>8. ASSUME NEW v, Contains(old, v)
      PROVE  Contains(t.journal, v)
  <2>1. PICK k \in 1..Len(old) : old[k] = v
    BY <1>8 DEF Contains
  <2>2. k \in 1..(Len(old) + (b - a)) /\ k <= Len(old)
    BY <1>2, <1>3, <2>1
  <2>3. k \in 1..Len(t.journal) /\ t.journal[k] = v
    BY <1>6, <2>1, <2>2
  <2> QED
    BY <2>3 DEF Contains
<1> QED
  BY <1>2, <1>3, <1>7, <1>8 DEF a, b, old

\* The waiting calls of the slots that are applied are answered.
LEMMA BooksApplied ==
    ASSUME NEW R, NEW P, NEW c \in Seq(Requests), Books(R, P, c), NEW i \in Replicas,
           NEW R2, \A q \in Replicas \ {i} : R2[q] = R[q],
           R[i] \in ReplicaRecord, Applied(i, R[i], R2[i]),
           R[i].base <= R[i].applied, R[i].applied <= LogEnd(R[i]),
           R2[i].applied <= Len(c), R[i].db = SubSeq(c, 1, R[i].applied),
           R2[i].db = SubSeq(c, 1, R2[i].applied)
    PROVE  Books(R2, P, c)
<1> DEFINE A == P \cup Sequenced(c)
           s == R[i]
           t == R2[i]
<1>1. /\ \A x, y \in A : x[1] = y[1] => x[2] = y[2]
      /\ \A x \in A : \E q \in Replicas : x[1] \in DOMAIN R[q].calls
      /\ \A q \in Replicas : WaitersKept(R[q], A) /\ CallsKept(R[q], A, c)
      /\ Recorded(R, c)
  BY DEF Books
<1>2. /\ t.applied \in Nat /\ s.applied <= t.applied /\ s.applied \in Nat
      /\ \A k \in Nat : s.applied <= k /\ k < t.applied =>
            At(Held(s), k) = c[k + 1] /\ Contains(t.journal, c[k + 1])
      /\ \A v : Contains(s.journal, v) => Contains(t.journal, v)
  <2>1. /\ s \in ReplicaRecord /\ Applied(i, s, t) /\ s.base <= s.applied /\ s.applied <= LogEnd(s)
        /\ t.applied <= Len(c) /\ s.db = SubSeq(c, 1, s.applied) /\ t.db = SubSeq(c, 1, t.applied)
    OBVIOUS
  <2> HIDE DEF s, t
  <2> QED
    BY <2>1, AppliesSlots, ReplicaFields
<1>3. Answered(s, t) /\ s.waiters \in WaiterTable
  BY DEF Applied, ReplicaRecord
<1>4. DOMAIN s.waiters \subseteq Nat
  BY <1>3, WaiterTableIs
<1>5. \A q \in Replicas : q # i => R2[q] = R[q]
  OBVIOUS
<1>6. t.applied <= Len(c) /\ Len(c) \in Nat
  BY LenProperties
<1>7. \A x \in Sequenced(c) : x[1] = c[x[2] + 1]
  BY InSequenced
<1>8. WaitersKept(s, A) /\ CallsKept(s, A, c)
  BY <1>1
<1>9. DOMAIN t.calls = DOMAIN s.calls
  BY <1>3 DEF Answered
<1> HIDE DEF A, s, t
<1>10. \A x \in A : \E q \in Replicas : x[1] \in DOMAIN R2[q].calls
  <2> SUFFICES ASSUME NEW x \in A
               PROVE  \E q \in Replicas : x[1] \in DOMAIN R2[q].calls
    OBVIOUS
  <2>1. PICK q \in Replicas : x[1] \in DOMAIN R[q].calls
    BY <1>1
  <2> QED
    BY <1>5, <1>9, <2>1 DEF s, t
<1>11. WaitersKept(t, A)
  <2> SUFFICES ASSUME NEW k \in DOMAIN t.waiters
               PROVE  /\ t.waiters[k] \in DOMAIN t.calls
                      /\ \A x \in A : x[1] = t.waiters[k] => x[2] = k
    BY DEF WaitersKept
  <2>1. k \in DOMAIN s.waiters /\ t.waiters[k] = s.waiters[k]
    BY <1>3 DEF Answered
  <2> QED
    BY <1>8, <1>9, <2>1 DEF WaitersKept
<1>12. CallsKept(t, A, c)
  <2> SUFFICES ASSUME NEW v \in DOMAIN s.calls
               PROVE  /\ t.calls[v] # NoReply => \E k \in 1..t.applied : t.calls[v] = c[k]
                      /\ t.calls[v] \notin {v, NoReply} =>
                            \A x \in A : x[1] = v =>
                               x[2] \in 0..(t.applied - 1) /\ x \notin Sequenced(c)
    BY <1>9 DEF CallsKept
  <2>1. CASE t.calls[v] = s.calls[v]
    <3>1. /\ \A k \in 1..s.applied : k \in 1..t.applied
          /\ \A k \in 0..(s.applied - 1) : k \in 0..(t.applied - 1)
      BY <1>2
    <3> QED
      BY <1>8, <2>1, <3>1 DEF CallsKept
  <2>2. ASSUME NEW k \in DOMAIN s.waiters, s.applied <= k, k < t.applied, s.waiters[k] = v,
               t.calls[v] = At(Held(s), k)
        PROVE  /\ \E l \in 1..t.applied : t.calls[v] = c[l]
               /\ t.calls[v] # v => \A x \in A : x[1] = v =>
                                       x[2] \in 0..(t.applied - 1) /\ x \notin Sequenced(c)
    <3>1. k \in Nat /\ t.calls[v] = c[k + 1]
      BY <1>2, <1>4, <2>2
    <3>2. k + 1 \in 1..t.applied
      BY <1>2, <2>2, <3>1
    <3>3. ASSUME t.calls[v] # v, NEW x \in A, x[1] = v
          PROVE  x[2] \in 0..(t.applied - 1) /\ x \notin Sequenced(c)
      <4>1. x[2] = k
        BY <1>8, <2>2, <3>3 DEF WaitersKept
      <4>2. x \notin Sequenced(c)
        BY <1>7, <3>1, <3>3, <4>1
      <4> QED
        BY <1>2, <1>6, <2>2, <3>1, <4>1, <4>2
    <3> QED
      BY <3>1, <3>2, <3>3
  <2>3. \/ t.calls[v] = s.calls[v]
        \/ \E k \in DOMAIN s.waiters : /\ s.applied <= k /\ k < t.applied /\ s.waiters[k] = v
                                        /\ t.calls[v] = At(Held(s), k)
    BY <1>3 DEF Answered
  <2> QED
    BY <2>1, <2>2, <2>3
<1>13. Recorded(R2, c)
  <2> SUFFICES ASSUME NEW q \in Replicas, NEW k \in 1..R2[q].applied
               PROVE  \E j \in Replicas : Contains(R2[j].journal, c[k])
    BY DEF Recorded
  <2>1. ASSUME NEW p \in Replicas, k \in 1..R[p].applied
        PROVE  \E j \in Replicas : Contains(R2[j].journal, c[k])
    <3>1. PICK j \in Replicas : Contains(R[j].journal, c[k])
      BY <1>1, <2>1 DEF Recorded
    <3> QED
      BY <1>2, <1>5, <3>1 DEF s, t
  <2>2. CASE q # i
    BY <1>5, <2>1, <2>2
  <2>3. CASE q = i /\ ~(k <= s.applied)
    <3>1. k \in 1..t.applied
      BY <2>3 DEF t
    <3>2. k - 1 \in Nat /\ s.applied <= k - 1 /\ k - 1 < t.applied /\ (k - 1) + 1 = k
      BY <1>2, <2>3, <3>1
    <3>3. Contains(t.journal, c[k])
      BY <1>2, <3>2
    <3> QED
      BY <3>3 DEF t
  <2>4. CASE q = i /\ k <= s.applied
    <3>1. k \in 1..s.applied
      BY <1>2, <2>4
    <3> QED
      BY <2>1, <3>1 DEF s
  <2> QED
    BY <2>2, <2>3, <2>4
<1>14. ASSUME NEW q \in Replicas
       PROVE  WaitersKept(R2[q], A) /\ CallsKept(R2[q], A, c)
  <2>1. CASE q = i
    BY <1>11, <1>12, <2>1 DEF t
  <2>2. CASE q # i
    BY <1>1, <1>5, <2>2
  <2> QED
    BY <2>1, <2>2
<1>15. Books(R2, P, c) <=>
          /\ \A x, y \in A : x[1] = y[1] => x[2] = y[2]
          /\ \A x \in A : \E q \in Replicas : x[1] \in DOMAIN R2[q].calls
          /\ \A q \in Replicas : WaitersKept(R2[q], A) /\ CallsKept(R2[q], A, c)
          /\ Recorded(R2, c)
  BY DEF Books, A
<1> QED
  BY <1>1, <1>10, <1>13, <1>14, <1>15

\* The fields that hold of every replica.
LEMMA StateFields ==
    ASSUME NEW R, NEW W, NEW c, Core(R, W, c), NEW q \in Replicas
    PROVE  /\ Typed(R, W) /\ R[q] \in ReplicaRecord /\ c \in Seq(Requests) /\ Len(c) \in Nat
           /\ R[q].applied \in 0..Len(c) /\ R[q].base <= R[q].applied /\ R[q].applied <= LogEnd(R[q])
           /\ R[q].applied <= R[q].decided
           /\ R[q].db = SubSeq(c, 1, R[q].applied) /\ Held(R[q]) \in Logs(R, W) /\ Held(R[q]) \in Log
<1>1. Typed(R, W) /\ R[q] \in ReplicaRecord /\ c \in Seq(Requests) /\ ReplicaIndices(R[q], c)
  BY RecordAt DEF Core, Indices
<1>2. R[q].applied \in Nat /\ R[q].decided \in Nat /\ Len(c) \in Nat
  BY <1>1, ReplicaFields, LenProperties
<1> QED
  BY <1>1, <1>2, InLogs, ReplicaFields DEF ReplicaIndices

\* Slots are numbers.
LEMMA PlacesNat ==
    ASSUME NEW R, NEW W, Typed(R, W), NEW x \in Places(R, W)
    PROVE  x[2] \in Nat
<1>1. PICK t \in Logs(R, W) : \E k \in Slots(t) : x = <<At(t, k), k>>
  BY InPlaces
<1> QED
  BY <1>1, LogTypes, LogFields

\* A step of i that leaves the books alone and writes no request to a new place.
LEMMA StateSame ==
    ASSUME NEW R, NEW W, NEW c, State(R, W, c), NEW i \in Replicas,
           NEW R2, \A q \in Replicas \ {i} : R2[q] = R[q], Core(R2, W, c),
           R2[i].applied = R[i].applied, R2[i].journal = R[i].journal,
           R2[i].waiters = R[i].waiters, R2[i].calls = R[i].calls,
           \A k \in Slots(Held(R2[i])) : <<At(Held(R2[i]), k), k>> \in Places(R, W),
           \A k \in DOMAIN R2[i].prepares : \/ R2[i].prepares[k] \in Reports(R, W)
                                            \/ Reported(R2[i].prepares[k]) = Held(R[i])
    PROVE  State(R2, W, c)
<1>1. Places(R2, W) \subseteq Places(R, W)
  <2>1. Typed(R, W)
    BY DEF State, Core
  <2> QED
    BY <2>1, PlacesStep
<1>2. \A q \in Replicas : /\ R2[q].applied = R[q].applied /\ R2[q].journal = R[q].journal
                          /\ R2[q].waiters = R[q].waiters /\ R2[q].calls = R[q].calls
  <2> TAKE q \in Replicas
  <2>1. CASE q = i
    BY <2>1
  <2>2. CASE q # i
    <3>1. R2[q] = R[q]
      BY <2>2
    <3> QED
      BY <3>1
  <2> QED
    BY <2>1, <2>2
<1>3. Books(R, Places(R, W), c)
  BY DEF State
<1>4. Books(R2, Places(R2, W), c)
  BY <1>1, <1>2, <1>3, BooksSame
<1> QED
  BY <1>4 DEF State

\* Where a log only loses its first entries, no request is at a new place.
LEMMA SuffixState ==
    ASSUME NEW R, NEW W, NEW c, State(R, W, c), NEW i \in Replicas,
           NEW t \in ReplicaRecord, Suffix(Held(t), Held(R[i])), NEW k \in Slots(Held(t))
    PROVE  <<At(Held(t), k), k>> \in Places(R, W)
BY StateFields, ReplicaFields, SuffixPlaces DEF State

\* Messages.
LEMMA StatePosts ==
    ASSUME NEW R, NEW W, NEW c, State(R, W, c), NEW W2,
           \A p, q \in Replicas : \A m \in W2[p][q] : m \in W[p][q] \/ Posted(R, p, q, m)
    PROVE  State(R, W2, c)
<1>1. Core(R, W, c) /\ Books(R, Places(R, W), c)
  BY DEF State
<1>2. Places(R, W2) \subseteq Places(R, W)
  BY <1>1, PlacesPosted
<1>3. Books(R, Places(R, W2), c)
  BY <1>1, <1>2, BooksSame
<1>4. Core(R, W2, c)
  BY <1>1, Posts
<1> QED
  BY <1>3, <1>4 DEF State

\* Tallied speaks of the acknowledgments and of what is decided.
LEMMA TalliedSame ==
    ASSUME NEW s \in ReplicaRecord, NEW t \in ReplicaRecord, Tallied(s), t.acks = s.acks,
           t.decided >= s.decided
    PROVE  Tallied(t)
<1> SUFFICES ASSUME N > 1
             PROVE  (\E n \in Nat : \A q \in Replicas : t.acks[q] <= n) /\ QuorumAcked(t) <= t.decided
  BY DEF Tallied
<1>1. PICK n \in Nat : \A q \in Replicas : s.acks[q] <= n
  BY DEF Tallied
<1>2. QuorumAcked(s) \in Nat
  BY <1>1, QuorumAckedIs
<1>3. QuorumAcked(t) = QuorumAcked(s)
  BY DEF QuorumAcked, AckedBy
<1>4. s.decided \in Nat /\ t.decided \in Nat /\ QuorumAcked(s) <= s.decided
  BY ReplicaFields DEF Tallied
<1>5. QuorumAcked(t) <= t.decided
  BY <1>2, <1>3, <1>4
<1> QED
  BY <1>1, <1>5

\* What apply_decided has seen acknowledged is decided.
LEMMA AppliedTallied ==
    ASSUME NEW i \in Replicas, NEW s \in ReplicaRecord, NEW t, Applied(i, s, t),
           NEW n \in Nat, \A q \in Replicas : s.acks[q] <= n
    PROVE  /\ Tallied(t) /\ t.applied >= s.applied /\ t.decided >= s.decided
<1>1. QuorumAcked(s) \in Nat
  BY QuorumAckedIs
<1>2. t \in ReplicaRecord /\ t.acks = s.acks /\ t.decided = MaxOf(s.decided, QuorumAcked(s))
      /\ t.applied = MaxOf(s.applied, MinOf(t.decided, LogEnd(s)))
  BY DEF Applied, SameRole
<1>3. s.decided \in Nat /\ t.decided \in Nat /\ s.applied \in Nat /\ LogEnd(s) \in Nat
  BY <1>2, ReplicaFields
<1>4. QuorumAcked(t) = QuorumAcked(s)
  BY <1>2 DEF QuorumAcked, AckedBy
<1>5. QuorumAcked(t) <= t.decided /\ t.decided >= s.decided /\ t.applied >= s.applied
  BY <1>1, <1>2, <1>3, <1>4 DEF MaxOf, MinOf
<1> QED
  BY <1>2, <1>5 DEF Tallied

\* A leader applies.
LEMMA LeaderState ==
    ASSUME NEW R, NEW W, NEW c, State(R, W, c), NEW i \in Replicas, Leads(R, i),
           NEW R2, Becomes(R, R2, i, ApplyDecided(i, R[i]))
    PROVE  /\ \E d \in Seq(Requests) : Extends(d, c) /\ State(R2, W, d)
           /\ Tallied(R2[i]) /\ SameRole(R[i], R2[i])
           /\ R2[i].applied >= R[i].applied
<1> DEFINE P == Places(R, W)
<1>1. Core(R, W, c) /\ Books(R, P, c)
  BY DEF State
<1>2. \A q \in Replicas :
           /\ Typed(R, W) /\ R[q] \in ReplicaRecord /\ c \in Seq(Requests) /\ Len(c) \in Nat
           /\ R[q].applied \in 0..Len(c) /\ R[q].base <= R[q].applied /\ R[q].applied <= LogEnd(R[q])
           /\ R[q].db = SubSeq(c, 1, R[q].applied)
  BY <1>1, StateFields
<1>3. Applied(i, R[i], R2[i])
  BY <1>1, LeaderApplies
<1>4. PICK d \in Seq(Requests) :
                /\ Extends(d, c) /\ Core(R2, W, d) /\ R2[i].db = SubSeq(d, 1, R2[i].applied)
                /\ \A k \in 1..Len(d) : \/ k <= Len(c)
                                        \/ \E t \in Logs(R, W) : k - 1 \in Slots(t) /\ At(t, k - 1) = d[k]
  BY <1>1, LeaderApplies
<1>5. \A q \in Replicas \ {i} : R2[q] = R[q]
  BY <1>2, OthersStay
<1>6. \A k \in 1..Len(d) : k <= Len(c) \/ <<d[k], k - 1>> \in P
  BY <1>4, InPlaces
<1>7. \A x \in P : x[2] \in Nat
  BY <1>2, PlacesNat
<1> HIDE DEF P
<1>8. Books(R, P, d)
  BY <1>1, <1>2, <1>4, <1>6, <1>7, BooksExtends
<1>9. R[i].db = SubSeq(d, 1, R[i].applied)
  <2> DEFINE a == R[i].applied
  <2>1. a \in Nat /\ a <= Len(c) /\ Len(c) <= Len(d) /\ \A k \in 1..a : d[k] = c[k]
    <3>1. a \in Nat /\ a <= Len(c) /\ Len(c) \in Nat
      BY <1>2
    <3>2. Len(c) <= Len(d) /\ \A k \in 1..Len(c) : d[k] = c[k]
      BY <1>4 DEF Extends
    <3> HIDE DEF a
    <3>3. \A k \in 1..a : k \in 1..Len(c)
      BY <3>1
    <3> QED
      BY <3>1, <3>2, <3>3
  <2>2. R[i].db = SubSeq(c, 1, a)
    BY <1>2
  <2> HIDE DEF a
  <2>3. SubSeq(c, 1, a) = SubSeq(d, 1, a)
    BY <1>2, <2>1
  <2> QED
    BY <2>2, <2>3 DEF a
<1>10. R2[i].applied <= Len(d)
  BY <1>4, StateFields
<1>11. Books(R2, P, d)
  BY <1>2, <1>3, <1>4, <1>5, <1>8, <1>9, <1>10, BooksApplied
<1>12. Places(R2, W) \subseteq P
  <2>1. R2[i] \in ReplicaRecord /\ Suffix(Held(R2[i]), Held(R[i])) /\ R2[i].prepares = R[i].prepares
    BY <1>3 DEF Applied, SameRole
  <2>2. \A k \in Slots(Held(R2[i])) : <<At(Held(R2[i]), k), k>> \in P
    BY <2>1, SuffixState DEF P
  <2>3. \A k \in DOMAIN R2[i].prepares : R2[i].prepares[k] \in Reports(R, W)
    BY <2>1, InReports
  <2> QED
    BY <1>2, <1>5, <2>2, <2>3, PlacesStep DEF P
<1>13. Books(R2, Places(R2, W), d)
  BY <1>11, <1>12, BooksSame
<1>14. LogEnd(R[i]) \in Nat /\ \A q \in Replicas : R[i].acks[q] <= LogEnd(R[i])
  BY <1>1, <1>2, ReplicaFields DEF Core, Indices, LeaderIndices
<1>15. Tallied(R2[i]) /\ R2[i].applied >= R[i].applied
  BY <1>2, <1>3, <1>14, AppliedTallied
<1> QED
  BY <1>3, <1>4, <1>13, <1>15 DEF State, Applied

\* A replica that does not lead applies.
LEMMA FollowerState ==
    ASSUME NEW R, NEW W, NEW c, State(R, W, c), NEW i \in Replicas, ~Leads(R, i), Tallied(R[i]),
           NEW R2, Becomes(R, R2, i, ApplyDecided(i, R[i]))
    PROVE  /\ State(R2, W, c) /\ Tallied(R2[i]) /\ SameRole(R[i], R2[i])
           /\ R2[i].applied >= R[i].applied
<1> DEFINE P == Places(R, W)
<1>1. Core(R, W, c) /\ Books(R, P, c)
  BY DEF State
<1>2. \A q \in Replicas :
           /\ Typed(R, W) /\ R[q] \in ReplicaRecord /\ c \in Seq(Requests) /\ Len(c) \in Nat
           /\ R[q].applied \in 0..Len(c) /\ R[q].base <= R[q].applied /\ R[q].applied <= LogEnd(R[q])
           /\ R[q].db = SubSeq(c, 1, R[q].applied)
  BY <1>1, StateFields
<1>3. /\ Applied(i, R[i], R2[i]) /\ Core(R2, W, c) /\ R2[i].db = SubSeq(c, 1, R2[i].applied)
  BY <1>1, FollowerApplies
<1>4. \A q \in Replicas \ {i} : R2[q] = R[q]
  BY <1>2, OthersStay
<1>5. R2[i].applied <= Len(c)
  BY <1>3, StateFields
<1> HIDE DEF P
<1>6. Books(R2, P, c)
  BY <1>1, <1>2, <1>3, <1>4, <1>5, BooksApplied
<1>7. Places(R2, W) \subseteq P
  <2>1. R2[i] \in ReplicaRecord /\ Suffix(Held(R2[i]), Held(R[i])) /\ R2[i].prepares = R[i].prepares
    BY <1>3 DEF Applied, SameRole
  <2>2. \A k \in Slots(Held(R2[i])) : <<At(Held(R2[i]), k), k>> \in P
    BY <2>1, SuffixState DEF P
  <2>3. \A k \in DOMAIN R2[i].prepares : R2[i].prepares[k] \in Reports(R, W)
    BY <2>1, InReports
  <2> QED
    BY <1>2, <1>4, <2>2, <2>3, PlacesStep DEF P
<1>8. Books(R2, Places(R2, W), c)
  BY <1>6, <1>7, BooksSame
<1>9. PICK n \in Nat : \A q \in Replicas : R[i].acks[q] <= n
  BY <1>1, NotAlone DEF Tallied, Core, Typed
<1>10. Tallied(R2[i]) /\ R2[i].applied >= R[i].applied
  BY <1>2, <1>3, <1>9, AppliedTallied
<1> QED
  BY <1>3, <1>8, <1>10 DEF State, Applied

\* A request enters the leader's log.
LEMMA EnqueueState ==
    ASSUME NEW R, NEW W, NEW c, State(R, W, c), NEW i \in Replicas, Leads(R, i), NEW v \in Requests,
           \A q \in Replicas : v \notin DOMAIN R[q].calls,
           NEW R2, Becomes(R, R2, i, Enqueue(i, R[i], v))
    PROVE  /\ State(R2, W, c) /\ Leads(R2, i)
           /\ R2[i].applied = R[i].applied /\ R2[i].prepares = R[i].prepares
<1> DEFINE P == Places(R, W)
           e == LogEnd(R[i])
<1>0. Core(R, W, c)
  BY DEF State
<1>1. Core(R, W, c) /\ Books(R, P, c)
  BY DEF State
<1>2. Typed(R, W) /\ R[i] \in ReplicaRecord
  BY <1>1, StateFields
<1>3. /\ Core(R2, W, c) /\ Leads(R2, i)
      /\ R2[i].applied = R[i].applied /\ R2[i].prepares = R[i].prepares
      /\ R2[i].journal = R[i].journal
      /\ R2[i].waiters = [k \in DOMAIN R[i].waiters \cup {e} |-> IF k = e THEN v ELSE R[i].waiters[k]]
      /\ R2[i].calls = [w \in DOMAIN R[i].calls \cup {v} |-> IF w = v THEN NoReply ELSE R[i].calls[w]]
      /\ LogEnd(R2[i]) = e + 1 /\ Held(R2[i]).slot = Held(R[i]).slot
      /\ \A k \in Slots(Held(R[i])) : At(Held(R2[i]), k) = At(Held(R[i]), k)
      /\ At(Held(R2[i]), e) = v
  <2>1. Core(R2, W, c) /\ Leads(R2, i) /\ EntersLog(R, R2, i, v)
    BY <1>0, EnqueueCore
  <2> QED
    BY <2>1 DEF EntersLog
<1>4. \A q \in Replicas \ {i} : R2[q] = R[q]
  BY <1>2, OthersStay
<1>5. e \in Nat /\ R2[i] \in ReplicaRecord
  BY <1>2, <1>3, ReplicaFields, StateFields
<1>6. \A k \in Slots(Held(R2[i])) : k \in Slots(Held(R[i])) \/ k = e
  <2> SUFFICES ASSUME NEW k \in Slots(Held(R2[i])), k # e
               PROVE  k \in Slots(Held(R[i]))
    OBVIOUS
  <2>1. Held(R2[i]) \in Log /\ Held(R[i]) \in Log /\ EndOf(Held(R2[i])) = e + 1 /\ EndOf(Held(R[i])) = e
    BY <1>2, <1>3, <1>5, ReplicaFields
  <2>2. k \in Nat /\ Held(R[i]).slot <= k /\ k < e + 1
    BY <1>3, <2>1, LogFields
  <2>3. k < e
    BY <1>5, <2>2
  <2> QED
    BY <2>1, <2>2, <2>3, LogFields
<1> HIDE DEF e
<1>7. Books(R2, P \cup {<<v, e>>}, c)
  BY <1>1, <1>3, <1>4, BooksEnqueue
<1>8. Places(R2, W) \subseteq P \cup {<<v, e>>}
  <2>1. \A k \in Slots(Held(R2[i])) : <<At(Held(R2[i]), k), k>> \in P \cup {<<v, e>>}
    <3> SUFFICES ASSUME NEW k \in Slots(Held(R2[i])), k # e
                 PROVE  <<At(Held(R2[i]), k), k>> \in P
      BY <1>3
    <3>1. k \in Slots(Held(R[i])) /\ Held(R[i]) \in Logs(R, W)
      BY <1>6, InLogs
    <3> QED
      BY <1>3, <3>1, InPlaces
  <2>2. \A k \in DOMAIN R2[i].prepares : R2[i].prepares[k] \in Reports(R, W)
    BY <1>3, InReports
  <2>3. Places(R, W) \subseteq P \cup {<<v, e>>}
    OBVIOUS
  <2> HIDE DEF P
  <2> QED
    BY <1>2, <1>4, <2>1, <2>2, <2>3, PlacesStep
<1>9. Books(R2, Places(R2, W), c)
  BY <1>7, <1>8, BooksSame
<1> QED
  BY <1>3, <1>9 DEF State

\* The other replicas stay as they are.
LEMMA BecomesOthers ==
    ASSUME NEW R, NEW W, NEW c, State(R, W, c), NEW i \in Replicas, NEW t, NEW R2, Becomes(R, R2, i, t)
    PROVE  R2[i] = t /\ \A q \in Replicas \ {i} : R2[q] = R[q]
BY DEF Becomes, State, Core, Typed

\* A step of i that changes neither its log nor the books.
LEMMA StateRole ==
    ASSUME NEW R, NEW W, NEW c, State(R, W, c), NEW i \in Replicas, NEW t, NEW R2, Becomes(R, R2, i, t),
           Core(R2, W, c), t.applied = R[i].applied, t.journal = R[i].journal,
           t.waiters = R[i].waiters, t.calls = R[i].calls, t.log = R[i].log, t.base = R[i].base,
           \A k \in DOMAIN t.prepares : \/ t.prepares[k] \in Reports(R, W)
                                        \/ Reported(t.prepares[k]) = Held(R[i])
    PROVE  State(R2, W, c)
<1>1. R2[i] = t /\ \A q \in Replicas \ {i} : R2[q] = R[q]
  BY BecomesOthers
<1>2. \A k : At(Held(t), k) = At(Held(R[i]), k)
  BY DEF At, Held
<1>3. Slots(Held(t)) = Slots(Held(R[i]))
  BY DEF Slots, Held, EndOf
<1>4. \A k \in Slots(Held(t)) : <<At(Held(t), k), k>> \in Places(R, W)
  BY <1>2, <1>3, InLogs, InPlaces
<1> QED
  BY <1>1, <1>4, StateSame

\* Following a peer of a later round, or of the same one, keeps the state.
LEMMA FollowsState ==
    ASSUME NEW R, NEW W, NEW c, State(R, W, c), NEW i \in Replicas, NEW j \in Replicas \ {i},
           NEW r \in Nat, r >= R[i].probe, r > R[i].probe \/ ~Leads(R, i),
           NEW R2, Becomes(R, R2, i, [R[i] EXCEPT !.probe = r, !.leader = j])
    PROVE  State(R2, W, c)
<1> DEFINE t == [R[i] EXCEPT !.probe = r, !.leader = j]
<1>1. Core(R, W, c) /\ R[i] \in ReplicaRecord
  BY StateFields DEF State
<1>2. Core(R2, W, c)
  BY <1>1, FollowsCore
<1>3. /\ t.applied = R[i].applied /\ t.journal = R[i].journal
      /\ t.waiters = R[i].waiters /\ t.calls = R[i].calls /\ t.log = R[i].log /\ t.base = R[i].base
      /\ t.prepares = R[i].prepares
  BY <1>1 DEF ReplicaRecord
<1>4. Becomes(R, R2, i, t)
  OBVIOUS
<1> HIDE DEF t
<1>5. \A k \in DOMAIN t.prepares : t.prepares[k] \in Reports(R, W)
  BY <1>3, InReports
<1> QED
  BY <1>2, <1>3, <1>4, <1>5, StateRole

\* Counting an ACK keeps the state.
LEMMA CountsState ==
    ASSUME NEW R, NEW W, NEW c, State(R, W, c), NEW i \in Replicas, Leads(R, i),
           NEW j \in Replicas \ {i}, NEW m \in W[j][i], m.type = "ACK", m.round = R[i].ack,
           NEW R2, Becomes(R, R2, i, [R[i] EXCEPT !.acks[j] = MaxOf(@, m.slot)])
    PROVE  State(R2, W, c)
<1> DEFINE t == [R[i] EXCEPT !.acks[j] = MaxOf(@, m.slot)]
<1>1. Core(R, W, c) /\ R[i] \in ReplicaRecord
  BY StateFields DEF State
<1>2. Core(R2, W, c)
  BY <1>1, CountsCore
<1>3. /\ t.applied = R[i].applied /\ t.journal = R[i].journal
      /\ t.waiters = R[i].waiters /\ t.calls = R[i].calls /\ t.log = R[i].log /\ t.base = R[i].base
      /\ t.prepares = R[i].prepares
  BY <1>1 DEF ReplicaRecord
<1>4. Becomes(R, R2, i, t)
  OBVIOUS
<1> HIDE DEF t
<1>5. \A k \in DOMAIN t.prepares : t.prepares[k] \in Reports(R, W)
  BY <1>3, InReports
<1> QED
  BY <1>2, <1>3, <1>4, <1>5, StateRole

\* Starting an election keeps the state: the candidate's own PREPARE reports what
\* it has.
LEMMA CandidateState ==
    ASSUME NEW R, NEW W, NEW c, State(R, W, c), NEW i \in Replicas, ~Leads(R, i), NEW r \in Nat,
           r > R[i].probe, Owner(r) = i,
           NEW R2, Becomes(R, R2, i, [R[i] EXCEPT !.election = r, !.probe = r,
                                                  !.prepares = <<Prepare(i, R[i], r)>>])
    PROVE  State(R2, W, c)
<1> DEFINE own == Prepare(i, R[i], r)
           one == <<own>>
           t == [R[i] EXCEPT !.election = r, !.probe = r, !.prepares = one]
<1>1. Core(R, W, c) /\ R[i] \in ReplicaRecord
  BY StateFields DEF State
<1>2. Core(R2, W, c)
  BY <1>1, CandidateCore
<1>3. Becomes(R, R2, i, t)
  OBVIOUS
<1>4. \A k \in DOMAIN one : one[k] = own
  OBVIOUS
<1>5. Reported(own) = Held(R[i])
  BY <1>1, PrepareIs
<1> HIDE DEF own, one
<1>6. /\ t.applied = R[i].applied /\ t.journal = R[i].journal
      /\ t.waiters = R[i].waiters /\ t.calls = R[i].calls /\ t.log = R[i].log /\ t.base = R[i].base
      /\ t.prepares = one
  BY <1>1 DEF ReplicaRecord
<1> HIDE DEF t
<1>7. \A k \in DOMAIN t.prepares : Reported(t.prepares[k]) = Held(R[i])
  BY <1>4, <1>5, <1>6
<1> QED
  BY <1>2, <1>3, <1>6, <1>7, StateRole

\* Collecting the PREPARE of a peer that has sent none yet keeps the state.
LEMMA CollectsState ==
    ASSUME NEW R, NEW W, NEW c, State(R, W, c), NEW i \in Replicas, NEW j \in Replicas,
           NEW m \in W[j][i], m.type = "PREPARE", m.round = R[i].election, R[i].prepares # <<>>,
           \A k \in DOMAIN R[i].prepares : R[i].prepares[k].sender # j,
           NEW R2, Becomes(R, R2, i, [R[i] EXCEPT !.prepares = Append(@, m)])
    PROVE  State(R2, W, c)
<1> DEFINE old == R[i].prepares
           more == Append(old, m)
           t == [R[i] EXCEPT !.prepares = more]
<1>1. Core(R, W, c) /\ R[i] \in ReplicaRecord /\ Typed(R, W)
  BY StateFields DEF State
<1>2. Core(R2, W, c)
  BY <1>1, CollectsCore
<1>3. Becomes(R, R2, i, t)
  OBVIOUS
<1>4. m \in PrepareMessage /\ old \in Seq(PrepareMessage)
  BY <1>1, MessageFields, ReplicaFields DEF Typed
<1>5. m \in Reports(R, W) /\ \A k \in DOMAIN old : old[k] \in Reports(R, W)
  BY InReports
<1>6. \A k \in DOMAIN more : more[k] \in Reports(R, W)
  <2> SUFFICES ASSUME NEW k \in DOMAIN more
               PROVE  more[k] \in Reports(R, W)
    OBVIOUS
  <2> HIDE DEF old
  <2>1. /\ Len(more) = Len(old) + 1 /\ Len(old) \in Nat /\ more \in Seq(PrepareMessage)
        /\ \A l \in 1..Len(old) : more[l] = old[l]
        /\ more[Len(old) + 1] = m
    BY <1>4, AppendProperties, LenProperties
  <2>2. DOMAIN more = 1..Len(more) /\ DOMAIN old = 1..Len(old)
    BY <1>4, <2>1, LenProperties
  <2> HIDE DEF more
  <2>3. k \in 1..Len(old) \/ k = Len(old) + 1
    BY <2>1, <2>2
  <2> QED
    BY <1>5, <2>1, <2>2, <2>3
<1> HIDE DEF more
<1>7. /\ t.applied = R[i].applied /\ t.journal = R[i].journal
      /\ t.waiters = R[i].waiters /\ t.calls = R[i].calls /\ t.log = R[i].log /\ t.base = R[i].base
      /\ t.prepares = more
  BY <1>1 DEF ReplicaRecord
<1> HIDE DEF t
<1>8. \A k \in DOMAIN t.prepares : t.prepares[k] \in Reports(R, W)
  BY <1>6, <1>7
<1> QED
  BY <1>2, <1>3, <1>7, <1>8, StateRole

\* Truncating what the leader says all have keeps the state.
LEMMA DropState ==
    ASSUME NEW R, NEW W, NEW c, State(R, W, c), NEW i \in Replicas, NEW trunc \in Nat,
           Settled(R, W, c, trunc, R[i].ack),
           NEW R2, Becomes(R, R2, i, DropBelow(R[i], MinOf(MinOf(trunc, R[i].applied), LogEnd(R[i]))))
    PROVE  /\ State(R2, W, c) /\ SameRole(R[i], R2[i])
           /\ R2[i].applied = R[i].applied /\ R2[i].decided = R[i].decided
<1>1. Core(R, W, c) /\ R[i] \in ReplicaRecord
  BY StateFields DEF State
<1>2. /\ Core(R2, W, c) /\ SameRole(R[i], R2[i]) /\ Suffix(Held(R2[i]), Held(R[i]))
      /\ R2[i].applied = R[i].applied /\ R2[i].decided = R[i].decided
      /\ R2[i].journal = R[i].journal /\ R2[i].waiters = R[i].waiters /\ R2[i].calls = R[i].calls
  BY <1>1, FollowerDrops
<1>3. R2[i] \in ReplicaRecord /\ R2[i].prepares = R[i].prepares
  BY <1>2, StateFields DEF SameRole
<1>4. \A q \in Replicas \ {i} : R2[q] = R[q]
  BY BecomesOthers
<1>5. \A k \in Slots(Held(R2[i])) : <<At(Held(R2[i]), k), k>> \in Places(R, W)
  BY <1>2, <1>3, SuffixState
<1>6. \A k \in DOMAIN R2[i].prepares : R2[i].prepares[k] \in Reports(R, W)
  BY <1>3, InReports
<1>7. State(R2, W, c)
  BY <1>2, <1>4, <1>5, <1>6, StateSame
<1> QED
  BY <1>2, <1>7

\* Taking over the log of a PROPOSE keeps the state; AcceptPropose then applies
\* and truncates.
LEMMA TakenOverState ==
    ASSUME NEW R, NEW W, NEW c, State(R, W, c), NEW i \in Replicas, NEW j \in Replicas, ~Leads(R, i),
           NEW m \in W[j][i], m.type = "PROPOSE", m.round = R[i].probe,
           ~(m.round = R[i].ack /\ m.slot + Len(m.values) < LogEnd(R[i])),
           NEW R2, Becomes(R, R2, i, TakenOver(R[i], m))
    PROVE  /\ State(R2, W, c)
           /\ AcceptPropose(i, R[i], m) =
                LET t == ApplyDecided(i, R2[i])
                IN  DropBelow(t, MinOf(MinOf(m.trunc, t.applied), LogEnd(t)))
           /\ R2[i].leader = R[i].leader /\ R2[i].probe = R[i].probe /\ R2[i].ack = m.round
           /\ R2[i].election = R[i].election /\ R2[i].prepares = R[i].prepares
           /\ R2[i].acks = R[i].acks /\ R2[i].decided >= R[i].decided /\ R2[i].applied = R[i].applied
<1>1. Core(R, W, c) /\ R[i] \in ReplicaRecord
  BY StateFields DEF State
<1>2. /\ Core(R2, W, c)
      /\ AcceptPropose(i, R[i], m) =
           LET t == ApplyDecided(i, R2[i])
           IN  DropBelow(t, MinOf(MinOf(m.trunc, t.applied), LogEnd(t)))
      /\ R2[i].leader = R[i].leader /\ R2[i].probe = R[i].probe /\ R2[i].ack = m.round
      /\ R2[i].election = R[i].election /\ R2[i].prepares = R[i].prepares
      /\ R2[i].acks = R[i].acks /\ R2[i].decided >= R[i].decided /\ R2[i].applied = R[i].applied
      /\ R2[i].journal = R[i].journal /\ R2[i].waiters = R[i].waiters /\ R2[i].calls = R[i].calls
      /\ \A k \in Slots(Held(R2[i])) :
           \/ k \in Slots(Offered(m)) /\ At(Held(R2[i]), k) = At(Offered(m), k)
           \/ k \in Slots(Held(R[i])) /\ At(Held(R2[i]), k) = At(Held(R[i]), k)
  BY <1>1, TakenOverCore
<1>3. \A q \in Replicas \ {i} : R2[q] = R[q]
  BY BecomesOthers
<1>4. Offered(m) \in Logs(R, W) /\ Held(R[i]) \in Logs(R, W)
  BY InLogs
<1>5. \A k \in Slots(Held(R2[i])) : <<At(Held(R2[i]), k), k>> \in Places(R, W)
  BY <1>2, <1>4, InPlaces
<1>6. \A k \in DOMAIN R2[i].prepares : R2[i].prepares[k] \in Reports(R, W)
  BY <1>2, InReports
<1>7. State(R2, W, c)
  BY <1>2, <1>3, <1>5, <1>6, StateSame
<1> QED
  BY <1>2, <1>7

\* Adopting the best log of a quorum of PREPAREs keeps the state, and the
\* candidate leads.
LEMMA AdoptState ==
    ASSUME NEW R, NEW W, NEW c, State(R, W, c), NEW i \in Replicas, R[i].election = R[i].probe,
           Len(R[i].prepares) = Quorum,
           NEW R2, Becomes(R, R2, i, AdoptBest(i, R[i]))
    PROVE  /\ State(R2, W, c) /\ Leads(R2, i) /\ R2[i].prepares = <<>>
           /\ R2[i].applied >= R[i].applied
<1> DEFINE P == Places(R, W)
<1>1. Core(R, W, c) /\ Books(R, P, c) /\ Typed(R, W)
  BY StateFields DEF State
<1>2. /\ Core(R2, W, c) /\ Leads(R2, i) /\ R2[i].prepares = <<>>
      /\ R2[i].applied >= R[i].applied
      /\ R2[i].applied = R[i].applied \/ \E j \in Replicas : R2[i].applied <= R[j].applied
      /\ R2[i].journal = R[i].journal
      /\ R2[i].waiters = R[i].waiters /\ R2[i].calls = R[i].calls
      /\ \E m \in Reports(R, W) : /\ Slots(Held(R2[i])) = Slots(Reported(m))
                                  /\ \A k : At(Held(R2[i]), k) = At(Reported(m), k)
  BY <1>1, AdoptBestCore
<1>3. \A q \in Replicas \ {i} : R2[q] = R[q]
  BY BecomesOthers
<1>4. (\A q \in Replicas : R[q].applied \in Nat) /\ R2[i].applied \in Nat
  BY <1>1, <1>2, StateFields
<1>5. \E j \in Replicas : R2[i].applied <= R[j].applied
  BY <1>2, <1>4
<1> HIDE DEF P
<1>6. Books(R2, P, c)
  BY <1>1, <1>2, <1>3, <1>4, <1>5, BooksAdopt
<1>7. Places(R2, W) \subseteq P
  <2>1. PICK m \in Reports(R, W) : /\ Slots(Held(R2[i])) = Slots(Reported(m))
                                   /\ \A k : At(Held(R2[i]), k) = At(Reported(m), k)
    BY <1>2
  <2>2. \A k \in Slots(Held(R2[i])) : <<At(Held(R2[i]), k), k>> \in P
    BY <2>1, InLogs, InPlaces DEF P
  <2>3. \A k \in DOMAIN R2[i].prepares : R2[i].prepares[k] \in Reports(R, W)
    BY <1>2
  <2> QED
    BY <1>1, <1>3, <2>2, <2>3, PlacesStep DEF P
<1>8. Books(R2, Places(R2, W), c)
  BY <1>6, <1>7, BooksSame
<1> QED
  BY <1>2, <1>8 DEF State
=============================================================================
