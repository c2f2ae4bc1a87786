------------------------ MODULE PaxosReplica_proofs -------------------------
(***************************************************************************)
(* The invariant of PaxosInvariant is inductive: every action of           *)
(* PaxosReplica keeps it.  Hence the properties that the runs check, and   *)
(* that the replicas implement the replicated log of ReplicatedLog.        *)
(***************************************************************************)
EXTENDS PaxosInvariant_proofs, PaxosRefinement, PaxosFailover

-----------------------------------------------------------------------------
(* The whole invariant, and the actions.                                   *)

\* A step after which c may go on, and in which one replica may apply more.
Progress(c) ==
    /\ \E d \in Seq(Requests) : Extends(d, c) /\ Whole(rep', net', d)
    /\ \E i \in Replicas : /\ rep'[i].applied >= rep[i].applied
                           /\ \A q \in Replicas \ {i} : rep'[q] = rep[q]

\* What is on its way after a send.
LEMMA SentFlight ==
    ASSUME NEW n, NEW i, NEW to, NEW out, NEW n2, Sends(n, i, to, out, n2)
    PROVE  /\ NetType(n2)
           /\ \A p, q \in Replicas : \A m \in Flight(n2)[p][q] :
                \/ m \in Flight(n)[p][q]
                \/ p = i /\ q \in to /\ m = out[q]
<1>0. NetType(n) /\ \A q \in to : out[q] \in Message
  BY DEF Sends
<1>1. /\ NetType(n2)
      /\ \A p, q \in Replicas : \/ n2[p][q] = n[p][q]
                                \/ p = i /\ q \in to /\ n2[p][q] = Append(n[p][q], out[q])
  BY SentIs
<1> SUFFICES ASSUME NEW p \in Replicas, NEW q \in Replicas, NEW m \in Flight(n2)[p][q],
                    m \notin Flight(n)[p][q]
             PROVE  p = i /\ q \in to /\ m = out[q]
  BY <1>1
<1>2. PICK k \in DOMAIN n2[p][q] : m = n2[p][q][k]
  BY <1>1, FlightIs
<1>3. n[p][q] \in Seq(Message) /\ \A l \in DOMAIN n[p][q] : m # n[p][q][l]
  BY <1>0, FlightIs
<1>4. p = i /\ q \in to /\ n2[p][q] = Append(n[p][q], out[q])
  BY <1>1, <1>2, <1>3
<1> DEFINE mail == n[p][q]
           new == out[q]
           e == Len(mail) + 1
<1>5. mail \in Seq(Message) /\ new \in Message /\ n2[p][q] = Append(mail, new)
  BY <1>0, <1>3, <1>4
<1> HIDE DEF new
<1>6. /\ k \in DOMAIN mail \/ k = e
      /\ Append(mail, new)[e] = new
      /\ \A l \in DOMAIN mail : Append(mail, new)[l] = mail[l]
  BY <1>2, <1>5, AppendIs
<1>7. \A l \in DOMAIN mail : m # mail[l]
  BY <1>3
<1> HIDE DEF mail, e
<1>8. m = new
  BY <1>2, <1>5, <1>6, <1>7
<1> QED
  BY <1>4, <1>8 DEF new

\* A leader sends its log to its peers.
LEMMA Proposes ==
    ASSUME NEW R, NEW n, NEW c, NetType(n), State(R, Flight(n), c), Fresh(R, n),
           NEW i \in Replicas, Leads(R, i), NEW n2 \in SendPropose(n, i, R[i])
    PROVE  NetType(n2) /\ State(R, Flight(n2), c) /\ Fresh(R, n2)
<1> DEFINE out == [p \in Peers(i) |-> ProposeTo(R[i], p)]
<1>1. R[i] \in ReplicaRecord
  BY StateFields DEF State
<1>2. Peers(i) \in SUBSET Replicas
  BY DEF Peers
<1>3. \A q \in Peers(i) : out[q] = ProposeTo(R[i], q) /\ out[q] \in Message /\ ~Once(out[q])
  BY <1>1, <1>2, ProposeToIs DEF Once
<1>4. Sends(n, i, Peers(i), out, n2)
  BY <1>2, <1>3 DEF SendPropose, Sends
<1> HIDE DEF out
<1>5. /\ NetType(n2)
      /\ \A p, q \in Replicas : \A m \in Flight(n2)[p][q] :
           \/ m \in Flight(n)[p][q]
           \/ p = i /\ q \in Peers(i) /\ m = out[q]
  BY <1>4, SentFlight
<1>6. \A p, q \in Replicas : \A m \in Flight(n2)[p][q] :
         m \in Flight(n)[p][q] \/ Posted(R, p, q, m)
  BY <1>3, <1>5 DEF Posted
<1>7. State(R, Flight(n2), c)
  BY <1>6, StatePosts
<1>8. Others(Peers(i), out)
  BY <1>3 DEF Others
<1>9. Fresh(R, n2)
  BY <1>4, <1>8, FreshSent
<1> QED
  BY <1>5, <1>7, <1>9

\* A step of i ends well.
LEMMA Ends ==
    ASSUME NEW c, Whole(rep, net, c), NEW i \in Replicas,
           NEW d \in Seq(Requests), Extends(d, c), NetType(net'), State(rep', Flight(net'), d),
           Fresh(rep', net'), Tallied(rep'[i]), rep'[i].applied >= rep[i].applied,
           \A q \in Replicas \ {i} : rep'[q] = rep[q]
    PROVE  Progress(c)
<1>1. \A q \in Replicas : Tallied(rep'[q])
  <2> TAKE q \in Replicas
  <2>1. CASE q = i
    BY <2>1
  <2>2. CASE q # i
    <3>1. rep'[q] = rep[q]
      BY <2>2
    <3> QED
      BY <3>1 DEF Whole
  <2> QED
    BY <2>1, <2>2
<1>2. Whole(rep', net', d)
  BY <1>1 DEF Whole
<1> QED
  BY <1>2 DEF Progress

\* A sequence extends itself.
LEMMA ExtendsSelf ==
    ASSUME NEW c \in Seq(Requests)
    PROVE  Extends(c, c)
BY LenProperties DEF Extends

\* Two steps of one replica are one.
LEMMA BecomesTwice ==
    ASSUME NEW R, NEW W, NEW c, State(R, W, c), NEW i \in Replicas, NEW s, NEW t,
           NEW R1, Becomes(R, R1, i, s), NEW R2, Becomes(R, R2, i, t)
    PROVE  R1[i] = s /\ Becomes(R1, R2, i, t)
<1>1. R \in [Replicas -> ReplicaRecord]
  BY DEF State, Core, Typed
<1>2. R1 = [R EXCEPT ![i] = s] /\ R2 = [R EXCEPT ![i] = t]
  BY DEF Becomes
<1>3. R1[i] = s /\ [R1 EXCEPT ![i] = t] = R2
  BY <1>1, <1>2
<1> QED
  BY <1>3 DEF Becomes

\* i is on its way from rep to rep': it has got to R1, and what the step
\* sends is sent.
Midway(R1, i, c) ==
    /\ NetType(net') /\ State(R1, Flight(net'), c) /\ Fresh(R1, net')
    /\ \A q \in Replicas \ {i} : R1[q] = rep[q]
    /\ R1[i].applied >= rep[i].applied

\* Forgetting PREPAREs doubles none.
LEMMA FreshSame ==
    ASSUME NEW R, NEW n, NEW R2, NetType(n), Fresh(R, n),
           \A q \in Replicas : R2[q].prepares = R[q].prepares \/ R2[q].prepares = <<>>
    PROVE  Fresh(R2, n)
<1>1. \A i, j \in Replicas : \A r : Collected(R2, i, j, r) => Collected(R, i, j, r)
  BY DEF Collected
<1> QED
  BY <1>1 DEF Fresh

\* A step that ends without applying anything.
LEMMA QuietEnds ==
    ASSUME NEW c, Whole(rep, net, c), NEW i \in Replicas, Midway(rep', i, c), Tallied(rep'[i])
    PROVE  Progress(c)
<1>1. c \in Seq(Requests) /\ Extends(c, c)
  BY ExtendsSelf DEF Whole, State, Core
<1> QED
  BY <1>1, Ends DEF Midway

\* A leader ends its step with apply_decided.
LEMMA LeaderEnds ==
    ASSUME NEW c, Whole(rep, net, c), NEW i \in Replicas, NEW R1, Midway(R1, i, c), Leads(R1, i),
           Becomes(R1, rep', i, ApplyDecided(i, R1[i]))
    PROVE  Progress(c)
<1>1. /\ NetType(net') /\ State(R1, Flight(net'), c) /\ Fresh(R1, net')
      /\ \A q \in Replicas \ {i} : R1[q] = rep[q]
      /\ R1[i].applied >= rep[i].applied
  BY DEF Midway
<1>2. /\ \E d \in Seq(Requests) : Extends(d, c) /\ State(rep', Flight(net'), d)
      /\ Tallied(rep'[i]) /\ SameRole(R1[i], rep'[i])
      /\ rep'[i].applied >= R1[i].applied
  BY <1>1, LeaderState
<1>3. PICK d \in Seq(Requests) : Extends(d, c) /\ State(rep', Flight(net'), d)
  BY <1>2
<1>4. \A q \in Replicas \ {i} : rep'[q] = R1[q]
  BY <1>1, BecomesOthers
<1>5. Fresh(rep', net')
  <2>1. \A q \in Replicas : rep'[q].prepares = R1[q].prepares
    <3> TAKE q \in Replicas
    <3>1. CASE q = i
      BY <1>2, <3>1 DEF SameRole
    <3>2. CASE q # i
      <4>1. rep'[q] = R1[q]
        BY <1>4, <3>2
      <4> QED
        BY <4>1
    <3> QED
      BY <3>1, <3>2
  <2> QED
    BY <1>1, <2>1, FreshSame
<1>6. rep'[i].applied >= rep[i].applied
  <2>1. rep'[i].applied \in Nat
    BY <1>3, StateFields DEF State
  <2>2. R1[i].applied \in Nat
    BY <1>1, StateFields DEF State
  <2>3. rep[i].applied \in Nat
    BY StateFields DEF Whole, State
  <2> QED
    BY <1>1, <1>2, <2>1, <2>2, <2>3
<1>7. \A q \in Replicas \ {i} : rep'[q] = rep[q]
  BY <1>1, <1>4
<1> QED
  BY <1>1, <1>2, <1>3, <1>5, <1>6, <1>7, Ends

\* Submit keeps the invariant.
LEMMA SubmitProgress ==
    ASSUME NEW c, Whole(rep, net, c), NEW i \in Replicas, NEW v \in Requests, Submit(i, v)
    PROVE  Progress(c)
<1> DEFINE s == Enqueue(i, rep[i], v)
           R1 == [rep EXCEPT ![i] = s]
<1>1. State(rep, Flight(net), c) /\ NetType(net) /\ Fresh(rep, net)
  BY DEF Whole
<1>2. Leads(rep, i) /\ \A q \in Replicas : v \notin DOMAIN rep[q].calls
  BY DEF Submit, Submitted, Leads
<1>3. /\ rep' = [rep EXCEPT ![i] = ApplyDecided(i, s)]
      /\ net' \in SendPropose(net, i, s)
  BY DEF Submit
<1>4. Becomes(rep, R1, i, s) /\ R1[i] = s /\ Becomes(R1, rep', i, ApplyDecided(i, s))
  <2>1. Becomes(rep, R1, i, s) /\ Becomes(rep, rep', i, ApplyDecided(i, s))
    BY <1>3 DEF Becomes
  <2> HIDE DEF R1, s
  <2> QED
    BY <1>1, <2>1, BecomesTwice
<1> HIDE DEF R1
<1>5. /\ State(R1, Flight(net), c) /\ Leads(R1, i)
      /\ R1[i].applied = rep[i].applied /\ R1[i].prepares = rep[i].prepares
  BY <1>1, <1>2, <1>4, EnqueueState
<1>6. \A q \in Replicas \ {i} : R1[q] = rep[q]
  BY <1>1, <1>4, BecomesOthers
<1> HIDE DEF s
<1>7. Fresh(R1, net)
  <2>1. \A q \in Replicas : R1[q].prepares = rep[q].prepares
    <3> TAKE q \in Replicas
    <3>1. q # i => R1[q] = rep[q]
      BY <1>6
    <3> QED
      BY <1>5, <3>1
  <2> QED
    BY <1>1, <2>1, FreshSame
<1>8. net' \in SendPropose(net, i, R1[i])
  BY <1>3, <1>4
<1>9. NetType(net') /\ State(R1, Flight(net'), c) /\ Fresh(R1, net')
  BY <1>1, <1>5, <1>7, <1>8, Proposes
<1>10. R1[i].applied >= rep[i].applied
  <2>1. rep[i].applied \in Nat
    BY <1>1, StateFields DEF State
  <2> QED
    BY <1>5, <2>1
<1>11. Midway(R1, i, c)
  BY <1>6, <1>9, <1>10 DEF Midway
<1> QED
  BY <1>4, <1>5, <1>11, LeaderEnds

\* Retransmit keeps the invariant.
LEMMA RetransmitProgress ==
    ASSUME NEW c, Whole(rep, net, c), NEW i \in Replicas, Retransmit(i)
    PROVE  Progress(c)
<1>1. State(rep, Flight(net), c) /\ NetType(net) /\ Fresh(rep, net)
  BY DEF Whole
<1>2. Leads(rep, i) /\ net' \in SendPropose(net, i, rep[i])
  BY DEF Retransmit, Leads
<1>3. Becomes(rep, rep', i, ApplyDecided(i, rep[i]))
  BY DEF Retransmit, Becomes
<1>4. NetType(net') /\ State(rep, Flight(net'), c) /\ Fresh(rep, net')
  BY <1>1, <1>2, Proposes
<1>5. rep[i].applied \in Nat
  BY <1>1, StateFields DEF State
<1>6. Midway(rep, i, c)
  BY <1>4, <1>5 DEF Midway
<1> QED
  BY <1>2, <1>3, <1>6, LeaderEnds

-----------------------------------------------------------------------------
(* Elections.                                                              *)

\* The record of a candidate.
LEMMA CandidateIs ==
    ASSUME NEW i \in Replicas, rep[i] \in ReplicaRecord, ElectionRound(i) \in Nat
    PROVE  LET r == ElectionRound(i)
               s == Candidate(i, rep[i])
               t == [s EXCEPT !.prepares = <<Prepare(i, s, s.election)>>]
           IN  /\ t = [rep[i] EXCEPT !.election = r, !.probe = r, !.prepares = <<Prepare(i, rep[i], r)>>]
               /\ Probe(s) = Probe(t) /\ Probe(t).round = r
               /\ t.acks = rep[i].acks /\ t.decided = rep[i].decided /\ t.applied = rep[i].applied
               /\ t.election = r /\ t.prepares = <<Prepare(i, rep[i], r)>>
<1> DEFINE r == ElectionRound(i)
           s == Candidate(i, rep[i])
           t == [s EXCEPT !.prepares = <<Prepare(i, s, s.election)>>]
<1> DEFINE u == rep[i]
<1>1. s = [u EXCEPT !.election = r, !.probe = r, !.prepares = <<>>]
  BY DEF Candidate
<1>2. u \in ReplicaRecord /\ r \in Nat
  OBVIOUS
<1> HIDE DEF u, r, s
<1>3. s.election = r /\ s.base = u.base /\ s.log = u.log /\ s.ack = u.ack
  BY <1>1, <1>2 DEF ReplicaRecord
<1>4. Prepare(i, s, s.election) = Prepare(i, u, r)
  BY <1>3 DEF Prepare
<1> DEFINE own == <<Prepare(i, u, r)>>
<1>5. t = [s EXCEPT !.prepares = own]
  BY <1>4
<1> HIDE DEF own, t
<1>6. t = [u EXCEPT !.election = r, !.probe = r, !.prepares = own]
  BY <1>1, <1>2, <1>5 DEF ReplicaRecord
<1>7. /\ t.acks = u.acks /\ t.decided = u.decided /\ t.applied = u.applied
      /\ t.election = r /\ t.prepares = own
  BY <1>2, <1>6 DEF ReplicaRecord
<1>8. Probe(s) = Probe(t) /\ Probe(t).round = r
  BY <1>3, <1>7 DEF Probe
<1> QED
  BY <1>6, <1>7, <1>8 DEF own, u, r, s, t

\* StartElection keeps the invariant.
LEMMA StartElectionProgress ==
    ASSUME NEW c, Whole(rep, net, c), NEW i \in Replicas, StartElection(i)
    PROVE  Progress(c)
<1> DEFINE r == ElectionRound(i)
           s == Candidate(i, rep[i])
           t == [s EXCEPT !.prepares = <<Prepare(i, s, s.election)>>]
           out == [p \in Peers(i) |-> Probe(s)]
<1>1. State(rep, Flight(net), c) /\ NetType(net) /\ Fresh(rep, net) /\ Tallied(rep[i])
  BY DEF Whole
<1>2. rep[i] \in ReplicaRecord /\ rep[i].probe \in Nat
  BY <1>1, StateFields, ReplicaFields DEF State
<1>3. r \in Nat /\ r > rep[i].probe /\ Owner(r) = i
  BY <1>2, ElectionRoundIsOwn DEF ElectionRound
<1>4. /\ t = [rep[i] EXCEPT !.election = r, !.probe = r, !.prepares = <<Prepare(i, rep[i], r)>>]
      /\ Probe(s) = Probe(t) /\ Probe(t).round = r
      /\ t.acks = rep[i].acks /\ t.decided = rep[i].decided /\ t.applied = rep[i].applied
      /\ t.election = r /\ t.prepares = <<Prepare(i, rep[i], r)>>
  BY <1>2, <1>3, CandidateIs
<1>5. rep' = [rep EXCEPT ![i] = t] /\ net' \in Sent(net, i, Peers(i), out) /\ ~Leads(rep, i)
  BY DEF StartElection, Leads
<1>6. Becomes(rep, rep', i, t)
  BY <1>5 DEF Becomes
<1> HIDE DEF t, r, s
<1>7. State(rep', Flight(net), c)
  <2>1. Becomes(rep, rep', i, [rep[i] EXCEPT !.election = r, !.probe = r,
                                             !.prepares = <<Prepare(i, rep[i], r)>>])
    BY <1>4, <1>6
  <2> QED
    BY <1>1, <1>3, <1>5, <2>1, CandidateState
<1>8. rep'[i] = t /\ \A q \in Replicas \ {i} : rep'[q] = rep[q]
  BY <1>1, <1>6, BecomesOthers
<1>9. t \in ReplicaRecord /\ Probe(t) \in Message /\ Probe(t).type = "PROBE"
  <2>1. rep'[i] \in ReplicaRecord
    BY <1>7, StateFields DEF State
  <2> QED
    BY <1>8, <2>1, ProbeIs
<1>10. Sends(net, i, Peers(i), out, net') /\ \A q \in Peers(i) : out[q] = Probe(t)
  BY <1>1, <1>4, <1>5, <1>9 DEF Sends, Peers
<1> HIDE DEF out
<1>11. /\ NetType(net')
       /\ \A p, q \in Replicas : \A m \in Flight(net')[p][q] :
            \/ m \in Flight(net)[p][q]
            \/ p = i /\ q \in Peers(i) /\ m = out[q]
  BY <1>10, SentFlight
<1>12. \A p, q \in Replicas : \A m \in Flight(net')[p][q] :
          m \in Flight(net)[p][q] \/ Posted(rep', p, q, m)
  <2> SUFFICES ASSUME NEW p \in Replicas, NEW q \in Replicas, NEW m \in Flight(net')[p][q],
                      m \notin Flight(net)[p][q]
               PROVE  Posted(rep', p, q, m)
    OBVIOUS
  <2>1. p = i /\ m = Probe(rep'[i]) /\ Owner(rep'[i].election) = i
    BY <1>3, <1>4, <1>8, <1>10, <1>11
  <2> QED
    BY <2>1 DEF Posted
<1>13. State(rep', Flight(net'), c)
  BY <1>7, <1>12, StatePosts
<1>14. Fresh(rep', net')
  <2>1. \A p, q \in Replicas : \/ net'[p][q] = net[p][q]
                               \/ p = i /\ q # i /\ net'[p][q] = Append(net[p][q], Probe(t))
    <3>1. \A p, q \in Replicas : \/ net'[p][q] = net[p][q]
                                 \/ p = i /\ q \in Peers(i) /\ net'[p][q] = Append(net[p][q], out[q])
      BY <1>10, SentIs
    <3> QED
      BY <1>10, <3>1 DEF Peers
  <2>2. \A q \in Replicas \ {i} : rep'[q].prepares = rep[q].prepares
    BY <1>8
  <2>3. \A k \in DOMAIN rep'[i].prepares : rep'[i].prepares[k].sender = i /\ rep'[i].prepares[k].round = r
    <3>1. Prepare(i, rep[i], r).sender = i /\ Prepare(i, rep[i], r).round = r
      BY DEF Prepare
    <3> QED
      BY <1>4, <1>8, <3>1
  <2>4. Core(rep, Flight(net), c)
    BY <1>1 DEF State
  <2>5. ProbesSent(rep, net, c, i, r, rep', Probe(t), net')
    BY <1>1, <1>3, <1>4, <1>9, <1>11, <2>1, <2>2, <2>3, <2>4 DEF ProbesSent
  <2> QED
    BY <1>3, <1>9, <2>5, FreshProbe
<1>15. Tallied(rep'[i])
  <2>1. t.decided >= rep[i].decided
    BY <1>2, <1>4, ReplicaFields
  <2> QED
    BY <1>1, <1>2, <1>4, <1>8, <1>9, <2>1, TalliedSame
<1>16. rep'[i].applied >= rep[i].applied
  BY <1>2, <1>4, <1>8, ReplicaFields
<1>17. Midway(rep', i, c)
  BY <1>8, <1>11, <1>13, <1>14, <1>16 DEF Midway
<1> QED
  BY <1>15, <1>17, QuietEnds

-----------------------------------------------------------------------------
(* Messages.                                                               *)

\* A message waits at i.
LEMMA IncomingIs ==
    ASSUME NetType(net), NEW i \in Replicas, NEW j \in Incoming(i)
    PROVE  /\ j \in Replicas /\ j # i /\ net[j][i] # <<>>
           /\ Msg(i, j) \in Flight(net)[j][i] /\ Msg(i, j) \in Message /\ Msg(i, j).round \in Nat
           /\ Msg(i, j) = Head(net[j][i])
<1>1. j \in Replicas /\ j # i /\ net[j][i] # <<>> /\ Msg(i, j) = Head(net[j][i])
  BY DEF Incoming, Peers, Msg
<1>2. Msg(i, j) \in Flight(net)[j][i] /\ Msg(i, j) \in Message
  BY <1>1, FlightIs
<1>3. Msg(i, j).round \in Nat
  BY <1>2, MessageFields
<1> QED
  BY <1>1, <1>2, <1>3

\* The network without the message.
LEMMA TakenFlight ==
    ASSUME NetType(net), NEW i \in Replicas, NEW j \in Incoming(i)
    PROVE  /\ NetType(Taken(i, j)) /\ Received(net, Taken(i, j), i, j)
           /\ \A p, q \in Replicas : \A m \in Flight(Taken(i, j))[p][q] : m \in Flight(net)[p][q]
<1>1. j \in Replicas /\ net[j][i] # <<>>
  BY IncomingIs
<1>2. /\ NetType(Taken(i, j))
      /\ \A p, q \in Replicas : \/ Taken(i, j)[p][q] = net[p][q]
                                \/ p = j /\ q = i
      /\ Taken(i, j)[j][i] = Tail(net[j][i])
  BY <1>1, TakenIs
<1>3. Received(net, Taken(i, j), i, j)
  BY <1>1, <1>2 DEF Received
<1> DEFINE n1 == Taken(i, j)
<1> SUFFICES ASSUME NEW p \in Replicas, NEW q \in Replicas, NEW m \in Flight(n1)[p][q]
             PROVE  m \in Flight(net)[p][q]
  BY <1>2, <1>3
<1> HIDE DEF n1
<1>4. PICK k \in DOMAIN n1[p][q] : m = n1[p][q][k]
  BY FlightAt
<1>5. net[p][q] \in Seq(Message)
  BY FlightIs
<1>6. \E l \in DOMAIN net[p][q] : m = net[p][q][l]
  <2>1. CASE n1[p][q] = net[p][q]
    BY <1>4, <2>1
  <2>2. CASE n1[p][q] # net[p][q]
    <3> DEFINE mail == net[p][q]
    <3>1. n1[p][q] = Tail(mail) /\ mail # <<>> /\ mail \in Seq(Message)
      BY <1>1, <1>3, <1>5, <2>2 DEF Received, n1
    <3>2. \A l \in DOMAIN Tail(mail) : l + 1 \in DOMAIN mail /\ Tail(mail)[l] = mail[l + 1]
      BY <3>1, TailIs
    <3>3. k \in DOMAIN Tail(mail) /\ m = Tail(mail)[k]
      BY <1>4, <3>1
    <3> QED
      BY <3>2, <3>3
  <2> QED
    BY <2>1, <2>2
<1> QED
  BY <1>6, FlightIs

\* A message that is taken leaves the invariant as it is.
LEMMA TakenState ==
    ASSUME NetType(net), NEW i \in Replicas, NEW j \in Incoming(i), NEW R, NEW c,
           State(R, Flight(net), c)
    PROVE  State(R, Flight(Taken(i, j)), c)
<1>1. \A p, q \in Replicas : \A m \in Flight(Taken(i, j))[p][q] : m \in Flight(net)[p][q]
  BY TakenFlight
<1> DEFINE W2 == Flight(Taken(i, j))
<1>2. \A p, q \in Replicas : \A m \in W2[p][q] : m \in Flight(net)[p][q] \/ Posted(R, p, q, m)
  BY <1>1
<1> HIDE DEF W2
<1>3. State(R, W2, c)
  BY <1>2, StatePosts
<1> QED
  BY <1>3 DEF W2

\* Taking a message off its queue leaves no two of a PROBE and its PREPARE.
LEMMA TakenFresh ==
    ASSUME NetType(net), NEW i \in Replicas, NEW j \in Incoming(i), Fresh(rep, net), NEW R,
           \A q \in Replicas : R[q].prepares = rep[q].prepares \/ R[q].prepares = <<>>
    PROVE  Fresh(R, Taken(i, j))
<1>1. j \in Replicas /\ net[j][i] # <<>>
  BY IncomingIs
<1>2. NetType(Taken(i, j)) /\ Received(net, Taken(i, j), i, j)
  BY TakenFlight
<1> DEFINE n1 == Taken(i, j)
<1>3. \A p, q \in Replicas : n1[p][q] = net[p][q] \/ (net[p][q] # <<>> /\ n1[p][q] = Tail(net[p][q]))
  BY <1>1, <1>2 DEF Received
<1>4. NetType(n1)
  BY <1>2
<1> HIDE DEF n1
<1>5. Fresh(rep, n1)
  BY <1>3, <1>4, FreshTaken
<1>6. Fresh(R, n1)
  BY <1>4, <1>5, FreshSame
<1> QED
  BY <1>6 DEF n1

\* A step down keeps all but the round and the leader.
LEMMA StepDownIs ==
    ASSUME NEW s \in ReplicaRecord, NEW j \in Replicas, NEW m, m.round \in Nat, m.round >= s.probe
    PROVE  LET t == StepDown(s, j, m)
           IN  /\ t \in ReplicaRecord /\ t.probe = m.round /\ t.ack = s.ack /\ t.election = s.election
               /\ t.prepares = s.prepares /\ t.acks = s.acks /\ t.decided = s.decided
               /\ t.applied = s.applied /\ t.log = s.log /\ t.base = s.base
               /\ m.round = s.probe => t = s
               /\ m.round > s.probe => t.leader = j
<1>1. s.probe \in Nat
  BY ReplicaFields
<1>2. CASE m.round = s.probe
  BY <1>1, <1>2 DEF StepDown
<1>3. CASE m.round > s.probe
  <2> DEFINE r == m.round
             t == [s EXCEPT !.probe = r, !.leader = j]
  <2>1. StepDown(s, j, m) = t
    BY <1>3 DEF StepDown
  <2>2. r \in Nat /\ j \in Replicas
    OBVIOUS
  <2> HIDE DEF r
  <2>3. t \in ReplicaRecord
    BY <2>2 DEF ReplicaRecord
  <2>4. /\ t.probe = r /\ t.ack = s.ack /\ t.election = s.election
        /\ t.prepares = s.prepares /\ t.acks = s.acks /\ t.decided = s.decided
        /\ t.applied = s.applied /\ t.log = s.log /\ t.base = s.base /\ t.leader = j
    BY <2>2 DEF ReplicaRecord
  <2> HIDE DEF t
  <2> QED
    BY <1>1, <1>3, <2>1, <2>3, <2>4 DEF r, t
<1> QED
  BY <1>1, <1>2, <1>3

\* Stepping down for a peer keeps the state.
LEMMA StepDownState ==
    ASSUME NEW R, NEW W, NEW c, State(R, W, c), NEW i \in Replicas, NEW j \in Replicas \ {i},
           NEW m, m.round \in Nat, m.round >= R[i].probe,
           NEW R2, Becomes(R, R2, i, StepDown(R[i], j, m))
    PROVE  State(R2, W, c)
<1>1. R[i] \in ReplicaRecord /\ R[i].probe \in Nat
  BY StateFields, ReplicaFields DEF State
<1>2. CASE m.round > R[i].probe
  <2> DEFINE r == m.round
  <2>1. r \in Nat /\ r >= R[i].probe /\ r > R[i].probe
    BY <1>2
  <2>2. StepDown(R[i], j, m) = [R[i] EXCEPT !.probe = r, !.leader = j]
    BY <1>2 DEF StepDown
  <2>3. Becomes(R, R2, i, [R[i] EXCEPT !.probe = r, !.leader = j])
    BY <2>2
  <2> HIDE DEF r
  <2> QED
    BY <2>1, <2>3, FollowsState
<1>3. CASE m.round = R[i].probe
  <2>1. StepDown(R[i], j, m) = R[i]
    BY <1>1, <1>3 DEF StepDown
  <2>2. R2 = [R EXCEPT ![i] = R[i]]
    BY <2>1 DEF Becomes
  <2>3. R2 = R
    BY <2>2 DEF State, Core, Typed
  <2> QED
    BY <2>3
<1> QED
  BY <1>1, <1>2, <1>3

\* Ignoring a message of an earlier round keeps the invariant.
LEMMA ReceiveStaleProgress ==
    ASSUME NEW c, Whole(rep, net, c), NEW i \in Replicas, NEW j \in Incoming(i), ReceiveStale(i, j)
    PROVE  Progress(c)
<1>1. State(rep, Flight(net), c) /\ NetType(net) /\ Fresh(rep, net) /\ Tallied(rep[i])
  BY DEF Whole
<1>2. net' = Taken(i, j) /\ rep' = rep
  BY DEF ReceiveStale
<1>3. NetType(Taken(i, j)) /\ State(rep, Flight(Taken(i, j)), c) /\ Fresh(rep, Taken(i, j))
  BY <1>1, TakenFlight, TakenState, TakenFresh
<1>4. rep[i].applied \in Nat
  BY <1>1, StateFields DEF State
<1>5. Midway(rep', i, c)
  BY <1>2, <1>3, <1>4 DEF Midway
<1> QED
  BY <1>1, <1>2, <1>5, QuietEnds

\* Answering a PROBE keeps the invariant.
LEMMA ReceiveProbeProgress ==
    ASSUME NEW c, Whole(rep, net, c), NEW i \in Replicas, NEW j \in Incoming(i), ReceiveProbe(i, j)
    PROVE  Progress(c)
<1> DEFINE m == Msg(i, j)
           s == StepDown(rep[i], j, m)
           out == [p \in {j} |-> Prepare(i, s, m.round)]
           n1 == Taken(i, j)
<1>1. State(rep, Flight(net), c) /\ NetType(net) /\ Fresh(rep, net) /\ Tallied(rep[i])
  BY DEF Whole
<1>2. /\ j \in Replicas /\ j # i /\ net[j][i] # <<>>
      /\ m \in Flight(net)[j][i] /\ m \in Message /\ m.round \in Nat /\ m = Head(net[j][i])
  BY <1>1, IncomingIs
<1>3. /\ m.type = "PROBE" /\ m.round >= rep[i].probe
      /\ Becomes(rep, rep', i, s) /\ net' \in Sent(n1, i, {j}, out)
  BY DEF ReceiveProbe, Gets, Becomes
<1>4. /\ NetType(n1) /\ Received(net, n1, i, j)
      /\ \A p, q \in Replicas : \A b \in Flight(n1)[p][q] : b \in Flight(net)[p][q]
  BY <1>1, TakenFlight
<1>5. rep[i] \in ReplicaRecord
  BY <1>1, StateFields DEF State
<1> HIDE DEF m, n1
<1>6. /\ s \in ReplicaRecord /\ s.probe = m.round /\ s.acks = rep[i].acks
      /\ s.decided = rep[i].decided /\ s.applied = rep[i].applied /\ s.prepares = rep[i].prepares
  <2>1. m.round \in Nat /\ m.round >= rep[i].probe /\ j \in Replicas
    BY <1>2, <1>3
  <2> HIDE DEF s
  <2> DEFINE u == rep[i]
  <2>2. s = StepDown(u, j, m) /\ u \in ReplicaRecord /\ m.round >= u.probe
    BY <1>5, <2>1 DEF s
  <2> HIDE DEF u
  <2>3. /\ s \in ReplicaRecord /\ s.probe = m.round /\ s.acks = u.acks
        /\ s.decided = u.decided /\ s.applied = u.applied /\ s.prepares = u.prepares
    BY <2>1, <2>2, StepDownIs
  <2> QED
    BY <2>3 DEF u
<1>7. State(rep', Flight(net), c)
  BY <1>1, <1>2, <1>3, StepDownState
<1>8. rep'[i] = s /\ \A q \in Replicas \ {i} : rep'[q] = rep[q]
  BY <1>1, <1>3, BecomesOthers
<1> HIDE DEF s
<1>9. Owner(m.round) = j /\ m.round <= rep[j].probe
  <2>1. MessageRounds(rep, j, i, m)
    BY <1>1, <1>2 DEF State, Core, Rounds
  <2> QED
    BY <1>3, <2>1 DEF MessageRounds
<1>10. Posted(rep', i, j, Prepare(i, rep'[i], m.round))
  <2>1. rep'[i].ack <= rep'[i].probe
    BY <1>7 DEF State, Core, Rounds, ReplicaRounds
  <2>2. rep'[i].probe = m.round /\ rep'[j] = rep[j]
    BY <1>2, <1>6, <1>8
  <2> QED
    BY <1>2, <1>9, <2>1, <2>2 DEF Posted
<1> DEFINE p0 == Prepare(i, s, m.round)
<1>11. p0 \in Message /\ p0.type = "PREPARE" /\ p0.round = m.round
  BY <1>2, <1>6, PrepareIs
<1>12. Sends(n1, i, {j}, out, net') /\ \A q \in {j} : out[q] = p0
  BY <1>2, <1>3, <1>4, <1>11 DEF Sends
<1> HIDE DEF out, p0
<1>13. /\ NetType(net')
       /\ \A p, q \in Replicas : \A b \in Flight(net')[p][q] :
            \/ b \in Flight(n1)[p][q]
            \/ p = i /\ q \in {j} /\ b = out[q]
  BY <1>12, SentFlight
<1>14. \A p, q \in Replicas : \A b \in Flight(net')[p][q] :
          b \in Flight(net)[p][q] \/ Posted(rep', p, q, b)
  <2> SUFFICES ASSUME NEW p \in Replicas, NEW q \in Replicas, NEW b \in Flight(net')[p][q],
                      b \notin Flight(net)[p][q]
               PROVE  Posted(rep', p, q, b)
    OBVIOUS
  <2>1. p = i /\ q = j /\ b = p0
    BY <1>4, <1>12, <1>13
  <2> QED
    BY <1>8, <1>10, <2>1 DEF p0
<1>15. State(rep', Flight(net'), c)
  BY <1>7, <1>14, StatePosts
<1>16. Fresh(rep', net')
  <2>1. \A p, q \in Replicas : \/ net'[p][q] = n1[p][q]
                               \/ p = i /\ q = j /\ net'[p][q] = Append(n1[p][q], p0)
    <3>1. \A p, q \in Replicas : \/ net'[p][q] = n1[p][q]
                                 \/ p = i /\ q \in {j} /\ net'[p][q] = Append(n1[p][q], out[q])
      BY <1>12, SentIs
    <3> QED
      BY <1>12, <3>1
  <2>2. \A q \in Replicas : rep'[q].prepares = rep[q].prepares
    <3> TAKE q \in Replicas
    <3>1. q # i => rep'[q] = rep[q]
      BY <1>8
    <3> QED
      BY <1>6, <1>8, <3>1
  <2>3. PrepareSent(rep, net, i, j, rep', p0, n1, net')
    BY <1>1, <1>2, <1>3, <1>4, <1>11, <1>13, <2>1, <2>2 DEF PrepareSent
  <2> QED
    BY <1>2, <1>11, <2>3, FreshPrepare
<1>17. Tallied(rep'[i])
  <2>1. s.decided >= rep[i].decided /\ rep[i].applied \in Nat
    BY <1>5, <1>6, ReplicaFields
  <2> QED
    BY <1>1, <1>5, <1>6, <1>8, <2>1, TalliedSame
<1>18. rep'[i].applied >= rep[i].applied
  BY <1>5, <1>6, <1>8, ReplicaFields
<1>19. Midway(rep', i, c)
  BY <1>8, <1>13, <1>15, <1>16, <1>18 DEF Midway
<1> QED
  BY <1>17, <1>19, QuietEnds

\* A PREPARE that counts is of the round of i, and the first of its sender.
LEMMA CountedIs ==
    ASSUME NEW c, Whole(rep, net, c), NEW i \in Replicas, NEW j \in Incoming(i), Gets(i, j, "PREPARE"),
           Counts(StepDown(rep[i], j, Msg(i, j)), Msg(i, j))
    PROVE  /\ StepDown(rep[i], j, Msg(i, j)) = rep[i]
           /\ Msg(i, j).type = "PREPARE" /\ Msg(i, j).sender = j
           /\ Msg(i, j).round = rep[i].election /\ Msg(i, j).round = rep[i].probe
           /\ rep[i].prepares # <<>>
           /\ \A k \in DOMAIN rep[i].prepares : rep[i].prepares[k].sender # j
<1> DEFINE m == Msg(i, j)
<1>1. State(rep, Flight(net), c) /\ NetType(net) /\ Fresh(rep, net)
  BY DEF Whole
<1>2. j \in Replicas /\ j # i /\ m \in Flight(net)[j][i] /\ m.round \in Nat
  BY <1>1, IncomingIs
<1>3. m.type = "PREPARE" /\ m.round >= rep[i].probe
  BY DEF Gets
<1>4. rep[i] \in ReplicaRecord
  BY <1>1, StateFields DEF State
<1> HIDE DEF m
<1>5. StepDown(rep[i], j, m).election = rep[i].election /\ StepDown(rep[i], j, m).prepares = rep[i].prepares
  BY <1>2, <1>3, <1>4, StepDownIs
<1>6. m.round = rep[i].election /\ rep[i].prepares # <<>>
  BY <1>5 DEF Counts, m
<1>7. ReplicaRounds(rep, i) /\ MessageRounds(rep, j, i, m)
  BY <1>1, <1>2 DEF State, Core, Rounds
<1>8. m.round = rep[i].probe
  <2>1. rep[i].election <= rep[i].probe
    BY <1>7 DEF ReplicaRounds
  <2>2. rep[i].election \in Nat /\ rep[i].probe \in Nat
    BY <1>4, ReplicaFields
  <2> QED
    BY <1>3, <1>6, <2>1, <2>2
<1>9. StepDown(rep[i], j, m) = rep[i]
  <2>1. ~(m.round > rep[i].probe)
    BY <1>2, <1>8
  <2> QED
    BY <2>1 DEF StepDown
<1>10. m.sender = j
  BY <1>3, <1>7 DEF MessageRounds
<1>11. \A k \in DOMAIN rep[i].prepares : rep[i].prepares[k].sender # j
  <2>1. ~Collected(rep, i, j, m.round)
    BY <1>1, <1>2, <1>3 DEF Fresh
  <2>2. \A k \in DOMAIN rep[i].prepares : rep[i].prepares[k].round = rep[i].election
    BY <1>7 DEF ReplicaRounds
  <2> QED
    BY <1>6, <2>1, <2>2 DEF Collected
<1> QED
  BY <1>3, <1>6, <1>8, <1>9, <1>10, <1>11 DEF m

\* i counts the PREPARE.
LEMMA CountedState ==
    ASSUME NEW c, Whole(rep, net, c), NEW i \in Replicas, NEW j \in Incoming(i), Gets(i, j, "PREPARE"),
           Counts(StepDown(rep[i], j, Msg(i, j)), Msg(i, j)),
           NEW R2, Becomes(rep, R2, i, [rep[i] EXCEPT !.prepares = Append(@, Msg(i, j))])
    PROVE  /\ State(R2, Flight(net), c) /\ Fresh(R2, Taken(i, j))
           /\ R2[i].acks = rep[i].acks /\ R2[i].decided = rep[i].decided
           /\ R2[i].applied = rep[i].applied /\ R2[i].election = rep[i].election
           /\ R2[i].probe = rep[i].probe /\ Len(R2[i].prepares) = Len(rep[i].prepares) + 1
<1> DEFINE m == Msg(i, j)
           old == rep[i].prepares
           more == Append(old, m)
           t == [rep[i] EXCEPT !.prepares = more]
<1>1. State(rep, Flight(net), c) /\ NetType(net) /\ Fresh(rep, net)
  BY DEF Whole
<1>2. /\ j \in Replicas /\ j # i /\ m \in Flight(net)[j][i] /\ m \in Message
      /\ m = Head(net[j][i]) /\ net[j][i] # <<>>
  BY <1>1, IncomingIs
<1>3. /\ m.type = "PREPARE" /\ m.sender = j /\ m.round = rep[i].election
      /\ old # <<>> /\ \A k \in DOMAIN old : old[k].sender # j
  BY CountedIs
<1>4. Becomes(rep, R2, i, t)
  OBVIOUS
<1>5. State(R2, Flight(net), c)
  <2> HIDE DEF m
  <2>1. Becomes(rep, R2, i, [rep[i] EXCEPT !.prepares = Append(@, m)])
    BY DEF m
  <2> QED
    BY <1>1, <1>2, <1>3, <2>1, CollectsState
<1>6. R2[i] = t /\ \A q \in Replicas \ {i} : R2[q] = rep[q]
  BY <1>1, <1>4, BecomesOthers
<1>7. rep[i] \in ReplicaRecord /\ old \in Seq(PrepareMessage)
  BY <1>1, StateFields, ReplicaFields DEF State
<1>8. m \in PrepareMessage
  BY <1>2, <1>3, MessageFields
<1> HIDE DEF m
<1>9. /\ Len(more) = Len(old) + 1 /\ DOMAIN more = 1..(Len(old) + 1) /\ DOMAIN old = 1..Len(old)
      /\ more[Len(old) + 1] = m /\ \A k \in DOMAIN old : more[k] = old[k]
      /\ Len(old) \in Nat /\ more \in Seq(PrepareMessage)
  <2> HIDE DEF old
  <2>1. /\ more \in Seq(PrepareMessage) /\ Len(more) = Len(old) + 1
        /\ \A k \in 1..Len(old) : more[k] = old[k]
        /\ more[Len(old) + 1] = m
    BY <1>7, <1>8, AppendProperties
  <2> HIDE DEF more
  <2> QED
    BY <1>7, <2>1, LenProperties
<1> HIDE DEF more
<1>10. /\ t.prepares = more /\ t.acks = rep[i].acks /\ t.decided = rep[i].decided
       /\ t.applied = rep[i].applied /\ t.election = rep[i].election /\ t.probe = rep[i].probe
  BY <1>7 DEF ReplicaRecord
<1> HIDE DEF t
<1>11. Fresh(R2, Taken(i, j))
  <2>1. NetType(Taken(i, j)) /\ Received(net, Taken(i, j), i, j)
    BY <1>1, TakenFlight
  <2>2. \A k \in DOMAIN R2[i].prepares :
         \/ \E l \in DOMAIN rep[i].prepares : R2[i].prepares[k] = rep[i].prepares[l]
         \/ R2[i].prepares[k] = m /\ R2[i].prepares[k].sender = j
    <3> SUFFICES ASSUME NEW k \in DOMAIN more, k \notin DOMAIN old
                 PROVE  more[k] = m /\ more[k].sender = j
      BY <1>6, <1>9, <1>10
    <3>1. k = Len(old) + 1
      BY <1>9
    <3> QED
      BY <1>3, <1>9, <3>1
  <2>3. \A q \in Replicas \ {i} : R2[q].prepares = rep[q].prepares
    BY <1>6
  <2>4. PrepareCounted(rep, net, i, j, R2, Taken(i, j))
    BY <1>1, <1>2, <1>3, <2>1, <2>2, <2>3 DEF PrepareCounted
  <2> QED
    BY <1>2, <2>4, FreshCollect
<1> QED
  BY <1>5, <1>6, <1>9, <1>10, <1>11

\* Collecting a PREPARE keeps the invariant.
LEMMA ReceivePrepareProgress ==
    ASSUME NEW c, Whole(rep, net, c), NEW i \in Replicas, NEW j \in Incoming(i), ReceivePrepare(i, j)
    PROVE  Progress(c)
<1> DEFINE m == Msg(i, j)
           s == StepDown(rep[i], j, m)
<1>1. State(rep, Flight(net), c) /\ NetType(net) /\ Fresh(rep, net) /\ Tallied(rep[i])
  BY DEF Whole
<1>2. j \in Replicas /\ j # i /\ m \in Flight(net)[j][i] /\ m.round \in Nat
  BY <1>1, IncomingIs
<1>3. /\ Gets(i, j, "PREPARE") /\ net' = Taken(i, j) /\ m.round >= rep[i].probe
      /\ Becomes(rep, rep', i, IF Counts(s, m) THEN [s EXCEPT !.prepares = Append(@, m)] ELSE s)
  BY DEF ReceivePrepare, Gets, Becomes
<1>4. rep[i] \in ReplicaRecord /\ rep[i].applied \in Nat /\ rep[i].decided \in Nat
  BY <1>1, StateFields, ReplicaFields DEF State
<1>5. NetType(net')
  BY <1>1, <1>3, TakenFlight
<1>6. /\ State(rep', Flight(net), c) /\ Fresh(rep', net')
      /\ rep'[i].acks = rep[i].acks /\ rep'[i].decided = rep[i].decided
      /\ rep'[i].applied = rep[i].applied
  <2>1. CASE Counts(s, m)
    <3>1. s = rep[i]
      BY <1>3, <2>1, CountedIs
    <3>2. Becomes(rep, rep', i, [rep[i] EXCEPT !.prepares = Append(@, m)])
      BY <1>3, <2>1, <3>1
    <3>3. /\ State(rep', Flight(net), c) /\ Fresh(rep', Taken(i, j))
          /\ rep'[i].acks = rep[i].acks /\ rep'[i].decided = rep[i].decided
          /\ rep'[i].applied = rep[i].applied
      BY <1>3, <2>1, <3>2, CountedState
    <3> QED
      BY <1>3, <3>3
  <2>2. CASE ~Counts(s, m)
    <3>1. Becomes(rep, rep', i, s)
      BY <1>3, <2>2
    <3> HIDE DEF m
    <3>2. State(rep', Flight(net), c)
      BY <1>1, <1>2, <1>3, <3>1, StepDownState
    <3>3. rep'[i] = s /\ \A q \in Replicas \ {i} : rep'[q] = rep[q]
      BY <1>1, <3>1, BecomesOthers
    <3>4. /\ s.acks = rep[i].acks /\ s.decided = rep[i].decided /\ s.applied = rep[i].applied
          /\ s.prepares = rep[i].prepares
      BY <1>2, <1>3, <1>4, StepDownIs
    <3>5. \A q \in Replicas : rep'[q].prepares = rep[q].prepares
      <4> TAKE q \in Replicas
      <4>1. q # i => rep'[q] = rep[q]
        BY <3>3
      <4> QED
        BY <3>3, <3>4, <4>1
    <3>6. Fresh(rep', Taken(i, j))
      BY <1>1, <3>5, TakenFresh
    <3> QED
      BY <1>3, <3>2, <3>3, <3>4, <3>6
  <2> QED
    BY <2>1, <2>2
<1>7. State(rep', Flight(net'), c)
  <2>1. State(rep', Flight(Taken(i, j)), c)
    BY <1>1, <1>6, TakenState
  <2> QED
    BY <1>3, <2>1
<1>8. Tallied(rep'[i])
  <2>1. rep'[i] \in ReplicaRecord
    BY <1>6, StateFields DEF State
  <2>2. rep'[i].decided >= rep[i].decided
    BY <1>4, <1>6
  <2> QED
    BY <1>1, <1>4, <1>6, <2>1, <2>2, TalliedSame
<1>9. \A q \in Replicas \ {i} : rep'[q] = rep[q]
  BY <1>1, <1>3, BecomesOthers
<1>10. rep'[i].applied >= rep[i].applied
  BY <1>4, <1>6
<1>11. Midway(rep', i, c)
  BY <1>5, <1>6, <1>7, <1>9, <1>10 DEF Midway
<1> QED
  BY <1>8, <1>11, QuietEnds

\* Winning an election keeps the invariant.
LEMMA WinElectionProgress ==
    ASSUME NEW c, Whole(rep, net, c), NEW i \in Replicas, NEW j \in Incoming(i), WinElection(i, j)
    PROVE  Progress(c)
<1> DEFINE m == Msg(i, j)
           s == StepDown(rep[i], j, m)
           u == [rep[i] EXCEPT !.prepares = Append(@, m)]
           R1 == [rep EXCEPT ![i] = u]
           t == AdoptBest(i, u)
           R2 == [rep EXCEPT ![i] = t]
           n1 == Taken(i, j)
<1>1. State(rep, Flight(net), c) /\ NetType(net) /\ Fresh(rep, net) /\ rep[i] \in ReplicaRecord
  <2>1. State(rep, Flight(net), c)
    BY DEF Whole
  <2> QED
    BY <2>1, StateFields DEF Whole, State
<1>2. Gets(i, j, "PREPARE") /\ Counts(s, m) /\ Len(s.prepares) + 1 = Quorum
  BY DEF WinElection
<1>3. s = rep[i] /\ m.round = rep[i].election /\ m.round = rep[i].probe
  BY <1>2, CountedIs
<1>4. rep' = [rep EXCEPT ![i] = ApplyDecided(i, t)] /\ net' \in SendPropose(n1, i, t)
  BY <1>3 DEF WinElection
<1>5. Becomes(rep, R1, i, u) /\ R1[i] = u /\ Becomes(R1, R2, i, t)
  <2>1. Becomes(rep, R1, i, u) /\ Becomes(rep, R2, i, t)
    BY DEF Becomes
  <2> HIDE DEF R1, R2, u, t
  <2> QED
    BY <1>1, <2>1, BecomesTwice
<1>6. R2[i] = t /\ Becomes(R2, rep', i, ApplyDecided(i, t))
  <2>1. Becomes(rep, R2, i, t) /\ Becomes(rep, rep', i, ApplyDecided(i, t))
    BY <1>4 DEF Becomes
  <2> HIDE DEF R2, t
  <2> QED
    BY <1>1, <2>1, BecomesTwice
<1> HIDE DEF n1
<1>7. /\ State(R1, Flight(net), c) /\ R1[i].applied = rep[i].applied
      /\ R1[i].election = rep[i].election /\ R1[i].probe = rep[i].probe
      /\ Len(R1[i].prepares) = Len(rep[i].prepares) + 1
  <2>1. Counts(StepDown(rep[i], j, Msg(i, j)), Msg(i, j))
    BY <1>2
  <2> HIDE DEF R1
  <2> QED
    BY <1>2, <1>5, <2>1, CountedState
<1> HIDE DEF R1, R2, u
<1>8. /\ State(R2, Flight(net), c) /\ Leads(R2, i) /\ R2[i].prepares = <<>>
      /\ R2[i].applied >= R1[i].applied
  <2>1. R1[i].election = R1[i].probe /\ Len(R1[i].prepares) = Quorum
    BY <1>2, <1>3, <1>7
  <2>2. Becomes(R1, R2, i, AdoptBest(i, R1[i]))
    BY <1>5
  <2> QED
    BY <1>7, <2>1, <2>2, AdoptState
<1>9. \A q \in Replicas \ {i} : R2[q] = rep[q]
  <2>1. \A q \in Replicas \ {i} : R1[q] = rep[q]
    BY <1>1, <1>5, BecomesOthers
  <2>2. \A q \in Replicas \ {i} : R2[q] = R1[q]
    BY <1>5, <1>7, BecomesOthers
  <2> QED
    BY <2>1, <2>2
<1>10. NetType(n1) /\ State(R2, Flight(n1), c) /\ Fresh(R2, n1)
  <2>1. \A q \in Replicas : R2[q].prepares = rep[q].prepares \/ R2[q].prepares = <<>>
    <3> TAKE q \in Replicas
    <3>1. q # i => R2[q] = rep[q]
      BY <1>9
    <3> QED
      BY <1>8, <3>1
  <2>2. NetType(n1)
    BY <1>1, TakenFlight DEF n1
  <2>3. State(R2, Flight(n1), c)
    BY <1>1, <1>8, TakenState DEF n1
  <2>4. Fresh(R2, n1)
    BY <1>1, <2>1, TakenFresh DEF n1
  <2> QED
    BY <2>2, <2>3, <2>4
<1>11. NetType(net') /\ State(R2, Flight(net'), c) /\ Fresh(R2, net')
  <2>1. net' \in SendPropose(n1, i, R2[i])
    BY <1>4, <1>6
  <2> QED
    BY <1>8, <1>10, <2>1, Proposes
<1>12. R2[i].applied >= rep[i].applied
  BY <1>7, <1>8
<1>13. Midway(R2, i, c)
  BY <1>9, <1>11, <1>12 DEF Midway
<1>14. Becomes(R2, rep', i, ApplyDecided(i, R2[i]))
  BY <1>6
<1> QED
  BY <1>8, <1>13, <1>14, LeaderEnds

\* A leader's counting an ACK keeps the invariant.
LEMMA ReceiveAsLeaderProgress ==
    ASSUME NEW c, Whole(rep, net, c), NEW i \in Replicas, NEW j \in Incoming(i), ReceiveAsLeader(i, j)
    PROVE  Progress(c)
<1> DEFINE m == Msg(i, j)
           s == StepDown(rep[i], j, m)
           t == IF m.type = "ACK" THEN [s EXCEPT !.acks[j] = MaxOf(@, m.slot)] ELSE s
           R1 == [rep EXCEPT ![i] = t]
           n1 == Taken(i, j)
<1>1. State(rep, Flight(net), c) /\ NetType(net) /\ Fresh(rep, net) /\ rep[i] \in ReplicaRecord
  <2>1. State(rep, Flight(net), c)
    BY DEF Whole
  <2> QED
    BY <2>1, StateFields DEF Whole, State
<1>2. /\ j \in Replicas /\ j # i /\ m \in Flight(net)[j][i] /\ m \in Message /\ m.round \in Nat
  BY <1>1, IncomingIs
<1>3. /\ m.type \in {"ACK", "PROPOSE"} /\ m.round >= rep[i].probe /\ s.leader = i
      /\ rep' = [rep EXCEPT ![i] = ApplyDecided(i, t)] /\ net' = n1
  BY DEF ReceiveAsLeader, Gets
<1>4. s = rep[i] /\ m.round = rep[i].probe /\ Leads(rep, i)
  <2>1. rep[i].probe \in Nat
    BY <1>1, ReplicaFields
  <2> HIDE DEF m
  <2>2. ~(m.round > rep[i].probe)
    <3> SUFFICES ASSUME m.round > rep[i].probe
                 PROVE  FALSE
      OBVIOUS
    <3>1. s.leader = j
      BY <1>1, <1>2, <1>3, StepDownIs
    <3> QED
      BY <1>2, <1>3, <3>1
  <2>3. s = rep[i]
    BY <2>2 DEF StepDown
  <2> QED
    BY <1>2, <1>3, <2>1, <2>2, <2>3 DEF Leads
<1>5. Becomes(rep, R1, i, t) /\ R1[i] = t /\ Becomes(R1, rep', i, ApplyDecided(i, t))
  <2>1. Becomes(rep, R1, i, t) /\ Becomes(rep, rep', i, ApplyDecided(i, t))
    BY <1>3 DEF Becomes
  <2> HIDE DEF R1, t
  <2> QED
    BY <1>1, <2>1, BecomesTwice
<1> HIDE DEF R1, n1, s, m
<1>6. State(R1, Flight(net), c)
  <2>1. CASE m.type = "ACK"
    <3>1. m.round = rep[i].ack
      BY <1>1, <1>4 DEF State, Core, Rounds, ReplicaRounds
    <3>2. Becomes(rep, R1, i, [rep[i] EXCEPT !.acks[j] = MaxOf(@, m.slot)])
      BY <1>4, <1>5, <2>1
    <3> QED
      BY <1>1, <1>2, <1>4, <2>1, <3>1, <3>2, CountsState
  <2>2. CASE m.type # "ACK"
    <3>1. R1 = [rep EXCEPT ![i] = rep[i]]
      BY <1>4, <1>5, <2>2 DEF Becomes
    <3>2. R1 = rep
      BY <1>1, <3>1 DEF State, Core, Typed
    <3> QED
      BY <1>1, <3>2
  <2> QED
    BY <2>1, <2>2
<1>7. t.leader = i /\ t.applied = rep[i].applied /\ t.prepares = rep[i].prepares
  <2>1. CASE m.type = "ACK"
    <3> DEFINE a == [rep[i].acks EXCEPT ![j] = MaxOf(@, m.slot)]
    <3>1. t = [rep[i] EXCEPT !.acks = a]
      BY <1>4, <2>1
    <3> HIDE DEF a
    <3> QED
      BY <1>1, <1>4, <3>1 DEF ReplicaRecord, Leads
  <2>2. CASE m.type # "ACK"
    BY <1>4, <2>2 DEF Leads
  <2> QED
    BY <2>1, <2>2
<1> HIDE DEF t
<1>8. Leads(R1, i) /\ R1[i].applied = rep[i].applied /\ R1[i].prepares = rep[i].prepares
  BY <1>5, <1>7 DEF Leads
<1>9. \A q \in Replicas \ {i} : R1[q] = rep[q]
  BY <1>1, <1>5, BecomesOthers
<1>10. \A q \in Replicas : R1[q].prepares = rep[q].prepares
  <2> TAKE q \in Replicas
  <2>1. q # i => R1[q] = rep[q]
    BY <1>9
  <2> QED
    BY <1>8, <2>1
<1>11. NetType(n1) /\ State(R1, Flight(n1), c) /\ Fresh(R1, n1)
  <2>1. NetType(n1)
    BY <1>1, TakenFlight DEF n1
  <2>2. State(R1, Flight(n1), c)
    BY <1>1, <1>6, TakenState DEF n1
  <2>3. Fresh(R1, n1)
    BY <1>1, <1>10, TakenFresh DEF n1
  <2> QED
    BY <2>1, <2>2, <2>3
<1>12. R1[i].applied >= rep[i].applied
  BY <1>1, <1>8, ReplicaFields
<1>13. Midway(R1, i, c)
  BY <1>3, <1>9, <1>11, <1>12 DEF Midway
<1>14. Becomes(R1, rep', i, ApplyDecided(i, R1[i]))
  BY <1>5
<1> QED
  BY <1>8, <1>13, <1>14, LeaderEnds

\* A PROPOSE of its leader that is no shorter than its log waits at i.
Accepts(R, W, i, j, m) ==
    /\ ~Leads(R, i) /\ Tallied(R[i])
    /\ m \in W[j][i] /\ m.type = "PROPOSE" /\ m.round = R[i].probe
    /\ ~(m.round = R[i].ack /\ m.slot + Len(m.values) < LogEnd(R[i]))

\* A follower takes over a proposal, applies and truncates.
LEMMA AcceptState ==
    ASSUME NEW R, NEW W, NEW c, State(R, W, c), NEW i \in Replicas, NEW j \in Replicas, NEW m,
           Accepts(R, W, i, j, m), NEW R2, Becomes(R, R2, i, AcceptPropose(i, R[i], m))
    PROVE  /\ State(R2, W, c) /\ Tallied(R2[i]) /\ R2[i].ack = m.round /\ R2[i].probe = m.round
           /\ R2[i].prepares = R[i].prepares /\ R2[i].applied >= R[i].applied
<1> DEFINE t1 == TakenOver(R[i], m)
           R1 == [R EXCEPT ![i] = t1]
           t3 == ApplyDecided(i, t1)
           R3 == [R EXCEPT ![i] = t3]
           t2 == AcceptPropose(i, R[i], m)
<1> USE DEF Accepts
<1>0. R \in [Replicas -> ReplicaRecord]
  BY DEF State, Core, Typed
<1>1. Becomes(R, R1, i, t1) /\ R1[i] = t1 /\ Becomes(R1, R3, i, t3)
  <2> HIDE DEF t1, t3
  <2>1. R1[i] = t1 /\ [R1 EXCEPT ![i] = t3] = R3
    BY <1>0
  <2> QED
    BY <2>1 DEF Becomes
<1>2. R3[i] = t3 /\ Becomes(R3, R2, i, t2)
  <2>1. R2 = [R EXCEPT ![i] = t2]
    BY DEF Becomes
  <2> HIDE DEF t3, t2
  <2>2. R3[i] = t3 /\ [R3 EXCEPT ![i] = t2] = [R EXCEPT ![i] = t2]
    BY <1>0
  <2> QED
    BY <2>1, <2>2 DEF Becomes
<1> HIDE DEF R1, R3
<1>3. /\ State(R1, W, c)
      /\ t2 = LET t == ApplyDecided(i, R1[i])
              IN  DropBelow(t, MinOf(MinOf(m.trunc, t.applied), LogEnd(t)))
      /\ R1[i].leader = R[i].leader /\ R1[i].probe = R[i].probe /\ R1[i].ack = m.round
      /\ R1[i].prepares = R[i].prepares /\ R1[i].acks = R[i].acks
      /\ R1[i].decided >= R[i].decided /\ R1[i].applied = R[i].applied
  <2> HIDE DEF t1
  <2>1. Becomes(R, R1, i, TakenOver(R[i], m))
    BY <1>1 DEF t1
  <2> QED
    BY <2>1, TakenOverState
<1>4. ~Leads(R1, i) /\ Tallied(R1[i])
  <2>1. R[i] \in ReplicaRecord /\ R1[i] \in ReplicaRecord
    BY <1>3, StateFields DEF State
  <2> QED
    BY <1>3, <2>1, TalliedSame DEF Leads
<1>5. /\ State(R3, W, c) /\ Tallied(R3[i]) /\ SameRole(R1[i], R3[i])
      /\ R3[i].applied >= R1[i].applied
  <2>1. Becomes(R1, R3, i, ApplyDecided(i, R1[i]))
    BY <1>1
  <2> QED
    BY <1>3, <1>4, <2>1, FollowerState
<1>6. t2 = DropBelow(R3[i], MinOf(MinOf(m.trunc, R3[i].applied), LogEnd(R3[i])))
  BY <1>1, <1>2, <1>3
<1>7. R3[i].ack = m.round
  BY <1>3, <1>5 DEF SameRole
<1>8. Settled(R3, W, c, m.trunc, R3[i].ack) /\ m.trunc \in Nat
  <2>1. ProposeWitnessed(R3, W, c, i, m)
    BY <1>5 DEF State, Core, Witnesses
  <2>2. m \in Message
    BY DEF State, Core, Typed
  <2> QED
    BY <1>7, <2>1, <2>2, MessageFields DEF ProposeWitnessed
<1> HIDE DEF t2
<1>9. /\ State(R2, W, c) /\ SameRole(R3[i], R2[i])
      /\ R2[i].applied = R3[i].applied /\ R2[i].decided = R3[i].decided
  <2> DEFINE trunc == m.trunc
  <2>1. Becomes(R3, R2, i, DropBelow(R3[i], MinOf(MinOf(trunc, R3[i].applied), LogEnd(R3[i]))))
    BY <1>2, <1>6
  <2>2. Settled(R3, W, c, trunc, R3[i].ack) /\ trunc \in Nat
    BY <1>8
  <2> HIDE DEF trunc
  <2> QED
    BY <1>5, <2>1, <2>2, DropState
<1>10. R3[i] \in ReplicaRecord /\ R2[i] \in ReplicaRecord /\ R3[i].decided \in Nat
  BY <1>5, <1>9, StateFields, ReplicaFields DEF State
<1>11. Tallied(R2[i])
  <2>1. R2[i].acks = R3[i].acks /\ R2[i].decided >= R3[i].decided
    BY <1>9, <1>10 DEF SameRole
  <2> QED
    BY <1>5, <1>10, <2>1, TalliedSame
<1>12. R2[i].ack = m.round /\ R2[i].probe = m.round /\ R2[i].prepares = R[i].prepares
  BY <1>3, <1>5, <1>9 DEF SameRole
<1> QED
  BY <1>3, <1>5, <1>9, <1>11, <1>12

Followed(s, j, m) ==
    [StepDown(s, j, m) EXCEPT !.leader = j] = [s EXCEPT !.probe = m.round, !.leader = j]

\* A follower takes the sender of a PROPOSE for its leader.
LEMMA FollowIs ==
    ASSUME NEW s \in ReplicaRecord, NEW j \in Replicas, NEW m, m.round \in Nat, m.round >= s.probe
    PROVE  Followed(s, j, m)
<1> USE DEF Followed
<1> DEFINE r == m.round
<1>1. s.probe \in Nat
  BY ReplicaFields
<1>2. CASE m.round > s.probe
  <2>1. StepDown(s, j, m) = [s EXCEPT !.probe = r, !.leader = j]
    BY <1>2 DEF StepDown
  <2>2. r \in Nat
    OBVIOUS
  <2> HIDE DEF r
  <2>3. [StepDown(s, j, m) EXCEPT !.leader = j] = [s EXCEPT !.probe = r, !.leader = j]
    BY <2>1, <2>2 DEF ReplicaRecord
  <2> QED
    BY <2>3 DEF r
<1>3. CASE m.round = s.probe
  <2>1. StepDown(s, j, m) = s
    BY <1>1, <1>3 DEF StepDown
  <2>2. r = s.probe
    BY <1>3
  <2> HIDE DEF r
  <2>3. [s EXCEPT !.leader = j] = [s EXCEPT !.probe = r, !.leader = j]
    BY <2>2 DEF ReplicaRecord
  <2> QED
    BY <2>1, <2>3 DEF r
<1> QED
  BY <1>1, <1>2, <1>3

\* Accepting a PROPOSE, or only acknowledging it, keeps the invariant.
LEMMA ReceiveProposeProgress ==
    ASSUME NEW c, Whole(rep, net, c), NEW i \in Replicas, NEW j \in Incoming(i), ReceivePropose(i, j)
    PROVE  Progress(c)
<1> DEFINE m == Msg(i, j)
           s == [StepDown(rep[i], j, m) EXCEPT !.leader = j]
           shorter == m.round = s.ack /\ m.slot + Len(m.values) < LogEnd(s)
           t == IF shorter THEN s ELSE AcceptPropose(i, s, m)
           out == [p \in {j} |-> Ack(t)]
           R1 == [rep EXCEPT ![i] = s]
           n1 == Taken(i, j)
<1>1. /\ State(rep, Flight(net), c) /\ NetType(net) /\ Fresh(rep, net) /\ Tallied(rep[i])
      /\ rep[i] \in ReplicaRecord
  <2>1. State(rep, Flight(net), c)
    BY DEF Whole
  <2> QED
    BY <2>1, StateFields DEF Whole, State
<1>2. /\ j \in Replicas /\ j # i /\ m \in Flight(net)[j][i] /\ m \in Message /\ m.round \in Nat
  BY <1>1, IncomingIs
<1>3. /\ m.type = "PROPOSE" /\ m.round >= rep[i].probe /\ StepDown(rep[i], j, m).leader # i
      /\ rep' = [rep EXCEPT ![i] = t] /\ net' \in Sent(n1, i, {j}, out)
  BY DEF ReceivePropose, Gets
<1>4. Becomes(rep, R1, i, s) /\ R1[i] = s /\ Becomes(R1, rep', i, t)
  <2>1. Becomes(rep, R1, i, s) /\ Becomes(rep, rep', i, t)
    BY <1>3 DEF Becomes
  <2> HIDE DEF R1, s, t
  <2> QED
    BY <1>1, <2>1, BecomesTwice
<1>5. /\ NetType(n1) /\ \A p, q \in Replicas : \A b \in Flight(n1)[p][q] : b \in Flight(net)[p][q]
  BY <1>1, TakenFlight
<1> HIDE DEF R1, n1, m
<1>6. s = [rep[i] EXCEPT !.probe = m.round, !.leader = j]
  <2>1. Followed(rep[i], j, m)
    BY <1>1, <1>2, <1>3, FollowIs
  <2> QED
    BY <2>1 DEF Followed
<1> HIDE DEF s
<1>7. State(R1, Flight(net), c)
  <2> DEFINE r == m.round
  <2>1. r > rep[i].probe \/ ~Leads(rep, i)
    <3>1. r = rep[i].probe => StepDown(rep[i], j, m) = rep[i]
      BY <1>2 DEF StepDown
    <3>2. rep[i].probe \in Nat
      BY <1>1, ReplicaFields
    <3> QED
      BY <1>2, <1>3, <3>1, <3>2 DEF Leads
  <2>2. Becomes(rep, R1, i, [rep[i] EXCEPT !.probe = r, !.leader = j])
    BY <1>4, <1>6
  <2>3. r \in Nat /\ r >= rep[i].probe
    BY <1>2, <1>3
  <2> HIDE DEF r
  <2> QED
    BY <1>1, <1>2, <2>1, <2>2, <2>3, FollowsState
<1>8. /\ s.probe = m.round /\ s.leader = j /\ s.acks = rep[i].acks /\ s.decided = rep[i].decided
      /\ s.applied = rep[i].applied /\ s.prepares = rep[i].prepares /\ s \in ReplicaRecord
  <2> DEFINE r == m.round
  <2>1. s = [rep[i] EXCEPT !.probe = r, !.leader = j] /\ r \in Nat
    BY <1>2, <1>6
  <2> HIDE DEF r
  <2>2. /\ s.probe = r /\ s.leader = j /\ s.acks = rep[i].acks /\ s.decided = rep[i].decided
        /\ s.applied = rep[i].applied /\ s.prepares = rep[i].prepares /\ s \in ReplicaRecord
    BY <1>1, <1>2, <2>1 DEF ReplicaRecord
  <2> QED
    BY <2>2 DEF r
<1>9. ~Leads(R1, i) /\ Tallied(R1[i])
  <2>1. s.decided >= rep[i].decided
    BY <1>1, <1>8, ReplicaFields
  <2> QED
    BY <1>1, <1>2, <1>4, <1>8, <2>1, TalliedSame DEF Leads
<1>10. /\ State(rep', Flight(net), c) /\ Tallied(rep'[i]) /\ rep'[i].ack = m.round
       /\ rep'[i].probe = m.round /\ rep'[i].prepares = rep[i].prepares
       /\ rep'[i].applied >= rep[i].applied
  <2>1. CASE shorter
    <3>1. R1 \in [Replicas -> ReplicaRecord]
      BY <1>7 DEF State, Core, Typed
    <3>2. rep' = [R1 EXCEPT ![i] = R1[i]]
      BY <1>4, <2>1 DEF Becomes
    <3>3. rep' = R1
      BY <3>1, <3>2
    <3>4. rep[i].applied \in Nat
      BY <1>1, ReplicaFields
    <3> QED
      BY <1>4, <1>7, <1>8, <1>9, <2>1, <3>3, <3>4
  <2>2. CASE ~shorter
    <3>1. Becomes(R1, rep', i, AcceptPropose(i, R1[i], m))
      BY <1>4, <2>2
    <3>2. ~(m.round = R1[i].ack /\ m.slot + Len(m.values) < LogEnd(R1[i])) /\ m.round = R1[i].probe
      BY <1>4, <1>8, <2>2
    <3> HIDE DEF t, shorter
    <3>3. /\ State(rep', Flight(net), c) /\ Tallied(rep'[i]) /\ rep'[i].ack = m.round
          /\ rep'[i].probe = m.round /\ rep'[i].prepares = R1[i].prepares
          /\ rep'[i].applied >= R1[i].applied
      <4>1. Accepts(R1, Flight(net), i, j, m)
        BY <1>2, <1>3, <1>9, <3>2 DEF Accepts
      <4> QED
        BY <1>2, <1>7, <3>1, <4>1, AcceptState
    <3> QED
      BY <1>4, <1>8, <3>3
  <2> QED
    BY <2>1, <2>2
<1> HIDE DEF shorter, t
<1>11. rep'[i] = t /\ \A q \in Replicas \ {i} : rep'[q] = rep[q]
  <2>1. rep'[i] = t /\ \A q \in Replicas \ {i} : rep'[q] = R1[q]
    BY <1>4, <1>7, BecomesOthers
  <2>2. \A q \in Replicas \ {i} : R1[q] = rep[q]
    BY <1>1, <1>4, BecomesOthers
  <2> QED
    BY <2>1, <2>2
<1>12. t \in ReplicaRecord /\ Ack(t) \in Message /\ Ack(t).type = "ACK"
  <2>1. rep'[i] \in ReplicaRecord
    BY <1>10, StateFields DEF State
  <2> QED
    BY <1>11, <2>1, AckIs
<1>13. Sends(n1, i, {j}, out, net') /\ \A q \in {j} : out[q] = Ack(t)
  BY <1>2, <1>3, <1>5, <1>12 DEF Sends
<1> HIDE DEF out
<1>14. /\ NetType(net')
       /\ \A p, q \in Replicas : \A b \in Flight(net')[p][q] :
            \/ b \in Flight(n1)[p][q]
            \/ p = i /\ q \in {j} /\ b = out[q]
  BY <1>13, SentFlight
<1>15. Posted(rep', i, j, Ack(rep'[i]))
  <2>1. MessageRounds(rep, j, i, m)
    BY <1>1, <1>2 DEF State, Core, Rounds
  <2>2. Owner(m.round) = j
    BY <1>3, <2>1 DEF MessageRounds
  <2> QED
    BY <1>10, <2>2 DEF Posted
<1>16. State(rep', Flight(net'), c)
  <2>1. \A p, q \in Replicas : \A b \in Flight(net')[p][q] :
          b \in Flight(net)[p][q] \/ Posted(rep', p, q, b)
    <3> SUFFICES ASSUME NEW p \in Replicas, NEW q \in Replicas, NEW b \in Flight(net')[p][q],
                        b \notin Flight(net)[p][q]
                 PROVE  Posted(rep', p, q, b)
      OBVIOUS
    <3>1. p = i /\ q = j /\ b = Ack(t)
      BY <1>5, <1>13, <1>14
    <3> QED
      BY <1>11, <1>15, <3>1
  <2> QED
    BY <1>10, <2>1, StatePosts
<1>17. Fresh(rep', net')
  <2>1. \A q \in Replicas : rep'[q].prepares = rep[q].prepares
    <3> TAKE q \in Replicas
    <3>1. q # i => rep'[q] = rep[q]
      BY <1>11
    <3> QED
      BY <1>10, <3>1
  <2>2. Fresh(rep', n1)
    BY <1>1, <2>1, TakenFresh DEF n1
  <2>3. Others({j}, out)
    BY <1>12, <1>13 DEF Others, Once
  <2> QED
    BY <1>13, <2>2, <2>3, FreshSent
<1>18. Midway(rep', i, c)
  BY <1>10, <1>11, <1>14, <1>16, <1>17 DEF Midway
<1> QED
  BY <1>10, <1>18, QuietEnds

-----------------------------------------------------------------------------
(* The start.                                                              *)

\* The record of a replica that has just started.
LEMMA InitRecord ==
    ASSUME Init, NEW i \in Replicas
    PROVE  /\ rep[i] \in ReplicaRecord
           /\ rep[i].leader = 0 /\ rep[i].probe = 0 /\ rep[i].ack = 0 /\ rep[i].election = 0
           /\ rep[i].prepares = <<>> /\ rep[i].log = <<>> /\ rep[i].base = 0 /\ rep[i].next = 0
           /\ \A q \in Replicas : rep[i].acks[q] = 0
           /\ rep[i].decided = 0 /\ rep[i].applied = 0 /\ rep[i].db = <<>> /\ rep[i].journal = <<>>
           /\ DOMAIN rep[i].waiters = {} /\ DOMAIN rep[i].calls = {}
<1> DEFINE zero == [j \in Replicas |-> 0]
           none == NoFunction
           u == [leader |-> 0, probe |-> 0, ack |-> 0, election |-> 0, prepares |-> <<>>, log |-> <<>>,
                 base |-> 0, next |-> 0, acks |-> zero, decided |-> 0, applied |-> 0, db |-> <<>>,
                 journal |-> <<>>, waiters |-> none, calls |-> none]
<1>1. rep[i] = u
  BY DEF Init
<1>2. zero \in [Replicas -> Nat] /\ \A q \in Replicas : zero[q] = 0
  OBVIOUS
<1>3. none \in WaiterTable /\ none \in CallTable /\ DOMAIN none = {}
  <2>1. DOMAIN none = {} /\ none = [x \in DOMAIN none |-> none[x]]
    BY DEF NoFunction
  <2> HIDE DEF none
  <2> QED
    BY <2>1, WaiterTableIs, CallTableIs
<1>4. 0 \in Replicas /\ 0 \in Nat
  BY PaxosAssumption DEF Replicas
<1>5. <<>> \in Seq(Requests) /\ <<>> \in Seq(PrepareMessage)
  BY EmptySeq
<1> HIDE DEF zero, none
<1>6. u \in ReplicaRecord
  BY <1>2, <1>3, <1>4, <1>5 DEF ReplicaRecord
<1> QED
  BY <1>1, <1>2, <1>3, <1>6

\* Nothing is on its way.
LEMMA InitNet ==
    ASSUME Init
    PROVE  /\ NetType(net) /\ \A p, q \in Replicas : net[p][q] = <<>> /\ Flight(net)[p][q] = {}
<1>1. \A p, q \in Replicas : net[p][q] = <<>>
  BY DEF Init
<1>2. <<>> \in Seq(Message)
  BY EmptySeq
<1>3. NetType(net)
  BY <1>2 DEF Init, NetType
<1>4. \A p, q \in Replicas : Flight(net)[p][q] = {}
  <2> SUFFICES ASSUME NEW p \in Replicas, NEW q \in Replicas, NEW m \in Flight(net)[p][q]
               PROVE  FALSE
    OBVIOUS
  <2>1. PICK k \in DOMAIN net[p][q] : m = net[p][q][k]
    BY FlightAt
  <2>2. DOMAIN net[p][q] = 1..Len(net[p][q]) /\ Len(net[p][q]) = 0
    BY <1>1, <1>2, EmptySeq, LenProperties
  <2> QED
    BY <2>1, <2>2
<1> QED
  BY <1>1, <1>3, <1>4

\* Every log is empty.
LEMMA InitLogs ==
    ASSUME Init
    PROVE  /\ Reports(rep, Flight(net)) = {}
           /\ \A t \in Logs(rep, Flight(net)) :
                 t.round = 0 /\ t.slot = 0 /\ EndOf(t) = 0 /\ Slots(t) = {}
           /\ \A i \in Replicas : LogEnd(rep[i]) = 0 /\ rep[i].base = 0
<1>0. <<>> \in Seq(Requests) /\ Len(<<>>) = 0
  BY EmptySeq
<1>1. Reports(rep, Flight(net)) = {}
  <2> SUFFICES ASSUME NEW m \in Reports(rep, Flight(net))
               PROVE  FALSE
    OBVIOUS
  <2>1. \A p, q \in Replicas : m \notin Flight(net)[p][q]
    BY InitNet
  <2>2. PICK i \in Replicas : \E k \in DOMAIN rep[i].prepares : m = rep[i].prepares[k]
    BY <2>1, InReports
  <2>3. rep[i].prepares = <<>> /\ <<>> \in Seq(PrepareMessage) /\ Len(<<>>) = 0
    BY InitRecord, EmptySeq
  <2>4. DOMAIN rep[i].prepares = 1..0
    BY <2>3, LenProperties
  <2> QED
    BY <2>2, <2>4
<1>2. \A i \in Replicas : LogEnd(rep[i]) = 0 /\ rep[i].base = 0
  BY <1>0, InitRecord DEF LogEnd
<1>3. \A i \in Replicas : LET t == Held(rep[i])
                          IN  t.round = 0 /\ t.slot = 0 /\ EndOf(t) = 0 /\ Slots(t) = {}
  BY <1>0, InitRecord DEF Held, EndOf, Slots
<1>4. ASSUME NEW t \in Logs(rep, Flight(net))
      PROVE  \E i \in Replicas : t = Held(rep[i])
  <2>1. \A p, q \in Replicas : Flight(net)[p][q] = {}
    BY InitNet
  <2> QED
    BY <1>1, <2>1, InLogs
<1> QED
  BY <1>1, <1>2, <1>3, <1>4

\* Nothing is chosen, by anyone.
LEMMA InitChosen ==
    ASSUME Init, NEW Q \in SUBSET Replicas
    PROVE  Chosen(rep, Flight(net), <<>>, Q, 0, 0)
<1>1. Len(<<>>) = 0 /\ Owner(0) \in Replicas
  BY EmptySeq, OwnerType
<1>2. \A t \in Logs(rep, Flight(net)) : Covers(t, <<>>, 0) /\ Matches(t, <<>>, 0)
  BY InitLogs DEF Covers, Matches
<1>3. \A i \in Replicas : Covers(Held(rep[i]), <<>>, 0)
  BY <1>2, InLogs
<1>4. \A i \in Replicas : rep[i].ack = 0
  BY InitRecord
<1>5. Reports(rep, Flight(net)) = {}
  BY InitLogs
<1> QED
  BY <1>1, <1>2, <1>3, <1>4, <1>5 DEF Chosen

\* Nothing is chosen at the start, and no one has anything.
LEMMA InitCore ==
    ASSUME Init
    PROVE  Core(rep, Flight(net), <<>>)
<1> DEFINE W == Flight(net)
<1>1. Typed(rep, W) /\ <<>> \in Seq(Requests)
  <2>1. rep \in [Replicas -> ReplicaRecord]
    <3>1. rep = [i \in Replicas |-> rep[i]]
      BY DEF Init
    <3> QED
      BY <3>1, InitRecord
  <2>2. \A p, q \in Replicas : W[p][q] \subseteq Message
    BY InitNet
  <2> QED
    BY <2>1, <2>2, EmptySeq DEF Typed
<1>2. /\ \A p, q \in Replicas : W[p][q] = {}
      /\ Reports(rep, W) = {}
      /\ \A t \in Logs(rep, W) : t.round = 0 /\ t.slot = 0 /\ EndOf(t) = 0 /\ Slots(t) = {}
      /\ \A i \in Replicas : LogEnd(rep[i]) = 0 /\ rep[i].base = 0
  BY InitNet, InitLogs
<1>3. Settled(rep, W, <<>>, 0, 0) /\ Decided(rep, W, <<>>, 0, 0)
  <2>1. 0 \in 0..0 /\ Replicas \in Quorums /\ Replicas \in SUBSET Replicas
    BY ReplicasFinite
  <2> QED
    BY <2>1, InitChosen DEF Settled, Decided
<1>4. Len(<<>>) = 0 /\ 0 \in Replicas /\ Owner(0) = 0
  BY EmptySeq, PaxosAssumption DEF Owner, Replicas
<1> HIDE DEF W
<1>5. Rounds(rep, W)
  <2>1. \A i \in Replicas : ReplicaRounds(rep, i)
    <3> TAKE i \in Replicas
    <3>1. /\ rep[i].leader = 0 /\ rep[i].probe = 0 /\ rep[i].ack = 0 /\ rep[i].election = 0
          /\ rep[i].prepares = <<>>
      BY InitRecord
    <3>2. DOMAIN rep[i].prepares = {}
      <4>1. <<>> \in Seq(PrepareMessage) /\ Len(<<>>) = 0
        BY EmptySeq
      <4>2. DOMAIN rep[i].prepares = 1..0
        BY <3>1, <4>1, LenProperties
      <4> QED
        BY <4>2
    <3> QED
      BY <1>4, <3>1, <3>2 DEF ReplicaRounds, Leads
  <2>2. \A t \in Logs(rep, W) : LogRounds(rep, t)
    <3> TAKE t \in Logs(rep, W)
    <3>1. t.round = 0 /\ rep[Owner(0)].ack = 0
      BY <1>2, <1>4, InitRecord
    <3> QED
      BY <3>1 DEF LogRounds
  <2> QED
    BY <1>2, <2>1, <2>2 DEF Rounds
<1>6. Indices(rep, <<>>)
  <2> SUFFICES ASSUME NEW i \in Replicas
               PROVE  ReplicaIndices(rep[i], <<>>) /\ LeaderIndices(rep[i], i)
    BY DEF Indices
  <2>1. /\ rep[i].base = 0 /\ rep[i].applied = 0 /\ rep[i].decided = 0 /\ rep[i].db = <<>>
        /\ rep[i].next = 0 /\ LogEnd(rep[i]) = 0 /\ \A q \in Replicas : rep[i].acks[q] = 0
    BY <1>2, InitRecord
  <2>2. <<>> = SubSeq(<<>>, 1, 0)
    BY <1>1, SubSeqProperties, EmptySeq
  <2> QED
    BY <1>4, <2>1, <2>2 DEF ReplicaIndices, LeaderIndices
<1>7. LogsAgree(rep, W)
  BY <1>2 DEF LogsAgree, Agree
<1>8. Witnesses(rep, W, <<>>)
  <2>1. \A i \in Replicas : /\ Settled(rep, W, <<>>, rep[i].base, rep[i].ack)
                            /\ Decided(rep, W, <<>>, rep[i].decided, rep[i].ack)
    BY <1>3, InitRecord
  <2> QED
    BY <1>2, <1>3, <1>4, <2>1 DEF Witnesses
<1>9. Votes(rep, W, <<>>)
  <2>1. \A i, q \in Replicas : Backed(rep, W, <<>>, q, rep[i].acks[q], rep[i].ack)
    BY <1>3, InitRecord DEF Backed
  <2> QED
    BY <1>2, <2>1 DEF Votes
<1>10. Safe(rep, W)
  <2>1. \A i \in Replicas, t \in Logs(rep, W) : ~(t.round > rep[i].ack)
    BY <1>2, InitRecord
  <2> QED
    BY <2>1 DEF Safe
<1>11. Core(rep, W, <<>>)
  BY <1>1, <1>5, <1>6, <1>7, <1>8, <1>9, <1>10 DEF Core
<1> QED
  BY <1>11 DEF W

\* The invariant holds at the start.
LEMMA InitWhole ==
    ASSUME Init
    PROVE  Whole(rep, net, <<>>)
<1>1. Places(rep, Flight(net)) = {} /\ Sequenced(<<>>) = {}
  <2>1. Len(<<>>) = 0
    BY EmptySeq
  <2> QED
    BY <2>1, InitLogs DEF Places, Sequenced
<1>2. Books(rep, Places(rep, Flight(net)), <<>>)
  <2>1. \A i \in Replicas : /\ rep[i].applied = 0 /\ DOMAIN rep[i].waiters = {}
                            /\ DOMAIN rep[i].calls = {}
    BY InitRecord
  <2> QED
    BY <1>1, <2>1 DEF Books, WaitersKept, CallsKept, Recorded
<1>3. Fresh(rep, net)
  <2>1. /\ \A p, q \in Replicas : Flight(net)[p][q] = {}
        /\ \A p, q \in Replicas : net[p][q] = <<>>
    BY InitNet
  <2>2. \A p, q \in Replicas : DOMAIN net[p][q] = {}
    BY <2>1
  <2> QED
    BY <2>1, <2>2 DEF Fresh, Single
<1>4. \A q \in Replicas : Tallied(rep[q])
  <2> TAKE q \in Replicas
  <2>1. rep[q] \in ReplicaRecord /\ rep[q].decided = 0 /\ \A p \in Replicas : rep[q].acks[p] <= 0
    BY InitRecord
  <2>2. QuorumAcked(rep[q]) <= 0
    BY <2>1, QuorumAckedIs
  <2> QED
    BY <2>1, <2>2 DEF Tallied
<1> QED
  BY <1>2, <1>3, <1>4, InitCore, InitNet DEF Whole, State

\* Each action keeps the invariant.
LEMMA NextProgress ==
    ASSUME NEW c, Whole(rep, net, c), Next
    PROVE  Progress(c)
<1>1. ASSUME NEW i \in Replicas, NEW v \in Requests, Submit(i, v)
      PROVE  Progress(c)
  BY <1>1, SubmitProgress
<1>2. ASSUME NEW i \in Replicas, StartElection(i)
      PROVE  Progress(c)
  BY <1>2, StartElectionProgress
<1>3. ASSUME NEW i \in Replicas, Retransmit(i)
      PROVE  Progress(c)
  BY <1>3, RetransmitProgress
<1>4. ASSUME NEW i \in Replicas, NEW j \in Incoming(i), ReceiveStale(i, j)
      PROVE  Progress(c)
  BY <1>4, ReceiveStaleProgress
<1>5. ASSUME NEW i \in Replicas, NEW j \in Incoming(i), ReceiveProbe(i, j)
      PROVE  Progress(c)
  BY <1>5, ReceiveProbeProgress
<1>6. ASSUME NEW i \in Replicas, NEW j \in Incoming(i), ReceivePrepare(i, j)
      PROVE  Progress(c)
  BY <1>6, ReceivePrepareProgress
<1>7. ASSUME NEW i \in Replicas, NEW j \in Incoming(i), WinElection(i, j)
      PROVE  Progress(c)
  BY <1>7, WinElectionProgress
<1>8. ASSUME NEW i \in Replicas, NEW j \in Incoming(i), ReceiveAsLeader(i, j)
      PROVE  Progress(c)
  BY <1>8, ReceiveAsLeaderProgress
<1>9. ASSUME NEW i \in Replicas, NEW j \in Incoming(i), ReceivePropose(i, j)
      PROVE  Progress(c)
  BY <1>9, ReceiveProposeProgress
<1> QED
  BY <1>1, <1>2, <1>3, <1>4, <1>5, <1>6, <1>7, <1>8, <1>9 DEF Next

\* The invariant is inductive.
LEMMA StepKeepsInv ==
    ASSUME Inv, [Next]_vars
    PROVE  Inv'
<1>1. PICK c \in Seq(Requests) : Whole(rep, net, c)
  BY DEF Inv
<1>2. CASE Next
  <2>1. Progress(c)
    BY <1>1, <1>2, NextProgress
  <2> QED
    BY <2>1 DEF Progress, Inv
<1>3. CASE UNCHANGED vars
  <2>1. rep' = rep /\ net' = net
    BY <1>3 DEF vars
  <2>2. Whole(rep', net', c)
    BY <1>1, <2>1
  <2> QED
    BY <2>2 DEF Inv
<1> QED
  BY <1>2, <1>3

\* The inductive invariant holds in every behaviour of pt_paxos_replica, whatever
\* is lost, delayed, retransmitted or elected.
THEOREM Invariance == Spec => []Inv
<1>1. Init => Inv
  <2>1. <<>> \in Seq(Requests)
    BY EmptySeq
  <2> QED
    BY <2>1, InitWhole DEF Inv
<1>2. Inv /\ [Next]_vars => Inv'
  BY StepKeepsInv
<1> QED
  BY <1>1, <1>2, PTL DEF Spec

-----------------------------------------------------------------------------
(* What follows from the invariant.                                        *)

\* The invariant implies that the state keeps its types and leaders their index.
LEMMA InvTypeOK == Inv => TypeOK
<1> SUFFICES ASSUME NEW c, Whole(rep, net, c), NEW i \in Replicas
             PROVE  LET s == rep[i] IN
                    /\ s.leader \in Replicas
                    /\ s.ack \in 0..s.probe /\ s.election \in 0..s.probe
                    /\ s.log \in Seq(Requests) /\ s.db \in Seq(Requests) /\ s.journal \in Seq(Requests)
                    /\ s.acks \in [Replicas -> Nat]
                    /\ s.base \in 0..s.applied /\ s.applied \in 0..s.decided /\ s.applied <= LogEnd(s)
                    /\ s.leader = i => s.next = LogEnd(s)
                    /\ \A k \in DOMAIN s.waiters : s.waiters[k] \in DOMAIN s.calls
                    /\ \A v \in DOMAIN s.calls : v \in Requests /\ s.calls[v] \in Requests \cup {NoReply}
  BY DEF Inv, TypeOK
<1> DEFINE s == rep[i]
<1>1. State(rep, Flight(net), c)
  BY DEF Whole
<1>2. s \in ReplicaRecord
  BY <1>1, StateFields DEF State
<1>3. ReplicaRounds(rep, i) /\ ReplicaIndices(s, c) /\ (Leads(rep, i) => LeaderIndices(s, i))
  BY <1>1 DEF State, Core, Rounds, Indices
<1>4. \A k \in DOMAIN s.waiters : s.waiters[k] \in DOMAIN s.calls
  BY <1>1 DEF State, Books, WaitersKept
<1>5. s.calls \in CallTable
  BY <1>2 DEF ReplicaRecord
<1>6. \A v \in DOMAIN s.calls : v \in Requests /\ s.calls[v] \in Requests \cup {NoReply}
  BY <1>5, CallTableIs
<1>7. /\ s.leader \in Replicas /\ s.probe \in Nat /\ s.ack \in Nat /\ s.election \in Nat
      /\ s.log \in Seq(Requests) /\ s.base \in Nat /\ s.acks \in [Replicas -> Nat] /\ s.decided \in Nat
      /\ s.applied \in Nat /\ s.db \in Seq(Requests) /\ s.journal \in Seq(Requests)
  BY <1>2, ReplicaFields
<1>8. s.ack <= s.probe /\ s.election <= s.probe
  BY <1>3 DEF ReplicaRounds
<1>9. s.base <= s.applied /\ s.applied <= s.decided /\ s.applied <= LogEnd(s)
  BY <1>3 DEF ReplicaIndices
<1>10. s.leader = i => s.next = LogEnd(s)
  BY <1>3 DEF Leads, LeaderIndices
<1> HIDE DEF s
<1>11. /\ s.ack \in 0..s.probe /\ s.election \in 0..s.probe
       /\ s.base \in 0..s.applied /\ s.applied \in 0..s.decided
  BY <1>7, <1>8, <1>9
<1> QED
  BY <1>4, <1>6, <1>7, <1>9, <1>10, <1>11 DEF s

\* What a replica has applied, slot by slot.
LEMMA DbIs ==
    ASSUME NEW R, NEW W, NEW c, Core(R, W, c), NEW q \in Replicas
    PROVE  /\ R[q].applied \in Nat /\ R[q].applied <= Len(c) /\ Len(R[q].db) = R[q].applied
           /\ R[q].db \in Seq(Requests) /\ DOMAIN R[q].db = 1..R[q].applied
           /\ \A k \in 1..R[q].applied : R[q].db[k] = c[k]
<1>1. /\ c \in Seq(Requests) /\ Len(c) \in Nat /\ R[q].applied \in 0..Len(c)
      /\ R[q].db = SubSeq(c, 1, R[q].applied)
  BY StateFields
<1> DEFINE n == R[q].applied
           db == R[q].db
<1>2. n \in 0..Len(c) /\ db = SubSeq(c, 1, n)
  BY <1>1
<1> HIDE DEF n, db
<1>3. /\ Len(SubSeq(c, 1, n)) = n /\ SubSeq(c, 1, n) \in Seq(Requests)
      /\ \A k \in 1..n : SubSeq(c, 1, n)[k] = c[k]
  <2>1. \A k \in 1..n : c[k] \in Requests
    <3>1. \A k \in 1..n : k \in 1..Len(c)
      BY <1>1, <1>2
    <3> QED
      BY <1>1, <3>1, ElementOfSeq
  <2>2. /\ SubSeq(c, 1, n) \in Seq(Requests) /\ Len(SubSeq(c, 1, n)) = IF 1 <= n THEN n - 1 + 1 ELSE 0
        /\ \A k \in 1..(n - 1 + 1) : SubSeq(c, 1, n)[k] = c[1 + k - 1]
    BY <1>1, <1>2, <2>1, SubSeqProperties
  <2>3. n \in Nat /\ n - 1 + 1 = n /\ (~(1 <= n) => n = 0) /\ \A k \in 1..n : 1 + k - 1 = k
    BY <1>1, <1>2
  <2> QED
    BY <2>2, <2>3
<1>4. DOMAIN db = 1..Len(db)
  BY <1>2, <1>3, LenProperties
<1> QED
  BY <1>1, <1>2, <1>3, <1>4 DEF n, db

\* The invariant implies that a replica applies within its log.
LEMMA InvNoSlotSkipped == Inv => NoSlotSkipped
BY DbIs DEF Inv, Whole, State, NoSlotSkipped

\* The invariant implies that two dbs are prefixes of one sequence.
LEMMA InvAgreement == Inv => Agreement
<1> SUFFICES ASSUME NEW c, Whole(rep, net, c), NEW i \in Replicas, NEW j \in Replicas,
                    NEW k \in 1..MinOf(Len(rep[i].db), Len(rep[j].db))
             PROVE  rep[i].db[k] = rep[j].db[k]
  BY DEF Inv, Agreement
<1>1. Core(rep, Flight(net), c)
  BY DEF Whole, State
<1>2. /\ rep[i].applied \in Nat /\ Len(rep[i].db) = rep[i].applied
      /\ \A l \in 1..rep[i].applied : rep[i].db[l] = c[l]
  BY <1>1, DbIs
<1>3. /\ rep[j].applied \in Nat /\ Len(rep[j].db) = rep[j].applied
      /\ \A l \in 1..rep[j].applied : rep[j].db[l] = c[l]
  BY <1>1, DbIs
<1>4. k \in 1..rep[i].applied /\ k \in 1..rep[j].applied
  BY <1>2, <1>3 DEF MinOf
<1> QED
  BY <1>2, <1>3, <1>4

\* The invariant implies that two logs of a round hold the same request in a slot.
LEMMA InvLogsOfOneRoundAgree == Inv => LogsOfOneRoundAgree
<1> SUFFICES ASSUME NEW c, Whole(rep, net, c), NEW i \in Replicas, NEW j \in Replicas,
                    rep[i].ack = rep[j].ack,
                    NEW k \in MaxOf(rep[i].base, rep[j].base)..(MinOf(LogEnd(rep[i]), LogEnd(rep[j])) - 1)
             PROVE  rep[i].log[k - rep[i].base + 1] = rep[j].log[k - rep[j].base + 1]
  BY DEF Inv, LogsOfOneRoundAgree
<1>1. Core(rep, Flight(net), c)
  BY DEF Whole, State
<1>2. \A q \in {i, j} : /\ Held(rep[q]) \in Logs(rep, Flight(net)) /\ rep[q].base \in Nat
                        /\ LogEnd(rep[q]) \in Nat /\ Held(rep[q]).round = rep[q].ack
                        /\ Held(rep[q]).slot = rep[q].base /\ EndOf(Held(rep[q])) = LogEnd(rep[q])
                        /\ Held(rep[q]).values = rep[q].log
  BY <1>1, StateFields, ReplicaFields
<1>3. Agree(Held(rep[i]), Held(rep[j]))
  BY <1>1, <1>2 DEF Core, LogsAgree
<1>4. k \in rep[i].base..(LogEnd(rep[i]) - 1) /\ k \in rep[j].base..(LogEnd(rep[j]) - 1)
  BY <1>2 DEF MaxOf, MinOf
<1>5. k \in Slots(Held(rep[i])) \cap Slots(Held(rep[j]))
  BY <1>2, <1>4 DEF Slots
<1>6. At(Held(rep[i]), k) = At(Held(rep[j]), k)
  BY <1>3, <1>5 DEF Agree
<1> QED
  BY <1>2, <1>6 DEF At

\* The invariant implies that a truncation stays within the logs it is told to.
LEMMA InvCutStaysInLog == Inv => CutStaysInLog
<1> SUFFICES ASSUME NEW c, Whole(rep, net, c), NEW i \in Replicas, NEW j \in Incoming(i),
                    Gets(i, j, "PROPOSE"), Msg(i, j).round > rep[i].ack
             PROVE  Msg(i, j).slot + Len(Msg(i, j).values) >= rep[i].applied
  BY DEF Inv, CutStaysInLog
<1> DEFINE m == Msg(i, j)
<1>1. Core(rep, Flight(net), c) /\ NetType(net)
  BY DEF Whole, State
<1>2. j \in Replicas /\ m \in Flight(net)[j][i] /\ m.round \in Nat /\ m.type = "PROPOSE" /\ m.round > rep[i].ack
  BY <1>1, IncomingIs DEF Gets
<1>3. m.round >= rep[i].ack
  BY <1>1, <1>2, StateFields, ReplicaFields
<1> HIDE DEF m
<1>4. EndOf(m) >= rep[i].applied
  BY <1>1, <1>2, <1>3, ProposeFits
<1> QED
  BY <1>4 DEF EndOf, m

\* The invariant implies that an ACK reaches the leader of its round or finds it
\* gone.
LEMMA InvAcksReachTheirLeader == Inv => AcksReachTheirLeader
<1> SUFFICES ASSUME NEW c, Whole(rep, net, c), NEW i \in Replicas, NEW j \in Incoming(i), Gets(i, j, "ACK")
             PROVE  /\ rep[i].leader = i /\ Msg(i, j).round = rep[i].ack
                    /\ Msg(i, j).slot <= LogEnd(rep[i])
  BY DEF Inv, AcksReachTheirLeader
<1> DEFINE m == Msg(i, j)
<1>1. Core(rep, Flight(net), c) /\ NetType(net)
  BY DEF Whole, State
<1>2. /\ j \in Replicas /\ m \in Flight(net)[j][i] /\ m.round \in Nat /\ m.type = "ACK"
      /\ m.round >= rep[i].probe
  BY <1>1, IncomingIs DEF Gets
<1> HIDE DEF m
<1>3. MessageRounds(rep, j, i, m) /\ ReplicaRounds(rep, i)
  BY <1>1, <1>2 DEF Core, Rounds
<1>4. rep[i].ack \in Nat /\ rep[i].probe \in Nat
  BY <1>1, StateFields, ReplicaFields
<1>5. Owner(m.round) = i /\ m.round <= rep[i].probe /\ m.round <= rep[i].ack /\ rep[i].ack <= rep[i].probe
  BY <1>2, <1>3 DEF MessageRounds, ReplicaRounds
<1>6. m.round = rep[i].ack /\ m.round = rep[i].probe
  BY <1>2, <1>4, <1>5
<1>7. Leads(rep, i)
  BY <1>3, <1>5, <1>6 DEF ReplicaRounds
<1>8. m.slot <= LogEnd(rep[i])
  BY <1>1, <1>2, <1>6, <1>7 DEF Core, Votes
<1> QED
  BY <1>6, <1>7, <1>8 DEF Leads, m

\* The invariant implies that an answered request is where every later leader
\* finds it.
LEMMA InvAnsweredSurvives == Inv => AnsweredSurvives
<1> SUFFICES ASSUME NEW c, Whole(rep, net, c), NEW i \in Replicas, NEW l \in Replicas,
                    NEW v \in DOMAIN rep[i].calls, rep[i].calls[v] = v, rep[l].leader = l,
                    \A j \in Replicas : rep[j].ack <= rep[l].ack
             PROVE  \/ \E k \in DOMAIN rep[l].db : rep[l].db[k] = v
                    \/ \E k \in DOMAIN rep[l].log : rep[l].log[k] = v
  BY DEF Inv, AnsweredSurvives
<1> DEFINE W == Flight(net)
           t == Held(rep[l])
<1>1. Core(rep, W, c) /\ Books(rep, Places(rep, W), c)
  BY DEF Whole, State
<1>2. rep[i] \in ReplicaRecord /\ rep[l] \in ReplicaRecord /\ rep[i].applied <= rep[i].decided
  BY <1>1, StateFields
<1>3. v \in Requests /\ v # NoReply
  <2>1. rep[i].calls \in CallTable
    BY <1>2 DEF ReplicaRecord
  <2> QED
    BY <2>1, CallTableIs DEF Requests, NoReply
<1>4. PICK k \in 1..rep[i].applied : c[k] = v
  <2>1. CallsKept(rep[i], Places(rep, W) \cup Sequenced(c), c)
    BY <1>1 DEF Books
  <2> QED
    BY <1>3, <2>1 DEF CallsKept
<1>5. /\ rep[i].applied \in Nat /\ rep[i].decided \in Nat /\ rep[i].ack \in Nat /\ rep[l].ack \in Nat
      /\ rep[l].base \in Nat /\ LogEnd(rep[l]) \in Nat /\ rep[l].log \in Seq(Requests)
  BY <1>2, ReplicaFields
<1>6. /\ t \in Logs(rep, W) /\ t.round = rep[l].ack /\ t.slot = rep[l].base
      /\ t.values = rep[l].log /\ EndOf(t) = LogEnd(rep[l])
  BY <1>1, <1>2, StateFields, ReplicaFields
<1>7. Covers(t, c, rep[i].decided)
  <2>1. Decided(rep, W, c, rep[i].decided, rep[i].ack)
    BY <1>1 DEF Core, Witnesses
  <2>2. PICK Q \in Quorums, s \in 0..rep[i].ack : Chosen(rep, W, c, Q, rep[i].decided, s)
    BY <2>1 DEF Decided
  <2>3. s <= rep[l].ack /\ s \in Nat
    BY <1>5
  <2>4. CASE s < rep[l].ack
    BY <1>5, <1>6, <2>2, <2>3, <2>4 DEF Chosen
  <2>5. CASE s = rep[l].ack
    BY <2>2, <2>5 DEF Chosen, Leads
  <2> QED
    BY <1>5, <2>3, <2>4, <2>5
<1>8. CASE k <= rep[l].base
  <2>1. /\ rep[l].applied \in Nat /\ DOMAIN rep[l].db = 1..rep[l].applied
        /\ \A x \in 1..rep[l].applied : rep[l].db[x] = c[x]
    BY <1>1, DbIs
  <2>2. rep[l].base <= rep[l].applied
    BY <1>1, StateFields
  <2>3. k \in 1..rep[l].applied
    BY <1>5, <1>8, <2>1, <2>2
  <2> QED
    BY <1>4, <2>1, <2>3
<1>9. CASE k > rep[l].base
  <2> DEFINE slot == k - 1
  <2>1. EndOf(t) >= rep[i].decided /\ Matches(t, c, rep[i].decided)
    BY <1>7 DEF Covers
  <2>2. slot \in Slots(t) /\ slot < rep[i].decided /\ slot + 1 = k
    BY <1>2, <1>5, <1>6, <1>9, <2>1 DEF Slots
  <2>3. At(t, slot) = c[slot + 1]
    BY <2>1, <2>2 DEF Matches
  <2>4. rep[l].log[slot - rep[l].base + 1] = v
    BY <1>4, <1>6, <2>2, <2>3 DEF At
  <2>5. slot - rep[l].base + 1 \in DOMAIN rep[l].log
    <3>1. DOMAIN rep[l].log = 1..Len(rep[l].log) /\ Len(rep[l].log) \in Nat
      BY <1>5, LenProperties
    <3>2. slot \in rep[l].base..(LogEnd(rep[l]) - 1)
      BY <1>6, <2>2 DEF Slots
    <3>3. LogEnd(rep[l]) = rep[l].base + Len(rep[l].log)
      BY DEF LogEnd
    <3> DEFINE b == rep[l].base
               len == Len(rep[l].log)
               e == LogEnd(rep[l])
    <3>4. slot \in b..(e - 1) /\ b \in Nat /\ len \in Nat /\ e \in Nat
      BY <1>5, <3>1, <3>2
    <3>5. e = b + len
      BY <3>3
    <3> HIDE DEF slot, b, len, e
    <3>6. slot - b + 1 \in 1..len
      BY <3>4, <3>5
    <3> QED
      BY <3>1, <3>6 DEF b, len
  <2> QED
    BY <2>4, <2>5
<1> QED
  BY <1>4, <1>5, <1>8, <1>9

\* The invariant implies that a request answered as lost is not executed.
LEMMA InvLostRequestsStayLost == Inv => LostRequestsStayLost
<1> SUFFICES ASSUME NEW c, Whole(rep, net, c), NEW i \in Replicas, NEW j \in Replicas,
                    NEW v \in DOMAIN rep[i].calls, rep[i].calls[v] \notin {v, NoReply},
                    Contains(rep[j].db, v)
             PROVE  FALSE
  BY DEF Inv, LostRequestsStayLost
<1> DEFINE A == Places(rep, Flight(net)) \cup Sequenced(c)
<1>1. Core(rep, Flight(net), c) /\ Books(rep, Places(rep, Flight(net)), c) /\ c \in Seq(Requests)
  BY DEF Whole, State, Core
<1>2. /\ rep[j].applied \in Nat /\ rep[j].applied <= Len(c) /\ Len(rep[j].db) = rep[j].applied
      /\ \A k \in 1..rep[j].applied : rep[j].db[k] = c[k]
  BY <1>1, DbIs
<1>3. PICK k \in 1..rep[j].applied : c[k] = v
  BY <1>2 DEF Contains
<1>4. <<v, k - 1>> \in Sequenced(c)
  <2>1. k \in 1..Len(c)
    BY <1>1, <1>2, LenProperties
  <2> QED
    BY <1>1, <1>3, <2>1, InSequenced
<1>5. CallsKept(rep[i], A, c)
  BY <1>1 DEF Books
<1>6. \A x \in A : x[1] = v => x \notin Sequenced(c)
  BY <1>5 DEF CallsKept
<1> QED
  BY <1>4, <1>6

\* The invariant implies that what is executed somewhere is in a decision log.
LEMMA InvNothingGoesUnlogged == Inv => NothingGoesUnlogged
<1> SUFFICES ASSUME NEW c, Whole(rep, net, c), NEW i \in Replicas, NEW k \in DOMAIN rep[i].db
             PROVE  \E j \in Replicas : Contains(rep[j].journal, rep[i].db[k])
  BY DEF Inv, NothingGoesUnlogged
<1>1. Core(rep, Flight(net), c) /\ Recorded(rep, c)
  BY DEF Whole, State, Books
<1>2. k \in 1..rep[i].applied /\ rep[i].db[k] = c[k]
  BY <1>1, DbIs
<1> QED
  BY <1>1, <1>2 DEF Recorded

-----------------------------------------------------------------------------
(* The refinement.                                                         *)

\* x is the longest of the dbs of R.
IsLongest(R, x) ==
    LET D == {R[q].db : q \in Replicas}
    IN  x = CHOOSE d \in D : \A e \in D : Len(e) <= Len(d)

\* The longest db is that of the replica that has applied most.
LEMMA LongestIs ==
    ASSUME NEW R, NEW W, NEW c, Core(R, W, c), NEW x, IsLongest(R, x)
    PROVE  \E l \in Replicas : x = R[l].db /\ \A q \in Replicas : R[q].applied <= R[l].applied
<1> DEFINE S == {R[q].applied : q \in Replicas}
           D == {R[q].db : q \in Replicas}
<1>0. x = CHOOSE d \in D : \A e \in D : Len(e) <= Len(d)
  BY DEF IsLongest
<1>1. \A q \in Replicas : /\ R[q].applied \in Nat /\ R[q].applied <= Len(c)
                          /\ Len(R[q].db) = R[q].applied
  BY DbIs
<1>2. 0 \in Replicas /\ Len(c) \in Nat
  BY PaxosAssumption, LenProperties DEF Replicas, Core
<1>3. S \in SUBSET Nat /\ S # {} /\ \A y \in S : y <= Len(c)
  BY <1>1, <1>2
<1>4. Max(S) \in S /\ \A y \in S : y <= Max(S)
  <2> HIDE DEF S
  <2> QED
    BY <1>2, <1>3, MaxIs
<1>5. PICK p \in Replicas : \A q \in Replicas : R[q].applied <= R[p].applied
  <2>1. PICK p \in Replicas : R[p].applied = Max(S)
    BY <1>4
  <2> QED
    BY <1>4, <2>1
<1>6. R[p].db \in D /\ \A e \in D : Len(e) <= Len(R[p].db)
  BY <1>1, <1>5
<1>7. x \in D /\ \A e \in D : Len(e) <= Len(x)
  <2> HIDE DEF D
  <2> QED
    BY <1>0, <1>6
<1>8. PICK l \in Replicas : x = R[l].db
  BY <1>7
<1>9. \A q \in Replicas : R[q].applied <= R[l].applied
  BY <1>1, <1>7, <1>8
<1> QED
  BY <1>8, <1>9

\* A prefix of a prefix.
LEMMA PrefixIs ==
    ASSUME NEW c \in Seq(Requests), NEW d \in Seq(Requests), Extends(d, c), NEW n \in 0..Len(c)
    PROVE  /\ SubSeq(d, 1, n) = SubSeq(c, 1, n) /\ SubSeq(c, 1, n) \in Seq(Requests)
           /\ Len(SubSeq(c, 1, n)) = n /\ \A k \in 1..n : SubSeq(c, 1, n)[k] = c[k]
           /\ \A k \in 0..n : SubSeq(SubSeq(c, 1, n), 1, k) = SubSeq(c, 1, k)
<1>1. ASSUME NEW e \in Seq(Requests), NEW k \in 0..Len(e)
      PROVE  /\ SubSeq(e, 1, k) \in Seq(Requests) /\ Len(SubSeq(e, 1, k)) = k
             /\ \A x \in 1..k : SubSeq(e, 1, k)[x] = e[x]
  <2>1. Len(e) \in Nat
    BY LenProperties
  <2>2. \A x \in 1..k : e[x] \in Requests
    <3>1. \A x \in 1..k : x \in 1..Len(e)
      BY <2>1
    <3> QED
      BY <3>1, ElementOfSeq
  <2>3. /\ SubSeq(e, 1, k) \in Seq(Requests) /\ Len(SubSeq(e, 1, k)) = IF 1 <= k THEN k - 1 + 1 ELSE 0
        /\ \A x \in 1..(k - 1 + 1) : SubSeq(e, 1, k)[x] = e[1 + x - 1]
    BY <2>1, <2>2, SubSeqProperties
  <2>4. k \in Nat /\ k - 1 + 1 = k /\ (~(1 <= k) => k = 0) /\ \A x \in 1..k : 1 + x - 1 = x
    BY <2>1
  <2> QED
    BY <2>3, <2>4
<1>2. Len(c) \in Nat /\ Len(d) \in Nat /\ Len(c) <= Len(d) /\ \A k \in 1..Len(c) : d[k] = c[k]
  BY LenProperties DEF Extends
<1>3. n \in 0..Len(d) /\ n \in Nat /\ \A k \in 1..n : k \in 1..Len(c)
  BY <1>2
<1>4. SubSeq(d, 1, n) = SubSeq(c, 1, n)
  <2> DEFINE a == SubSeq(d, 1, n)
             b == SubSeq(c, 1, n)
  <2>1. /\ a \in Seq(Requests) /\ b \in Seq(Requests) /\ Len(a) = Len(b) /\ Len(a) = n
        /\ \A k \in 1..n : a[k] = b[k]
    BY <1>1, <1>2, <1>3
  <2> HIDE DEF a, b
  <2>2. a = b
    BY <2>1, SeqEqual
  <2> QED
    BY <2>2 DEF a, b
<1>5. ASSUME NEW k \in 0..n
      PROVE  SubSeq(SubSeq(c, 1, n), 1, k) = SubSeq(c, 1, k)
  <2> DEFINE e == SubSeq(c, 1, n)
             a == SubSeq(e, 1, k)
             b == SubSeq(c, 1, k)
  <2>1. e \in Seq(Requests) /\ Len(e) = n /\ \A x \in 1..n : e[x] = c[x]
    BY <1>1
  <2>2. k \in 0..Len(c) /\ k \in 0..Len(e) /\ \A x \in 1..k : x \in 1..n
    BY <1>2, <1>3, <2>1
  <2>3. b \in Seq(Requests) /\ Len(b) = k /\ \A x \in 1..k : b[x] = c[x]
    BY <1>1, <2>2
  <2> HIDE DEF e
  <2>4. a \in Seq(Requests) /\ Len(a) = k /\ \A x \in 1..k : a[x] = e[x]
    BY <1>1, <2>1, <2>2
  <2>5. \A x \in 1..k : a[x] = b[x]
    BY <2>1, <2>2, <2>3, <2>4
  <2> HIDE DEF a, b
  <2>6. a = b
    BY <2>3, <2>4, <2>5, SeqEqual
  <2> QED
    BY <2>6 DEF a, b, e
<1> QED
  BY <1>1, <1>4, <1>5

\* The start is an empty log.
LEMMA RefinesInit == Init => RL!Init
<1> SUFFICES ASSUME Init
             PROVE  RL!Init
  OBVIOUS
<1>1. \A i \in Replicas : rep[i].db = <<>>
  BY InitRecord
<1>2. 0 \in Replicas
  BY PaxosAssumption DEF Replicas
<1>3. Dbs = {<<>>}
  BY <1>1, <1>2 DEF Dbs
<1>4. LongestDb = <<>>
  BY <1>3 DEF LongestDb
<1>5. [i \in Replicas |-> rep[i].db] = [i \in Replicas |-> <<>>]
  BY <1>1
<1> QED
  BY <1>4, <1>5 DEF RL!Init

\* A step is one of the log's, or stutters.
LEMMA StepRefines ==
    ASSUME NEW c, Whole(rep, net, c), Progress(c)
    PROVE  [RL!Next]_<<LongestDb, [i \in Replicas |-> rep[i].db]>>
<1> DEFINE ex == [i \in Replicas |-> rep[i].db]
           log == LongestDb
           log2 == LongestDb'
<1>1. PICK d \in Seq(Requests) : Extends(d, c) /\ Whole(rep', net', d)
  BY DEF Progress
<1>2. PICK i \in Replicas : /\ rep'[i].applied >= rep[i].applied
                           /\ \A q \in Replicas \ {i} : rep'[q] = rep[q]
  BY DEF Progress
<1>3. /\ Core(rep, Flight(net), c) /\ c \in Seq(Requests) /\ Len(c) \in Nat
      /\ Core(rep', Flight(net'), d) /\ Len(d) \in Nat /\ Len(c) <= Len(d)
  BY <1>1, LenProperties DEF Whole, State, Core, Extends
<1>4. \A q \in Replicas : rep[q].applied \in 0..Len(c) /\ rep[q].db = SubSeq(c, 1, rep[q].applied)
  BY <1>3, StateFields
<1>5. \A q \in Replicas : rep'[q].applied \in 0..Len(d) /\ rep'[q].db = SubSeq(d, 1, rep'[q].applied)
  BY <1>3, StateFields
<1>6. PICK l \in Replicas : log = rep[l].db /\ \A q \in Replicas : rep[q].applied <= rep[l].applied
  <2>1. IsLongest(rep, log)
    BY DEF IsLongest, LongestDb, Dbs
  <2> QED
    BY <1>3, <2>1, LongestIs
<1>7. PICK k \in Replicas : log2 = rep'[k].db /\ \A q \in Replicas : rep'[q].applied <= rep'[k].applied
  <2>1. IsLongest(rep', log2)
    BY DEF IsLongest, LongestDb, Dbs
  <2> QED
    BY <1>3, <2>1, LongestIs
<1> DEFINE a == rep[i].applied
           b == rep'[i].applied
           m == rep[l].applied
           n == rep'[k].applied
<1>8. /\ a \in 0..Len(c) /\ b \in 0..Len(d) /\ m \in 0..Len(c) /\ n \in 0..Len(d)
      /\ a <= b /\ a <= m /\ b <= n
      /\ n = b \/ n = m \/ n <= m
      /\ m <= n
  <2>1. a \in 0..Len(c) /\ b \in 0..Len(d) /\ m \in 0..Len(c) /\ n \in 0..Len(d) /\ a <= b /\ a <= m /\ b <= n
    BY <1>2, <1>4, <1>5, <1>6, <1>7
  <2>2. k # i => rep'[k] = rep[k]
    BY <1>2
  <2>3. k # i => n <= m
    BY <1>6, <2>2
  <2>4. l # i => rep'[l] = rep[l]
    BY <1>2
  <2>5. m <= n
    <3>1. l # i => m <= n
      BY <1>7, <2>4
    <3>2. l = i => m = a
      OBVIOUS
    <3> HIDE DEF a, b, m, n
    <3> QED
      BY <2>1, <3>1, <3>2
  <2>6. k = i => n = b
    OBVIOUS
  <2> QED
    BY <2>1, <2>3, <2>5, <2>6
<1>9. log = SubSeq(c, 1, m) /\ log2 = SubSeq(d, 1, n) /\ rep'[i].db = SubSeq(d, 1, b) /\ rep[i].db = SubSeq(c, 1, a)
  BY <1>4, <1>5, <1>6, <1>7
<1>10. ex' = [ex EXCEPT ![i] = SubSeq(d, 1, b)]
  <2>1. \A q \in Replicas : rep'[q].db = IF q = i THEN SubSeq(d, 1, b) ELSE rep[q].db
    <3> TAKE q \in Replicas
    <3>1. q # i => rep'[q] = rep[q]
      BY <1>2
    <3> QED
      BY <1>9, <3>1
  <2> QED
    BY <2>1
<1>11. ex[i] = SubSeq(c, 1, a)
  BY <1>9
<1> HIDE DEF a, b, m, n, log, log2
<1>12. CASE b = a
  <2>1. SubSeq(d, 1, b) = SubSeq(c, 1, a)
    BY <1>1, <1>3, <1>8, <1>12, PrefixIs
  <2>2. ex' = ex
    BY <1>10, <1>11, <2>1
  <2>3. n = m
    BY <1>3, <1>8, <1>12
  <2>4. log2 = log
    BY <1>1, <1>3, <1>8, <1>9, <2>3, PrefixIs
  <2> QED
    BY <2>2, <2>4 DEF log, log2
<1>13. CASE a < b /\ b <= m
  <2>1. n = m
    BY <1>3, <1>8, <1>13
  <2>2. log2 = log
    BY <1>1, <1>3, <1>8, <1>9, <2>1, PrefixIs
  <2>3. SubSeq(d, 1, b) = SubSeq(c, 1, b) /\ SubSeq(log, 1, b) = SubSeq(c, 1, b) /\ Len(log) = m
    <3>1. b \in 0..Len(c) /\ b \in 0..m
      BY <1>3, <1>8, <1>13
    <3> QED
      BY <1>1, <1>3, <1>8, <1>9, <3>1, PrefixIs
  <2>4. Len(ex[i]) = a
    BY <1>1, <1>3, <1>8, <1>11, PrefixIs
  <2>5. b \in (Len(ex[i]) + 1)..Len(log)
    BY <1>8, <1>13, <2>3, <2>4
  <2>6. ex' = [ex EXCEPT ![i] = SubSeq(log, 1, b)]
    BY <1>10, <2>3
  <2>7. RL!CatchUp(i)
    BY <2>2, <2>5, <2>6 DEF RL!CatchUp, log, log2
  <2> QED
    BY <2>7 DEF RL!Next
<1>14. CASE b > m
  <2>1. n = b
    BY <1>3, <1>8, <1>14
  <2>2. /\ log2 \in Seq(Requests) /\ Len(log2) = b /\ \A x \in 1..b : log2[x] = d[x]
        /\ SubSeq(log2, 1, m) = SubSeq(d, 1, m)
    <3>1. Extends(d, d)
      BY ExtendsSelf
    <3>2. b \in 0..Len(d) /\ m \in 0..b
      BY <1>3, <1>8, <1>14
    <3> QED
      BY <1>9, <2>1, <3>1, <3>2, PrefixIs
  <2>3. SubSeq(d, 1, m) = log /\ Len(log) = m
    BY <1>1, <1>3, <1>8, <1>9, PrefixIs
  <2>4. Len(log2) > Len(log) /\ SubSeq(log2, 1, Len(log)) = log
    BY <1>14, <2>2, <2>3
  <2>5. DOMAIN log2 = 1..b /\ \A x \in DOMAIN log2 : log2[x] \in Requests
    BY <2>2, LenProperties, ElementOfSeq
  <2>6. \A x, y \in DOMAIN log2 : x # y => log2[x] # log2[y]
    <3> SUFFICES ASSUME NEW x \in DOMAIN log2, NEW y \in DOMAIN log2, log2[x] = log2[y]
                 PROVE  x = y
      OBVIOUS
    <3>1. x \in 1..Len(d) /\ y \in 1..Len(d)
      BY <1>3, <1>8, <2>5
    <3>2. <<d[x], x - 1>> \in Sequenced(d) /\ <<d[y], y - 1>> \in Sequenced(d)
      BY <3>1, InSequenced
    <3>3. \A u, w \in Places(rep', Flight(net')) \cup Sequenced(d) : u[1] = w[1] => u[2] = w[2]
      BY <1>1 DEF Whole, State, Books
    <3>4. d[x] = d[y]
      BY <2>2, <2>5
    <3>5. x - 1 = y - 1
      BY <3>2, <3>3, <3>4
    <3> QED
      BY <1>3, <3>1, <3>5
  <2>7. ex' = [ex EXCEPT ![i] = log2]
    BY <1>9, <1>10, <2>1
  <2>8. RL!Decide
    BY <2>4, <2>5, <2>6, <2>7 DEF RL!Decide, log, log2
  <2> QED
    BY <2>8 DEF RL!Next
<1> QED
  BY <1>3, <1>8, <1>12, <1>13, <1>14 DEF a, b, m

\* The replicas implement one replicated log, for every number of replicas and of
\* requests and with no bound on rounds or messages.
THEOREM Refinement == Spec => ImplementsReplicatedLog
<1>1. Init => RL!Init
  BY RefinesInit
<1>2. Inv /\ [Next]_vars => [RL!Next]_<<LongestDb, [i \in Replicas |-> rep[i].db]>>
  <2> SUFFICES ASSUME Inv, [Next]_vars
               PROVE  [RL!Next]_<<LongestDb, [i \in Replicas |-> rep[i].db]>>
    OBVIOUS
  <2>1. CASE Next
    <3>1. PICK c \in Seq(Requests) : Whole(rep, net, c)
      BY DEF Inv
    <3>2. Progress(c)
      BY <2>1, <3>1, NextProgress
    <3> QED
      BY <3>1, <3>2, StepRefines
  <2>2. CASE UNCHANGED vars
    BY <2>2 DEF vars, LongestDb, Dbs
  <2> QED
    BY <2>1, <2>2
<1>3. Spec => []Inv
  BY Invariance
<1> QED
  BY <1>1, <1>2, <1>3, PTL DEF Spec, ImplementsReplicatedLog, RL!Spec

-----------------------------------------------------------------------------
(* What the replicas know of c.                                            *)

\* What is chosen of c is chosen of a prefix of c.
LEMMA PrefixChosen ==
    ASSUME NEW R, NEW W, Typed(R, W), NEW c \in Seq(Requests), NEW d \in Seq(Requests),
           Extends(c, d), NEW Q \in SUBSET Replicas, NEW r \in Nat,
           Chosen(R, W, c, Q, Len(d), r)
    PROVE  Chosen(R, W, d, Q, Len(d), r)
<1> DEFINE n == Len(d)
<1>1. n \in Nat /\ \A k \in 1..n : d[k] = c[k]
  BY LenProperties DEF Extends
<1>2. ASSUME NEW t \in Log
      PROVE  (Matches(t, c, n) => Matches(t, d, n)) /\ (Covers(t, c, n) => Covers(t, d, n))
  <2>1. \A k \in Slots(t) : k < n => k + 1 \in 1..n
    BY <1>1, LogFields
  <2>2. \A k \in Slots(t) : k < n => c[k + 1] = d[k + 1]
    BY <1>1, <2>1
  <2> QED
    BY <2>2 DEF Matches, Covers
<1>3. \A i \in Replicas : Held(R[i]) \in Log
  BY RecordAt, ReplicaFields
<1>4. \A m \in Reports(R, W) : Reported(m) \in Log
  BY ReportTypes
<1>5. \A q \in Q : R[q].ack >= r /\ Covers(Held(R[q]), d, n)
  BY <1>2, <1>3 DEF Chosen
<1>6. \A m \in Reports(R, W) : m.sender \in Q /\ m.round > r => m.ack >= r /\ Covers(Reported(m), d, n)
  BY <1>2, <1>4 DEF Chosen
<1>7. \A t \in Logs(R, W) : (t.round > r => Covers(t, d, n)) /\ (t.round = r => Matches(t, d, n))
  BY <1>2, LogTypes DEF Chosen
<1>8. \A i \in Replicas : Leads(R, i) /\ R[i].ack = r => Covers(Held(R[i]), d, n)
  BY <1>2, <1>3 DEF Chosen
<1>9. n <= Len(d) /\ R[Owner(r)].ack >= r
  BY <1>1 DEF Chosen
<1> QED
  BY <1>5, <1>6, <1>7, <1>8, <1>9 DEF Chosen

\* The books of c are the books of a prefix that has all that is applied.
LEMMA PrefixBooks ==
    ASSUME NEW R, NEW P, NEW c \in Seq(Requests), Books(R, P, c), NEW d \in Seq(Requests),
           Extends(c, d), \A q \in Replicas : R[q].applied \in 0..Len(d)
    PROVE  Books(R, P, d)
<1> DEFINE A == P \cup Sequenced(c)
           B == P \cup Sequenced(d)
<1>1. /\ \A x, y \in A : x[1] = y[1] => x[2] = y[2]
      /\ \A x \in A : \E i \in Replicas : x[1] \in DOMAIN R[i].calls
      /\ \A i \in Replicas : WaitersKept(R[i], A) /\ CallsKept(R[i], A, c)
      /\ Recorded(R, c)
  BY DEF Books
<1>2. Len(d) \in Nat /\ Len(c) \in Nat /\ Len(d) <= Len(c) /\ \A k \in 1..Len(d) : d[k] = c[k]
  BY LenProperties DEF Extends
<1>3. Sequenced(d) \subseteq Sequenced(c)
  <2> SUFFICES ASSUME NEW x \in Sequenced(d)
               PROVE  x \in Sequenced(c)
    OBVIOUS
  <2>1. x[2] \in Nat /\ x[2] < Len(d) /\ x = <<d[x[2] + 1], x[2]>>
    BY InSequenced
  <2>2. x[2] + 1 \in 1..Len(d) /\ x[2] + 1 \in 1..Len(c) /\ (x[2] + 1) - 1 = x[2]
    BY <1>2, <2>1
  <2>3. <<c[x[2] + 1], x[2]>> \in Sequenced(c)
    BY <2>2, InSequenced
  <2> QED
    BY <1>2, <2>1, <2>2, <2>3
<1>4. \A q \in Replicas : \A k \in 1..R[q].applied : d[k] = c[k]
  <2>1. \A q \in Replicas : \A k \in 1..R[q].applied : k \in 1..Len(d)
    BY <1>2
  <2> QED
    BY <1>2, <2>1
<1>5. B \subseteq A
  BY <1>3
<1> HIDE DEF A, B
<1>6. ASSUME NEW i \in Replicas
      PROVE  WaitersKept(R[i], B) /\ CallsKept(R[i], B, d)
  <2>1. WaitersKept(R[i], A) /\ CallsKept(R[i], A, c)
    BY <1>1
  <2>2. WaitersKept(R[i], B)
    BY <1>5, <2>1 DEF WaitersKept
  <2>3. CallsKept(R[i], B, d)
    BY <1>3, <1>4, <1>5, <2>1 DEF CallsKept
  <2> QED
    BY <2>2, <2>3
<1>7. Recorded(R, d)
  BY <1>1, <1>4 DEF Recorded
<1> QED
  BY <1>1, <1>5, <1>6, <1>7 DEF Books, B

\* A replica whose log has the first n requests of c knows them, those that it
\* has truncated from its db.
LEMMA KnownIs ==
    ASSUME NEW s \in ReplicaRecord, NEW c \in Seq(Requests), s.base <= s.applied,
           s.applied <= Len(c), s.db = SubSeq(c, 1, s.applied),
           NEW n \in 0..Len(c), Covers(Held(s), c, n)
    PROVE  SubSeq(Known(s), 1, n) = SubSeq(c, 1, n)
<1> DEFINE a == s.base
           old == SubSeq(s.db, 1, a)
           all == old \o s.log
<1>1. /\ a \in Nat /\ s.applied \in Nat /\ s.log \in Seq(Requests) /\ Len(s.log) \in Nat
      /\ Len(c) \in Nat /\ LogEnd(s) = a + Len(s.log) /\ a <= Len(c) /\ n \in Nat
      /\ Held(s) \in Log /\ Held(s).slot = a /\ Held(s).values = s.log
      /\ EndOf(Held(s)) = a + Len(s.log)
  BY ReplicaFields, LenProperties DEF LogEnd
<1>2. Extends(c, c) /\ a \in 0..Len(c) /\ s.applied \in 0..Len(c) /\ a \in 0..s.applied
  BY <1>1 DEF Extends
<1>3. old = SubSeq(c, 1, a)
  BY <1>2, PrefixIs
<1>4. old \in Seq(Requests) /\ Len(old) = a /\ \A k \in 1..a : old[k] = c[k]
  BY <1>2, <1>3, PrefixIs
<1>5. n <= a + Len(s.log) /\ \A k \in Slots(Held(s)) : k < n => At(Held(s), k) = c[k + 1]
  BY <1>1 DEF Covers, Matches
<1>6. \A k \in 1..n : k > a => s.log[k - a] = c[k]
  <2> SUFFICES ASSUME NEW k \in 1..n, k > a
               PROVE  s.log[k - a] = c[k]
    OBVIOUS
  <2> DEFINE l == Len(s.log)
  <2>1. k - 1 \in Int /\ a <= k - 1 /\ k - 1 < a + l /\ k - 1 < n /\ (k - 1) + 1 = k
        /\ (k - 1) - a + 1 = k - a
    <3>1. a \in Nat /\ n \in Nat /\ l \in Nat /\ n <= a + l
      BY <1>1, <1>5
    <3> HIDE DEF a, l
    <3> QED
      BY <3>1
  <2>2. k - 1 \in Slots(Held(s))
    BY <1>1, <2>1, LogFields
  <2>3. At(Held(s), k - 1) = s.log[k - a]
    BY <1>1, <2>1 DEF At
  <2> QED
    BY <1>5, <2>1, <2>2, <2>3
<1> HIDE DEF a, old
<1>7. /\ all \in Seq(Requests) /\ Len(all) = a + Len(s.log)
      /\ \A k \in 1..(a + Len(s.log)) : all[k] = IF k <= a THEN old[k] ELSE s.log[k - a]
  <2> DEFINE new == s.log
  <2>1. old \in Seq(Requests) /\ new \in Seq(Requests) /\ Len(old) = a
    BY <1>1, <1>4
  <2> HIDE DEF new
  <2>2. /\ old \o new \in Seq(Requests) /\ Len(old \o new) = a + Len(new)
        /\ \A k \in 1..(a + Len(new)) : (old \o new)[k] = IF k <= a THEN old[k] ELSE new[k - a]
    BY <2>1, ConcatProperties
  <2> QED
    BY <2>2 DEF new
<1>8. \A k \in 1..n : all[k] = c[k]
  <2> SUFFICES ASSUME NEW k \in 1..n
               PROVE  all[k] = c[k]
    OBVIOUS
  <2>1. k \in 1..(a + Len(s.log)) /\ (k <= a => k \in 1..a)
    BY <1>1, <1>5
  <2> QED
    BY <1>1, <1>4, <1>6, <1>7, <2>1
<1>9. Known(s) = all
  BY DEF Known, a, old
<1> HIDE DEF all
<1>10. n \in 0..Len(all)
  BY <1>1, <1>5, <1>7
<1>11. Extends(all, all) /\ Extends(c, c)
  BY <1>1, <1>7 DEF Extends
<1>12. /\ SubSeq(all, 1, n) \in Seq(Requests) /\ SubSeq(c, 1, n) \in Seq(Requests)
       /\ Len(SubSeq(all, 1, n)) = n /\ Len(SubSeq(c, 1, n)) = n
       /\ \A k \in 1..n : SubSeq(all, 1, n)[k] = all[k] /\ SubSeq(c, 1, n)[k] = c[k]
  BY <1>7, <1>10, <1>11, PrefixIs
<1>13. SubSeq(all, 1, n) = SubSeq(c, 1, n)
  BY <1>8, <1>12, SeqEqual
<1> QED
  BY <1>9, <1>13

\* The replica that knows most to be decided, and one of the quorum that has it.
LEMMA SomeKnowsDecided ==
    ASSUME NEW c, Whole(rep, net, c)
    PROVE  /\ MostDecided \in 0..Len(c) /\ \A q \in Replicas : rep[q].decided <= MostDecided
           /\ \E i, k \in Replicas :
                 /\ Decided(rep, Flight(net), c, MostDecided, rep[i].ack)
                 /\ Covers(Held(rep[k]), c, MostDecided)
<1> DEFINE W == Flight(net)
           S == {rep[i].decided : i \in Replicas}
           n == MostDecided
<1>1. Core(rep, W, c) /\ Witnesses(rep, W, c)
  BY DEF Whole, State, Core
<1>2. Len(c) \in Nat /\ \A q \in Replicas : rep[q].decided \in Nat /\ rep[q].decided <= Len(c)
  BY <1>1, StateFields, ReplicaFields DEF Core, Indices, ReplicaIndices
<1>3. 0 \in Replicas
  BY PaxosAssumption DEF Replicas
<1>4. S \in SUBSET Nat /\ S # {} /\ \A y \in S : y <= Len(c)
  BY <1>2, <1>3
<1>5. n \in S /\ \A y \in S : y <= n
  <2>1. Max(S) \in S /\ \A y \in S : y <= Max(S)
    <3> HIDE DEF S
    <3> QED
      BY <1>2, <1>4, MaxIs
  <2> QED
    BY <2>1 DEF MostDecided
<1>6. PICK i \in Replicas : n = rep[i].decided
  BY <1>5
<1>7. Decided(rep, W, c, n, rep[i].ack)
  BY <1>1, <1>6 DEF Witnesses
<1>8. PICK Q \in Quorums : \E r \in 0..rep[i].ack : Chosen(rep, W, c, Q, n, r)
  BY <1>7 DEF Decided
<1>9. PICK k : k \in Q
  BY <1>8, QuorumsMeet
<1>10. k \in Replicas /\ Covers(Held(rep[k]), c, n)
  BY <1>8, <1>9, QuorumMembers DEF Chosen
<1> QED
  BY <1>2, <1>5, <1>6, <1>7, <1>10

\* The invariant holds of the requests that are known to be decided, as some
\* replica knows them.
LEMMA InvInvariantParts == Inv => InvariantParts
<1> SUFFICES ASSUME NEW c, Whole(rep, net, c)
             PROVE  InvariantParts
  BY DEF Inv
<1> DEFINE W == Flight(net)
           P == Places(rep, W)
           n == MostDecided
           d == SubSeq(c, 1, n)
<1>1. /\ Core(rep, W, c) /\ Books(rep, P, c) /\ c \in Seq(Requests) /\ Len(c) \in Nat
      /\ Typed(rep, W) /\ Rounds(rep, W) /\ Safe(rep, W) /\ Indices(rep, c)
  BY LenProperties DEF Whole, State, Core
<1>2. n \in 0..Len(c) /\ \A q \in Replicas : rep[q].decided <= n
  BY SomeKnowsDecided
<1>3. PICK i \in Replicas, k \in Replicas :
          Decided(rep, W, c, n, rep[i].ack) /\ Covers(Held(rep[k]), c, n)
  BY SomeKnowsDecided
<1>4. \A q \in Replicas :
         /\ rep[q] \in ReplicaRecord /\ rep[q].base <= rep[q].applied
         /\ rep[q].applied \in Nat /\ rep[q].decided \in Nat /\ rep[q].ack \in Nat
         /\ rep[q].applied <= rep[q].decided /\ rep[q].applied <= LogEnd(rep[q])
         /\ rep[q].applied \in 0..Len(c) /\ rep[q].db = SubSeq(c, 1, rep[q].applied)
  BY <1>1, StateFields, ReplicaFields
<1> HIDE DEF W, P, n
<1>5. \A q \in Replicas : rep[q].applied \in 0..n
  <2> SUFFICES ASSUME NEW q \in Replicas
               PROVE  rep[q].applied \in 0..n
    OBVIOUS
  <2> DEFINE a == rep[q].applied
             b == rep[q].decided
  <2>1. a \in Nat /\ b \in Nat /\ a <= b /\ b <= n /\ n \in Nat
    BY <1>2, <1>4
  <2> HIDE DEF a, b
  <2>2. a \in 0..n
    BY <2>1
  <2> QED
    BY <2>2 DEF a
<1>6. LogEnd(rep[k]) >= n
  BY <1>3, <1>4, ReplicaFields DEF Covers
<1>7. SubSeq(Known(rep[k]), 1, n) = d
  <2> DEFINE s == rep[k]
  <2>1. /\ s \in ReplicaRecord /\ s.base <= s.applied /\ s.db = SubSeq(c, 1, s.applied)
        /\ s.applied \in 0..Len(c)
    BY <1>4
  <2>2. s.applied <= Len(c)
    BY <1>1, <2>1
  <2>3. Covers(Held(s), c, n)
    BY <1>3
  <2> HIDE DEF s
  <2>4. SubSeq(Known(s), 1, n) = SubSeq(c, 1, n)
    BY <1>1, <1>2, <2>1, <2>2, <2>3, KnownIs
  <2> QED
    BY <2>4 DEF s
<1>8. /\ d \in Seq(Requests) /\ Len(d) = n /\ \A x \in 1..n : d[x] = c[x]
      /\ \A x \in 0..n : SubSeq(d, 1, x) = SubSeq(c, 1, x)
  <2>1. Extends(c, c)
    BY <1>1 DEF Extends
  <2> QED
    BY <1>1, <1>2, <2>1, PrefixIs
<1> HIDE DEF d
<1>9. Extends(c, d)
  BY <1>1, <1>2, <1>8 DEF Extends
<1>10. Indices(rep, d)
  BY <1>1, <1>2, <1>4, <1>5, <1>8 DEF Indices, ReplicaIndices
<1>11. Books(rep, P, d)
  BY <1>1, <1>5, <1>8, <1>9, PrefixBooks
<1>12. Decided(rep, W, d, n, rep[i].ack)
  <2>1. PICK Q \in Quorums, r \in 0..rep[i].ack : Chosen(rep, W, c, Q, n, r)
    BY <1>3 DEF Decided
  <2>2. Q \in SUBSET Replicas /\ r \in Nat
    BY <1>4, <2>1, QuorumMembers
  <2>3. Chosen(rep, W, d, Q, n, r)
    BY <1>1, <1>8, <1>9, <2>1, <2>2, PrefixChosen
  <2> QED
    BY <2>1, <2>3 DEF Decided
<1> QED
  BY <1>1, <1>6, <1>7, <1>8, <1>10, <1>11, <1>12 DEF InvariantParts, W, P, n

-----------------------------------------------------------------------------
(* The properties that the runs check.                                     *)

\* The state keeps its types, and every index by which the code reaches into
\* log_ stays inside it.
THEOREM TypesCorrect == Spec => []TypeOK
<1>1. Spec => []Inv
  BY Invariance
<1>2. Inv => TypeOK
  BY InvTypeOK
<1> QED
  BY <1>1, <1>2, PTL

\* State machine safety: the replicas apply the same requests in the same order,
\* for every number of replicas, through every loss, delay, retransmission and
\* change of leader.
THEOREM ReplicasAgree == Spec => []Agreement
<1>1. Spec => []Inv
  BY Invariance
<1>2. Inv => Agreement
  BY InvAgreement
<1> QED
  BY <1>1, <1>2, PTL

\* What a replica has applied to its db is all the slots below applied_slot_.
THEOREM NoSlotPassedOver == Spec => []NoSlotSkipped
<1>1. Spec => []Inv
  BY Invariance
<1>2. Inv => NoSlotSkipped
  BY InvNoSlotSkipped
<1> QED
  BY <1>1, <1>2, PTL

\* The logs that two replicas last wrote in the same round hold the same requests
\* where both reach.
THEOREM RoundLogsAgree == Spec => []LogsOfOneRoundAgree
<1>1. Spec => []Inv
  BY Invariance
<1>2. Inv => LogsOfOneRoundAgree
  BY InvLogsOfOneRoundAgree
<1> QED
  BY <1>1, <1>2, PTL

\* The loop that cuts a log before a PROPOSE of a new round never reaches an
\* applied entry, nor an empty log.
THEOREM CutsStayInLog == Spec => []CutStaysInLog
<1>1. Spec => []Inv
  BY Invariance
<1>2. Inv => CutStaysInLog
  BY InvCutStaysInLog
<1> QED
  BY <1>1, <1>2, PTL

\* An ACK that is not stale finds the leader of its round, still leading.
THEOREM AcksFindTheirLeader == Spec => []AcksReachTheirLeader
<1>1. Spec => []Inv
  BY Invariance
<1>2. Inv => AcksReachTheirLeader
  BY InvAcksReachTheirLeader
<1> QED
  BY <1>1, <1>2, PTL

\* A request whose caller got its response is known to the leader of the highest
\* round.
THEOREM AnswersSurvive == Spec => []AnsweredSurvives
<1>1. Spec => []Inv
  BY Invariance
<1>2. Inv => AnsweredSurvives
  BY InvAnsweredSurvives
<1> QED
  BY <1>1, <1>2, PTL

\* A request whose caller got another's response is applied by no replica.
THEOREM LostStaysLost == Spec => []LostRequestsStayLost
<1>1. Spec => []Inv
  BY Invariance
<1>2. Inv => LostRequestsStayLost
  BY InvLostRequestsStayLost
<1> QED
  BY <1>1, <1>2, PTL

\* What any replica has applied is in a decision log.
THEOREM DecisionsAreLogged == Spec => []NothingGoesUnlogged
<1>1. Spec => []Inv
  BY Invariance
<1>2. Inv => NothingGoesUnlogged
  BY InvNothingGoesUnlogged
<1> QED
  BY <1>1, <1>2, PTL

\* The invariant in the form that TLC evaluates, with what some replica knows
\* for the sequence of all that is chosen.
THEOREM InvariantPartsHold == Spec => []InvariantParts
<1>1. Spec => []Inv
  BY Invariance
<1>2. Inv => InvariantParts
  BY InvInvariantParts
<1> QED
  BY <1>1, <1>2, PTL

-----------------------------------------------------------------------------
(* The replicas under failure schedules.                                   *)

\* Whatever a failure schedule cuts, and whatever the clients of the tests wait
\* for, the replicas of PaxosFailover do only what PaxosReplica's may do: what
\* is proved of Spec holds of FSpec.
THEOREM FailoverIsSafe == FSpec => Spec
<1>1. FInit => Init
  BY DEF FInit
<1>2. [FNext]_fvars => [Next]_vars
  <2>1. Failure => UNCHANGED vars
    BY DEF Failure, FailTemporary, Restore, FailSplitBrain, FailPermanent
  <2>2. ASSUME NEW i \in Replicas, ClientStep(i)
        PROVE  Next
    BY <2>2 DEF ClientStep, Next
  <2>3. ASSUME NEW i \in Replicas, ElectionStep(i) \/ RetransmitStep(i)
        PROVE  Next
    BY <2>3 DEF ElectionStep, RetransmitStep, Next
  <2>4. ASSUME NEW i \in Replicas, NEW j \in Peers(i), MessageStep(i, j)
        PROVE  Next
    BY <2>4 DEF MessageStep, Next
  <2>5. UNCHANGED fvars => UNCHANGED vars
    BY DEF fvars, vars
  <2> QED
    BY <2>1, <2>2, <2>3, <2>4, <2>5 DEF FNext
<1> QED
  BY <1>1, <1>2, PTL DEF FSpec, Spec

\* So the replicas agree, whatever fails.
THEOREM FailoverAgrees == FSpec => []Agreement
  BY FailoverIsSafe, ReplicasAgree, PTL
=============================================================================
