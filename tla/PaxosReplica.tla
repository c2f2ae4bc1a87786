---------------------------- MODULE PaxosReplica ----------------------------
(***************************************************************************)
(* The Multi-Paxos replicas, pt_paxos_replica, that put requests to the    *)
(* task manager in one order.  Each replica is one event loop: run() takes *)
(* one message or timeout at a time, and propose_and_apply() runs once per *)
(* client request.  A replica is one record, and a handler a function from *)
(* record to record.                                                       *)
(*                                                                         *)
(* A send does not suspend the coroutine that awaits it here, as with      *)
(* tcp_transport while the socket buffers have room, so that a handler is  *)
(* one step together with its broadcast.                                   *)
(*                                                                         *)
(* A request is a number: what process_req makes of it is the module      *)
(* TaskManager's business, so db is the sequence of requests applied to    *)
(* db_.  Clocks are left out: a follower may at any time find that it has  *)
(* not heard from the leader for 500ms.  Batching and the performance      *)
(* counters are unused by run() and left out.                              *)
(***************************************************************************)
EXTENDS Integers, Sequences, FiniteSets, SequencesExt, FiniteSetsExt

CONSTANTS
    N,            \* nreplicas_
    MaxRequests,  \* bound: client requests ever submitted
    MaxInFlight,  \* bound: messages in flight; any send beyond it is lost
    MaxResend,    \* bound: messages in flight with which a leader still retransmits
    MaxRound      \* bound: the largest round an election may pick

ASSUME PaxosAssumption ==
    /\ N \in Nat \ {0}
    /\ MaxRequests \in Nat
    /\ MaxInFlight \in Nat \ {0}
    /\ MaxResend \in 0..MaxInFlight
    /\ MaxRound \in Nat

VARIABLES
    rep,   \* rep[i]: the pt_paxos_replica with index_ i
    net    \* net[i][j]: the messages in flight from i to j, oldest first

vars == <<rep, net>>

Replicas == 0..(N - 1)
Requests == 1..MaxRequests  \* numbered in the order they are submitted
Quorum == N \div 2 + 1

MaxOf(a, b) == IF a >= b THEN a ELSE b
MinOf(a, b) == IF a <= b THEN a ELSE b

NoFunction == [x \in {} |-> x]
NoReply == 0  \* the call has no response yet

Peers(i) == Replicas \ {i}

Init ==
    /\ rep = [i \in Replicas |->
                [leader |-> 0,          \* leader_index_
                 probe |-> 0,           \* probe_round_
                 ack |-> 0,             \* ack_round_
                 election |-> 0,        \* election_round_
                 prepares |-> <<>>,     \* prepare_responses_
                 log |-> <<>>,          \* log_
                 base |-> 0,            \* log_base_
                 next |-> 0,            \* next_slot_
                 acks |-> [j \in Replicas |-> 0],  \* follower_ack_slot_
                 decided |-> 0,         \* decided_slot_
                 applied |-> 0,         \* applied_slot_
                 db |-> <<>>,           \* the requests applied to db_, in order
                 journal |-> <<>>,      \* the requests passed to on_apply_
                 waiters |-> NoFunction,  \* pending_responses_: slot -> request
                 calls |-> NoFunction]]   \* request -> what its propose_and_apply() got
    /\ net = [i \in Replicas |-> [j \in Replicas |-> <<>>]]

-----------------------------------------------------------------------------
(* The log of a replica.                                                   *)

LogEnd(s) == s.base + Len(s.log)

\* The slots that at least n replicas have acknowledged.
AckedBy(s, n) == {s.acks[j] : j \in {p \in Replicas :
                     Cardinality({q \in Replicas : s.acks[q] >= s.acks[p]}) >= n}}

\* Mutant: sorted_acks[nreplicas_ - quorum + 1], one replica short of a quorum.
QuorumAcked_OffByOne(s) == Max(AckedBy(s, Quorum - 1))

\* try_decide: the largest slot a quorum has acknowledged.
QuorumAcked(s) == Max(AckedBy(s, Quorum))

\* Mutant: max_element.
LeastAcked_Most(s) == Max({s.acks[j] : j \in Replicas})

LeastAcked(s) == Min({s.acks[j] : j \in Replicas})

\* Drop the log's first entries, up to the given slot.
DropBelow(s, slot) ==
    IF s.base < slot
    THEN [s EXCEPT !.log = SubSeq(@, slot - s.base + 1, Len(@)), !.base = slot]
    ELSE s

\* Mutant: truncate what a quorum, not every replica, has.
TryTruncate_Quorum(s) == DropBelow(s, QuorumAcked(s))

\* Mutant: one entry is kept.
TryTruncate_OffByOne(s) == DropBelow(s, LeastAcked(s) - 1)

\* try_truncate
TryTruncate(s) == DropBelow(s, LeastAcked(s))

\* The entries of s's log from the first unapplied slot up to (not
\* including) the given one.
Unapplied(s, upto) == SubSeq(s.log, s.applied - s.base + 1, upto - s.base)

\* Mutant: of the slots applied at once every call gets the first response.
Answer_SameToAll(s, upto) ==
    LET due == {k \in DOMAIN s.waiters : s.applied <= k /\ k < upto}
    IN  [s EXCEPT
           !.calls = [v \in DOMAIN @ |->
                        IF \E k \in due : s.waiters[k] = v
                        THEN s.log[s.applied - s.base + 1]
                        ELSE @[v]],
           !.waiters = [k \in DOMAIN @ \ due |-> @[k]]]

\* Give each propose_and_apply() that waits on one of the slots from
\* s.applied up to upto the response of the entry applied there.
Answer(s, upto) ==
    LET due == {k \in DOMAIN s.waiters : s.applied <= k /\ k < upto}
        entry(k) == s.log[k - s.base + 1]
        slotOf(v) == CHOOSE k \in due : s.waiters[k] = v
    IN  [s EXCEPT
           !.calls = [v \in DOMAIN @ |->
                        IF \E k \in due : s.waiters[k] = v
                        THEN entry(slotOf(v))
                        ELSE @[v]],
           !.waiters = [k \in DOMAIN @ \ due |-> @[k]]]

\* apply_decided: apply what is decided and in the log, answer the waiting
\* calls, and let the leader truncate.
ApplyDecided(i, s) ==
    LET decided == MaxOf(s.decided, QuorumAcked(s))
        upto == MaxOf(s.applied, MinOf(decided, LogEnd(s)))
        t == [Answer(s, upto) EXCEPT !.decided = decided,
                                     !.applied = upto,
                                     !.db = @ \o Unapplied(s, upto),
                                     !.journal = @ \o Unapplied(s, upto)]
    IN  IF i = s.leader THEN TryTruncate(t) ELSE t

-----------------------------------------------------------------------------
(* Messages.                                                               *)

ProposeTo(s, p) ==
    LET start == MaxOf(s.base, MinOf(s.acks[p], LogEnd(s)))
    IN  [type |-> "PROPOSE", slot |-> start,
         values |-> SubSeq(s.log, start - s.base + 1, Len(s.log)),
         decided |-> s.decided, round |-> s.probe, trunc |-> s.base]

Probe(s) == [type |-> "PROBE", round |-> s.election]

\* Mutant: the round that is promised, in place of that of the log.
Prepare_AckIsPromise(i, s, round) ==
    [type |-> "PREPARE", sender |-> i, slot |-> s.base, values |-> s.log, round |-> round,
     ack |-> s.probe]

Prepare(i, s, round) ==
    [type |-> "PREPARE", sender |-> i, slot |-> s.base, values |-> s.log, round |-> round,
     ack |-> s.ack]

Ack(s) == [type |-> "ACK", slot |-> LogEnd(s), round |-> s.probe]

\* The number of messages in flight in the network n.
InFlight(n) ==
    Cardinality({c \in Replicas \X Replicas \X (1..MaxInFlight) : c[3] <= Len(n[c[1]][c[2]])})

\* What the network n may become when i sends out[p] to each peer p in to:
\* FIFO, and any message may be lost at the send.
Sent(n, i, to, out) ==
    LET room == MaxInFlight - InFlight(n)
    IN  {[n EXCEPT ![i] = [p \in Replicas |-> IF p \in kept THEN Append(@[p], out[p])
                                                            ELSE @[p]]] :
            kept \in {k \in SUBSET to : Cardinality(k) <= room}}

SendPropose(n, i, s) == Sent(n, i, Peers(i), [p \in Peers(i) |-> ProposeTo(s, p)])

-----------------------------------------------------------------------------
(* Client requests: propose_and_apply                                      *)

Submitted(v) == \E i \in Replicas : v \in DOMAIN rep[i].calls

\* The request enters the log of s and waits for its slot.  pending_responses_
\* forgets an earlier call that still waits for the same slot.
Enqueue(i, s, v) ==
    [s EXCEPT !.log = Append(@, v),
              !.next = @ + 1,
              !.acks[i] = s.next + 1,
              !.waiters = [k \in DOMAIN @ \cup {s.next} |-> IF k = s.next THEN v ELSE @[k]],
              !.calls = [w \in DOMAIN @ \cup {v} |->
                           IF w = v THEN NoReply ELSE @[w]]]

\* A request reaches a replica that believes it leads; any other refuses it
\* without changing its state.
Submit(i, v) ==
    /\ ~Submitted(v) /\ \A w \in 1..(v - 1) : Submitted(w)
    /\ rep[i].leader = i
    /\ LET s == Enqueue(i, rep[i], v)
       IN  /\ rep' = [rep EXCEPT ![i] = ApplyDecided(i, s)]
           /\ net' \in SendPropose(net, i, s)

-----------------------------------------------------------------------------
(* Elections                                                               *)

\* start_election's round: above all seen, and i's own modulo N.
ElectionRound(i) == rep[i].probe + N - (rep[i].probe % N) + i

\* Mutant: ties are not broken by the longest log.
Worse_LengthIgnored(a, b) == a.ack < b.ack

\* max_element: the first of the prepares with the highest round, and of
\* these with the longest log.
Worse(a, b) == \/ a.ack < b.ack
               \/ a.ack = b.ack /\ a.slot + Len(a.values) < b.slot + Len(b.values)
BestPrepare(prepares) ==
    prepares[CHOOSE k \in DOMAIN prepares :
                /\ \A l \in DOMAIN prepares : ~Worse(prepares[k], prepares[l])
                /\ \A l \in 1..(k - 1) : Worse(prepares[l], prepares[k])]

\* Mutant: own entries are applied as far as the adopted log goes.
AdoptBest_AppliesAll(i, s) ==
    LET best == BestPrepare(s.prepares)
        end == best.slot + Len(best.values)
        upto == MaxOf(s.applied, MinOf(end, LogEnd(s)))
    IN  [s EXCEPT !.db = @ \o Unapplied(s, upto),
                  !.decided = MaxOf(@, best.slot),
                  !.applied = MaxOf(upto, best.slot),
                  !.log = best.values,
                  !.base = best.slot,
                  !.next = end,
                  !.leader = i,
                  !.ack = s.election,
                  !.acks = [j \in Replicas |-> IF j = i THEN end ELSE best.slot],
                  !.prepares = <<>>]

\* become_leader up to its broadcast: apply the own entries that the adopted
\* log no longer has, and adopt it.  The prepares have served their purpose.
AdoptBest(i, s) ==
    LET best == BestPrepare(s.prepares)
        upto == MaxOf(s.applied, MinOf(best.slot, LogEnd(s)))
        end == best.slot + Len(best.values)
    IN  [s EXCEPT !.db = @ \o Unapplied(s, upto),
                  !.decided = MaxOf(@, best.slot),
                  !.applied = MaxOf(upto, best.slot),
                  !.log = best.values,
                  !.base = best.slot,
                  !.next = end,
                  !.leader = i,
                  !.ack = s.election,
                  !.acks = [j \in Replicas |-> IF j = i THEN end ELSE best.slot],
                  !.prepares = <<>>]

\* start_election up to its broadcast.
Candidate(i, s) ==
    [s EXCEPT !.election = ElectionRound(i), !.probe = ElectionRound(i), !.prepares = <<>>]

\* The timer of a follower that has not heard from its leader: probe the
\* peers and count the own log as the first PREPARE.  (With N = 1 replica 0
\* leads for ever and never gets here, so one PREPARE is no quorum.)
StartElection(i) ==
    /\ rep[i].leader # i
    /\ ElectionRound(i) <= MaxRound
    /\ LET s == Candidate(i, rep[i])
       IN  /\ rep' = [rep EXCEPT ![i] = [s EXCEPT !.prepares = <<Prepare(i, s, s.election)>>]]
           /\ net' \in Sent(net, i, Peers(i), [p \in Peers(i) |-> Probe(s)])

\* The timer of the leader.
Retransmit(i) ==
    /\ rep[i].leader = i
    /\ InFlight(net) <= MaxResend
    /\ rep' = [rep EXCEPT ![i] = ApplyDecided(i, @)]
    /\ net' \in SendPropose(net, i, rep[i])

-----------------------------------------------------------------------------
(* run(): one message.                                                     *)

\* The peers from which a message waits at i.
Incoming(i) == {j \in Peers(i) : net[j][i] # <<>>}

Msg(i, j) == Head(net[j][i])
Taken(i, j) == [net EXCEPT ![j][i] = Tail(@)]

\* Mutant: the round is not recorded.
StepDown_ForgetsRound(s, j, m) == IF m.round > s.probe THEN [s EXCEPT !.leader = j] ELSE s

\* Mutant: the calls that wait are forgotten with their requests.
StepDown_ForgetsCalls(s, j, m) ==
    IF m.round > s.probe
    THEN [s EXCEPT !.probe = m.round, !.leader = j, !.waiters = NoFunction]
    ELSE s

\* A message of a higher round makes its sender the leader.
StepDown(s, j, m) ==
    IF m.round > s.probe THEN [s EXCEPT !.probe = m.round, !.leader = j] ELSE s

\* Mutant: a PROPOSE of an old round is not stale.
Gets_Stale(i, j, type) == Msg(i, j).type = type

\* The next message from j to i is of this type and its round is not stale;
\* after StepDown its round is the replica's own.
Gets(i, j, type) ==
    /\ Msg(i, j).type = type
    /\ Msg(i, j).round >= rep[i].probe

ReceiveStale(i, j) ==
    /\ Msg(i, j).round < rep[i].probe
    /\ net' = Taken(i, j)
    /\ UNCHANGED rep

ReceiveProbe(i, j) ==
    /\ Gets(i, j, "PROBE")
    /\ LET m == Msg(i, j)
           s == StepDown(rep[i], j, m)
       IN  /\ rep' = [rep EXCEPT ![i] = s]
           /\ net' \in Sent(Taken(i, j), i, {j}, [p \in {j} |-> Prepare(i, s, m.round)])

\* Does a PREPARE still count for the election?  A candidate has its own;
\* once it has won, the code goes on collecting, but the count has passed
\* the quorum for good.
Counts(s, m) == m.round = s.election /\ s.prepares # <<>>

\* A PREPARE that does not complete a quorum.
ReceivePrepare(i, j) ==
    /\ Gets(i, j, "PREPARE")
    /\ LET m == Msg(i, j)
           s == StepDown(rep[i], j, m)
       IN  /\ Counts(s, m) => Len(s.prepares) + 1 # Quorum
           /\ rep' = [rep EXCEPT ![i] =
                        IF Counts(s, m) THEN [s EXCEPT !.prepares = Append(@, m)] ELSE s]
           /\ net' = Taken(i, j)

\* The PREPARE that completes it: become_leader.
WinElection(i, j) ==
    /\ Gets(i, j, "PREPARE")
    /\ LET m == Msg(i, j)
           s == StepDown(rep[i], j, m)
           t == AdoptBest(i, [s EXCEPT !.prepares = Append(@, m)])
       IN  /\ Counts(s, m) /\ Len(s.prepares) + 1 = Quorum
           /\ rep' = [rep EXCEPT ![i] = ApplyDecided(i, t)]
           /\ net' \in SendPropose(Taken(i, j), i, t)

\* A leader counts acknowledgments; any message of its round makes it apply.
\* (Only a leader gets an ACK of its own round: AcksReachTheirLeader.)
ReceiveAsLeader(i, j) ==
    /\ Gets(i, j, "ACK") \/ Gets(i, j, "PROPOSE")
    /\ LET m == Msg(i, j)
           s == StepDown(rep[i], j, m)
           t == IF m.type = "ACK" THEN [s EXCEPT !.acks[j] = MaxOf(@, m.slot)] ELSE s
       IN  /\ s.leader = i
           /\ rep' = [rep EXCEPT ![i] = ApplyDecided(i, t)]
           /\ net' = Taken(i, j)

\* A proposal that is new to the follower: overwrite and append, on a new
\* round cut the log where the leader's ends, apply, truncate.
AcceptPropose(i, s, m) ==
    LET end == m.slot + Len(m.values)
        gap == m.slot > LogEnd(s)
        base == IF gap THEN m.slot ELSE s.base
        newEnd == IF gap \/ m.round > s.ack THEN end ELSE MaxOf(end, LogEnd(s))
        entry(k) == IF m.slot <= k /\ k < end THEN m.values[k - m.slot + 1]
                                              ELSE s.log[k - s.base + 1]
        t == ApplyDecided(i,
               [s EXCEPT !.ack = m.round,
                         !.base = base,
                         !.log = [k \in 1..(newEnd - base) |-> entry(base + k - 1)],
                         !.applied = IF gap THEN MaxOf(@, m.slot) ELSE @,
                         !.decided = MaxOf(@, m.decided)])
    IN  DropBelow(t, MinOf(MinOf(m.trunc, t.applied), LogEnd(t)))

ReceivePropose(i, j) ==
    /\ Gets(i, j, "PROPOSE")
    /\ LET m == Msg(i, j)
           s == [StepDown(rep[i], j, m) EXCEPT !.leader = j]
           shorter == m.round = s.ack /\ m.slot + Len(m.values) < LogEnd(s)
           t == IF shorter THEN s ELSE AcceptPropose(i, s, m)
       IN  /\ StepDown(rep[i], j, m).leader # i
           /\ rep' = [rep EXCEPT ![i] = t]
           /\ net' \in Sent(Taken(i, j), i, {j}, [p \in {j} |-> Ack(t)])

-----------------------------------------------------------------------------
Next ==
    \/ \E i \in Replicas, v \in Requests : Submit(i, v)
    \/ \E i \in Replicas : StartElection(i) \/ Retransmit(i)
    \/ \E i \in Replicas : \E j \in Incoming(i) :
          \/ ReceiveStale(i, j) \/ ReceiveProbe(i, j) \/ ReceivePrepare(i, j)
          \/ WinElection(i, j) \/ ReceiveAsLeader(i, j)
          \/ ReceivePropose(i, j)

Spec == Init /\ [][Next]_vars

-----------------------------------------------------------------------------
(* Properties.                                                             *)

\* Every field has its type, and the indices that the code uses to reach
\* into log_ without a check stay inside it: nothing unapplied is truncated,
\* nothing is applied beyond the log, and a leader's next slot is its end.
TypeOK ==
    \A i \in Replicas :
       LET s == rep[i] IN
       /\ s.leader \in Replicas
       /\ s.ack \in 0..s.probe /\ s.election \in 0..s.probe
       /\ s.log \in Seq(Requests) /\ s.db \in Seq(Requests) /\ s.journal \in Seq(Requests)
       /\ s.acks \in [Replicas -> Nat]
       /\ s.base \in 0..s.applied /\ s.applied \in 0..s.decided /\ s.applied <= LogEnd(s)
       /\ s.leader = i => s.next = LogEnd(s)
       /\ \A k \in DOMAIN s.waiters : s.waiters[k] \in DOMAIN s.calls
       /\ \A v \in DOMAIN s.calls : v \in Requests /\ s.calls[v] \in Requests \cup {NoReply}

\* State machine safety (PLAN.md goal 1): the replicas apply the same
\* requests in the same order, through every change of leader.
Agreement ==
    \A i, j \in Replicas :
       \A k \in 1..MinOf(Len(rep[i].db), Len(rep[j].db)) : rep[i].db[k] = rep[j].db[k]

\* No replica ever passes over a slot: what it has applied to its db is all
\* the slots below applied_slot_, also after a log is adopted from another
\* replica or reset because of a gap.
NoSlotSkipped == \A i \in Replicas : Len(rep[i].db) = rep[i].applied

\* Two replicas whose logs were last written in the same round hold the same
\* request wherever both logs reach: a late, stale or shorter PROPOSE never
\* leaves a mixture of two leaders' logs.
LogsOfOneRoundAgree ==
    \A i, j \in Replicas :
       rep[i].ack = rep[j].ack =>
          \A k \in MaxOf(rep[i].base, rep[j].base)..(MinOf(LogEnd(rep[i]), LogEnd(rep[j])) - 1) :
             rep[i].log[k - rep[i].base + 1] = rep[j].log[k - rep[j].base + 1]

\* An acknowledgment that is not stale finds the leader of its round, still
\* leading: none is ever counted, or missed, across a change of leader.
AcksReachTheirLeader ==
    \A i \in Replicas : \A j \in Incoming(i) : Gets(i, j, "ACK") =>
       /\ rep[i].leader = i /\ Msg(i, j).round = rep[i].ack
       /\ Msg(i, j).slot <= LogEnd(rep[i])

\* The first PROPOSE of a round that a replica gets ends at or above the first
\* entry of its log: the loop that cuts the log there (pop_back) stops before
\* the log is empty, and no entry that is applied and truncated is taken back.
CutStaysInLog ==
    \A i \in Replicas : \A j \in Incoming(i) :
       Gets(i, j, "PROPOSE") /\ Msg(i, j).round > rep[i].ack =>
          Msg(i, j).slot + Len(Msg(i, j).values) >= rep[i].applied

\* What a client was told has happened is known to every later leader: a
\* request answered with its own response is in the log or the db of the
\* leader of the highest round.
AnsweredSurvives ==
    \A i, l \in Replicas : \A v \in DOMAIN rep[i].calls :
       /\ rep[i].calls[v] = v
       /\ rep[l].leader = l
       /\ \A j \in Replicas : rep[j].ack <= rep[l].ack
       => \/ \E k \in DOMAIN rep[l].db : rep[l].db[k] = v
          \/ \E k \in DOMAIN rep[l].log : rep[l].log[k] = v

\* A caller gets the response to its own request (tm-paxos.hh: "blocks until
\* quorum decides the slot carrying this request").
OwnResponse ==
    \A i \in Replicas : \A v \in DOMAIN rep[i].calls : rep[i].calls[v] \in {v, NoReply}

\* A call that was handed the response to another request has lost its own
\* for good: no replica ever applies it behind the caller's back.
LostRequestsStayLost ==
    \A i, j \in Replicas : \A v \in DOMAIN rep[i].calls :
       rep[i].calls[v] \notin {v, NoReply} => ~Contains(rep[j].db, v)

\* The decision logs together miss nothing: a replica that becomes leader
\* applies without on_apply_ only what another one has applied, and logged,
\* before it.
NothingGoesUnlogged ==
    \A i \in Replicas : \A k \in DOMAIN rep[i].db :
       \E j \in Replicas : Contains(rep[j].journal, rep[i].db[k])
=============================================================================
