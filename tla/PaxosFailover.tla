--------------------------- MODULE PaxosFailover ---------------------------
(***************************************************************************)
(* The replicas of PaxosReplica under the failure schedules of             *)
(* tm-paxos-tests.cc: a schedule sets the loss rate of whole links to 1.0, *)
(* and may set it back; a link in order loses nothing and is fast, so that *)
(* a follower whose leader leads it never waits 500ms for a PROPOSE.       *)
(* Clients look for the leader with find_leader().                         *)
(*                                                                         *)
(* Unlike PaxosReplica's, a send that finds no room in flight waits: with  *)
(* loss left to the schedules, what must eventually happen can be stated.  *)
(***************************************************************************)
EXTENDS PaxosReplica

CONSTANT
    Schedule  \* the failure schedules run: "none", "permanent", "temporary", "split-brain"

ASSUME ScheduleAssumption == Schedule \subseteq {"none", "permanent", "temporary", "split-brain"}

VARIABLES
    schedule,  \* what the failure schedule has left to do
    cut        \* the links <<i, j>> from i to j with loss 1.0

fvars == <<rep, net, schedule, cut>>

FInit ==
    /\ Init
    /\ schedule \in Schedule
    /\ cut = {}

-----------------------------------------------------------------------------
(* Failures.                                                               *)

LinksOf(r) == {<<r, p>> : p \in Peers(r)} \cup {<<p, r>> : p \in Peers(r)}

\* fail_permanent: a replica dies, whichever.
FailPermanent(r) ==
    /\ schedule = "permanent"
    /\ schedule' = "none"
    /\ cut' = cut \cup LinksOf(r)
    /\ UNCHANGED vars

\* fail_temporary: the first leader dies, and comes back.
FailTemporary ==
    /\ schedule = "temporary"
    /\ schedule' = "restore"
    /\ cut' = cut \cup LinksOf(0)
    /\ UNCHANGED vars

Restore ==
    /\ schedule = "restore"
    /\ schedule' = "none"
    /\ cut' = cut \ LinksOf(0)
    /\ UNCHANGED vars

\* fail_split_brain: 0 and 1 lose each other, and both still reach the rest.
FailSplitBrain ==
    /\ schedule = "split-brain"
    /\ schedule' = "none"
    /\ cut' = cut \cup {<<0, 1>>, <<1, 0>>}
    /\ UNCHANGED vars

Failure == FailTemporary \/ Restore \/ FailSplitBrain \/ \E r \in Replicas : FailPermanent(r)

-----------------------------------------------------------------------------
(* The replicas over these links.                                          *)

\* The step's messages from i reach exactly the peers whose link is in order.
Delivers(i, to) ==
    \A p \in to : Len(net'[i][p]) = Len(net[i][p]) + IF <<i, p>> \in cut THEN 0 ELSE 1

IsLeader(i) == rep[i].leader = i

\* find_leader picks i: it leads, in the highest round of all that do.
FindLeader(i) ==
    /\ IsLeader(i)
    /\ \A j \in Replicas : IsLeader(j) => \/ rep[j].probe < rep[i].probe
                                          \/ rep[j].probe = rep[i].probe /\ i <= j

\* last_leader_msg_ grows old: i gets no PROPOSE of its round, because its
\* leader is out of reach, or leads no more, or not yet.
OutOfTouch(i) ==
    LET l == rep[i].leader
    IN  <<l, i>> \in cut \/ ~IsLeader(l) \/ rep[l].probe # rep[i].probe

ClientStep(i) == \E v \in Requests : FindLeader(i) /\ Submit(i, v) /\ Delivers(i, Peers(i))
ElectionStep(i) == OutOfTouch(i) /\ StartElection(i) /\ Delivers(i, Peers(i))
RetransmitStep(i) == Retransmit(i) /\ Delivers(i, Peers(i))

MessageStep(i, j) ==
    /\ j \in Incoming(i)
    /\ \/ ReceiveStale(i, j) \/ ReceivePrepare(i, j) \/ ReceiveAsLeader(i, j)
       \/ (ReceiveProbe(i, j) \/ ReceivePropose(i, j)) /\ Delivers(i, {j})
       \/ WinElection(i, j) /\ Delivers(i, Peers(i))

FNext ==
    \/ Failure
    \/ /\ \E i \in Replicas : \/ ClientStep(i) \/ ElectionStep(i) \/ RetransmitStep(i)
                              \/ \E j \in Peers(i) : MessageStep(i, j)
       /\ UNCHANGED <<schedule, cut>>

\* Each replica's run() takes every message and timeout in the end, and a
\* schedule runs to its end; clients may stop at any time.  A step is fair
\* when it is enabled, as with WF, of which this is the definition; but the
\* conditions are written out, for TLC takes long to find them by ENABLED.
CanRetransmit(i) ==
    IsLeader(i) /\ InFlight(net) <= MaxResend /\ \E p \in Peers(i) : <<i, p>> \notin cut
CanElect(i) == ~IsLeader(i) /\ OutOfTouch(i) /\ ElectionRound(i) <= MaxRound

Fairness ==
    /\ WF_fvars(Failure)
    /\ \A i \in Replicas :
          /\ <>[]CanElect(i) => []<><<ElectionStep(i)>>_fvars
          /\ <>[]CanRetransmit(i) => []<><<RetransmitStep(i)>>_fvars
          /\ \A j \in Peers(i) : <>[](j \in Incoming(i)) => []<><<MessageStep(i, j)>>_fvars

FSpec == FInit /\ [][FNext]_fvars /\ Fairness

-----------------------------------------------------------------------------
(* Properties.                                                             *)

\* i leads for good: it and the peers it can exchange messages with are a
\* quorum that follows it in its round.
Reaches(i) == {i} \cup {j \in Peers(i) : <<i, j>> \notin cut /\ <<j, i>> \notin cut}
LeadsQuorum(i) ==
    /\ IsLeader(i)
    /\ Cardinality(Reaches(i)) >= Quorum
    /\ \A j \in Reaches(i) : rep[j].leader = i /\ rep[j].probe = rep[i].probe

\* Failover (PLAN.md: a new leader is elected within a second or two): after
\* any failure schedule one replica comes to lead a quorum and stays leader,
\* also when two candidates overtake each other, when a replica has taken a
\* candidate that never won for its leader, and when the old leader returns.
LeaderEmerges == <>[](\E i \in Replicas : LeadsQuorum(i))

\* What one replica has applied, every replica that the leader can reach
\* applies in the end: also one that came back with a log of its own.
HasApplied(i, v) == \E k \in DOMAIN rep[i].db : rep[i].db[k] = v
ReachableReplicasCatchUp ==
    \A v \in Requests :
       (\E i \in Replicas : HasApplied(i, v))
       ~> (\E l \in Replicas : LeadsQuorum(l) /\ \A j \in Reaches(l) : HasApplied(j, v))

\* A caller waits in vain only for a request that is lost: its call returns,
\* unless the replica that took it is cut off from the leader that settles
\* in the end, or that leader never had the request.
Waits(i, v) == v \in DOMAIN rep[i].calls /\ rep[i].calls[v] = NoReply
NoCallForgotten ==
    \A i \in Replicas, v \in Requests :
       Waits(i, v) ~> \/ ~Waits(i, v)
                      \/ \E l \in Replicas :
                            LeadsQuorum(l) /\ (i \notin Reaches(l) \/ ~HasApplied(l, v))

\* The log does not grow for ever (try_truncate): while all replicas are
\* there, or are back, every log becomes empty once its requests are applied.
LogsDrain ==
    (schedule = "none" /\ cut = {}) ~> (\A i \in Replicas : rep[i].log = <<>>)
=============================================================================
