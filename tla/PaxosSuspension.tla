-------------------------- MODULE PaxosSuspension --------------------------
(***************************************************************************)
(* The replicas of PaxosReplica with sends that suspend the coroutine that *)
(* awaits them, as netsim's always do and TCP's do once a socket buffer is *)
(* full.  A broadcast is then one step per peer, each of which reads the   *)
(* replica's fields anew, and what follows it is a step of its own.        *)
(* While the broadcast of run() is suspended run() takes no message and no *)
(* timeout; the calls of propose_and_apply() go on meanwhile, and any      *)
(* number of those may be suspended.  A reply is the last thing a handler  *)
(* does, so that nothing can come between.                                 *)
(***************************************************************************)
EXTENDS PaxosRefinement

VARIABLES
    run,        \* run[i]: the broadcast that run() of i is in, or Idle
    proposing,  \* proposing[i]: request -> where its propose_and_apply() is
    stray       \* history: a call has sent on in a round it did not start in

svars == <<rep, net, run, proposing, stray>>

Idle == [kind |-> "idle", to |-> {}]

SInit ==
    /\ Init
    /\ run = [i \in Replicas |-> Idle]
    /\ proposing = [i \in Replicas |-> NoFunction]
    /\ stray = FALSE

\* What the network may become when the loop over the peers takes its next
\* turn: one peer, with what the fields hold now.
SendNext(n, i, s, to, kind) ==
    Sent(n, i, {p \in to : p = Min(to)},
         [p \in to |-> IF kind = "probe" THEN Probe(s) ELSE ProposeTo(s, p)])

LaterPeers(to) == {p \in to : p # Min(to)}

-----------------------------------------------------------------------------
(* propose_and_apply                                                       *)

Call(i, v) ==
    /\ ~Submitted(v) /\ \A w \in 1..(v - 1) : Submitted(w)
    /\ rep[i].leader = i
    /\ LET s == Enqueue(i, rep[i], v)
       IN  /\ rep' = [rep EXCEPT ![i] = s]
           /\ net' \in SendNext(net, i, s, Peers(i), "propose")
    /\ proposing' = [proposing EXCEPT ![i] = [w \in DOMAIN @ \cup {v} |->
                       IF w = v THEN [to |-> LaterPeers(Peers(i)), slot |-> rep[i].next,
                                      round |-> rep[i].probe]
                       ELSE @[w]]]
    /\ UNCHANGED <<run, stray>>

\* send_propose() goes on, in the round the replica is in by now.
ResumeCall(i, v) ==
    LET c == proposing[i][v] IN
    /\ c.to # {}
    /\ net' \in SendNext(net, i, rep[i], c.to, "propose")
    /\ proposing' = [proposing EXCEPT ![i][v].to = LaterPeers(@)]
    /\ stray' = (stray \/ rep[i].probe # c.round)
    /\ UNCHANGED <<rep, run>>

\* Mutant: the call returns without waiting for its slot.
Returns_AtOnce(s, slot) == [s EXCEPT !.waiters = [k \in DOMAIN @ \ {slot} |-> @[k]]]

\* The call returns if its slot is applied, whether or not anybody has filled
\* its response in; else it waits on.
Returns(s, slot) ==
    IF s.applied <= slot THEN s
    ELSE [s EXCEPT !.waiters = [k \in DOMAIN @ \ {slot} |-> @[k]]]

\* send_propose() is over: apply, and return or wait.
FinishCall(i, v) ==
    LET c == proposing[i][v] IN
    /\ c.to = {}
    /\ rep' = [rep EXCEPT ![i] = Returns(ApplyDecided(i, @), c.slot)]
    /\ proposing' = [proposing EXCEPT ![i] = [w \in DOMAIN @ \ {v} |-> @[w]]]
    /\ UNCHANGED <<net, run, stray>>

-----------------------------------------------------------------------------
(* run()                                                                   *)

\* run() starts a broadcast of this kind, s being the replica's new state.
Broadcast(n, i, s, kind) ==
    /\ rep' = [rep EXCEPT ![i] = s]
    /\ net' \in SendNext(n, i, s, Peers(i), kind)
    /\ run' = [run EXCEPT ![i] = [kind |-> kind, to |-> LaterPeers(Peers(i))]]
    /\ UNCHANGED <<proposing, stray>>

BeginElection(i) ==
    /\ run[i] = Idle
    /\ rep[i].leader # i
    /\ ElectionRound(i) <= MaxRound
    /\ Broadcast(net, i, Candidate(i, rep[i]), "probe")

BeginRetransmit(i) ==
    /\ run[i] = Idle
    /\ rep[i].leader = i
    /\ InFlight(net) <= MaxResend
    /\ Broadcast(net, i, rep[i], "propose")

BecomeLeader(i, j) ==
    /\ run[i] = Idle
    /\ Gets(i, j, "PREPARE")
    /\ LET m == Msg(i, j)
           s == StepDown(rep[i], j, m)
       IN  /\ Counts(s, m) /\ Len(s.prepares) + 1 = Quorum
           /\ Broadcast(Taken(i, j), i, AdoptBest(i, [s EXCEPT !.prepares = Append(@, m)]),
                        "propose")

ResumeRun(i) ==
    /\ run[i].to # {}
    /\ net' \in SendNext(net, i, rep[i], run[i].to, run[i].kind)
    /\ run' = [run EXCEPT ![i].to = LaterPeers(@)]
    /\ UNCHANGED <<rep, proposing, stray>>

\* After its PROBEs a candidate counts its own log, as it is by now; after
\* its PROPOSEs a leader applies.
FinishRun(i) ==
    /\ run[i] # Idle /\ run[i].to = {}
    /\ LET s == rep[i] IN
       rep' = [rep EXCEPT ![i] =
                 IF run[i].kind = "probe" THEN [s EXCEPT !.prepares = <<Prepare(i, s, s.election)>>]
                                          ELSE ApplyDecided(i, s)]
    /\ run' = [run EXCEPT ![i] = Idle]
    /\ UNCHANGED <<net, proposing, stray>>

\* Mutant: the broadcast runs detached, and run() goes on receiving meanwhile.
Receive_WhileSending(i, j) ==
    /\ \/ ReceiveStale(i, j) \/ ReceiveProbe(i, j) \/ ReceivePrepare(i, j)
       \/ ReceiveAsLeader(i, j) \/ ReceivePropose(i, j)
    /\ UNCHANGED <<run, proposing, stray>>

\* The messages that start no broadcast.
Receive(i, j) ==
    /\ run[i] = Idle
    /\ \/ ReceiveStale(i, j) \/ ReceiveProbe(i, j) \/ ReceivePrepare(i, j)
       \/ ReceiveAsLeader(i, j) \/ ReceivePropose(i, j)
    /\ UNCHANGED <<run, proposing, stray>>

-----------------------------------------------------------------------------
SNext ==
    \E i \in Replicas :
       \/ \E v \in Requests : Call(i, v)
       \/ \E v \in DOMAIN proposing[i] : ResumeCall(i, v) \/ FinishCall(i, v)
       \/ BeginElection(i) \/ BeginRetransmit(i) \/ ResumeRun(i) \/ FinishRun(i)
       \/ \E j \in Incoming(i) : BecomeLeader(i, j) \/ Receive(i, j)

SSpec == SInit /\ [][SNext]_svars

-----------------------------------------------------------------------------
(* Properties.                                                             *)

\* State machine safety as long as every broadcast ends in the round it
\* began in: the steps of calls and of run() may interleave in any order.
AgreementUnlessStray == stray \/ Agreement

\* Then, too, the logs written in one round agree and what was answered
\* survives a change of leader.
RoundsUnlessStray == stray \/ (LogsOfOneRoundAgree /\ AnsweredSurvives)

\* In the network n no PROBE of the round is on its way from i to p, nor an
\* answer to one.
Unasked(n, i, p, round) ==
    /\ \A k \in DOMAIN n[i][p] : n[i][p][k].type = "PROBE" => n[i][p][k].round # round
    /\ \A k \in DOMAIN n[p][i] : n[p][i][k].type = "PREPARE" => n[p][i][k].round # round

\* While the broadcast b of PROPOSEs goes out a replica leads; while its PROBEs
\* go out it is the candidate it was, and has yet to ask the peers it has not
\* got to.
RunStands(s, n, i, b) ==
    /\ b.kind = "idle" => b = Idle
    /\ b.kind = "propose" => s.leader = i
    /\ b.kind = "probe" =>
         /\ s.leader # i /\ s.prepares = <<>>
         /\ s.election = s.probe /\ s.election % N = i
         /\ \A p \in b.to \cup {i} : Unasked(n, i, p, s.election)

\* The call c for v began in a round that its replica led.  If the replica is
\* in that round yet, the request's slot is in the log, and the call has a
\* response or waits for one.
CallStands(s, i, v, c) ==
    /\ v \in DOMAIN s.calls
    /\ c.round % N = i /\ c.round <= s.ack
    /\ s.probe = c.round =>
         /\ c.slot < LogEnd(s)
         /\ \/ s.calls[v] # NoReply
            \/ s.applied <= c.slot /\ c.slot \in DOMAIN s.waiters /\ s.waiters[c.slot] = v

\* A coroutine that a send suspended finds what it left behind: no other one
\* has taken away the lead, the election, the slot or the waiter it goes on
\* with, unless the call's round is over, when the next send is stray.
SuspendedStand ==
    stray \/ \A i \in Replicas :
                /\ RunStands(rep[i], net, i, run[i])
                /\ \A v \in DOMAIN proposing[i] : CallStands(rep[i], i, v, proposing[i][v])

\* A call whose replica is still in the round the call began in does not
\* return before its response is filled in: when its sends are over it has a
\* response, or it waits for one.  (A replica that lost the lead and was
\* elected again may have given the call's slot to another request.)
NoEmptyReply ==
    [][\A i \in Replicas : \A v \in DOMAIN proposing[i] \ DOMAIN proposing'[i] :
          ~stray /\ rep[i].probe = proposing[i][v].round =>
             \/ rep'[i].calls[v] # NoReply
             \/ \E k \in DOMAIN rep'[i].waiters : rep'[i].waiters[k] = v]_svars

\* One replicated state machine, as PaxosRefinement's replicas are, with sends
\* that suspend: until a broadcast goes on in another round, no step takes
\* back, replaces or repeats an applied request, or changes the db of two
\* replicas, wherever the coroutines of a replica stand.
ReplicatedLogUnlessStray ==
    RL!Init /\ [][stray' \/ RL!Next]_<<LongestDb, [i \in Replicas |-> rep[i].db]>>
=============================================================================
