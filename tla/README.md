# TLA+ models of the task manager

This directory models the replicated task manager of this repository in TLA+:
the state machine that hands out tasks (`task_manager_db`), the Multi-Paxos
replicas that put requests to it in one order (`pt_paxos_replica`), the network they
talk over, the HTTP server in front of them, the agents that use it, and the decision
logs with their replay. TLC checks the
models on small instances and TLAPS proves theorems about them for every value of
the constants. `PROJECT.json` holds the same information for tools: for every definition
the source lines it models, for every run its properties, for every property a
plausible bug (a *mutant*) that the run catches.

Contents: [inventory](#1-the-system) · [modules](#2-modules) · [runs](#3-runs) ·
[findings](#4-where-code-and-documents-differ) · [proofs](#5-proofs) ·
[limits](#6-what-is-not-modelled) · [plan](#7-plan)

## 1. The system

Agents (coding assistants driven by `skills/*.md`) POST JSON requests to one of three
`tm-server` processes. A server parses the request, and its Paxos replica, if it believes
it leads, stamps the request with its wall clock, appends it to the log and replicates
it; a request that is decided is applied by every replica to its own `task_manager_db`,
written to its decision log, and answered by the replica that took it. A replica that
does not lead answers "not leader", which the server turns into a redirect.

| component | source | state | operations | what makes it correct |
|---|---|---|---|---|
| Task manager state machine | `task_manager_db.{hh,cc}`, `tm.hh` | tasks in order of creation, main lock, next fencing token, halt | `task_create`, `task_claim`, `task_heartbeat`, `task_complete`, `task_fail`, `task_list`, `main_lock_acquire`, `main_lock_release`, `swarm_resume` | one owner per task, fencing of zombies, dependencies done before a task starts, one merge per finished implement, no new work while halted, the lock is not taken from a live holder |
| Multi-Paxos replica | `tm-paxos-internal.hh`, `tm-paxos.{hh,cc}` | log and its base, decided and applied slots, rounds, acknowledgments, collected PREPAREs, waiting callers, its `task_manager_db` | `propose_and_apply`; `run`: four message types, retransmit and election timers | all replicas apply one sequence, no slot is skipped, an answered request survives, a caller gets its own answer, callers are answered at last |
| Simulated network | `netsim.hh`, `transport.hh` | one queue per channel | `send`, `receive`, `connect`, `disconnect`, `set_loss` | FIFO, no duplication; messages may be lost |
| TCP transport | `tcp_transport.{hh,cc}` | one outgoing connection per peer, queue of received messages | `send`, `receive`, connect, listen and read loops | what is received was sent, in order, whole |
| HTTP server, decision log | `tm-server.cc`, `tm_dump.hh` | decision log and its sequence number, peers' URLs | `handle`, `log_decided`, `/dump` | requests reach the leader, all replicas log the same entries |
| JSON conversion | `tm.cc` | none | `parse_request`, `to_json_response`, ... | a request survives the journey through a PROPOSE and the decision log |
| Replay | `tm-replay.cc` | one state machine and position per log | `advance_replica_to`, snapshots | the replayed state is the state the replica had |
| Test harness | `tm-paxos-tests.cc`, `tm-tests.cc`, `tests/` | synthetic agents, failure schedules | `send_to_leader`, `kill_replica`, `restore_replica`, ... | its assertions are claims about the above |
| Skills, scripts, demo | `skills/`, `scripts/`, `demo/` | none of their own | | |
| Visualisers, monitor | `visualize_*.py`, `monitor_tm.py` | none that the system reads | | |
| Coroutine runtime | cotamer (fetched by the build) | event loop | | external |

Each server is one thread with one event loop; a coroutine runs until it awaits. Between
processes there are only messages. The behaviours that are hard to test:

* **Concurrency of agents**: an agent whose lease lapsed goes on as a *zombie* and
  sends requests with its old token after another agent has claimed the task, or after
  the task is finished.
* **Clocks**: leases are judged with the clock of whichever replica leads, so the
  stamps of successive requests may go backwards when the leader changes.
* **Changes of leader**: two replicas believe they lead, stale and reordered messages of
  old rounds arrive, logs of different rounds meet, and the log is truncated meanwhile.
* **Callers that wait across a change of leader**, in `pending_responses_`.
* **Coroutines suspended inside a broadcast** while `run()` or another
  `propose_and_apply()` changes the replica.
* **Loss**: everything lost is repaired by two timers (100ms, 500ms).
* **Resources**: the log is truncated only as far as every replica, dead ones included,
  has acknowledged.

`PROJECT.json` lists every such hazard at its line with the properties that cover it.

## 2. Modules

| module | models | builds on |
|---|---|---|
| `TaskManager` | `task_manager_db`, all requests, as a sequential state machine whose inputs are nondeterministic | |
| `MCTaskManager` | the symmetry of agents, for TLC | `TaskManager` |
| `TaskManager_proofs` | theorems and proofs | `TaskManager` |
| `Swarm`, `MCSwarm` | the agents that drive the task manager, and what befalls them | `TaskManager` |
| `Replay`, `MCReplay` | the decision logs of the replicas and what `tm-replay` makes of them | `TaskManager` |
| `Swarm_proofs`, `Replay_proofs` | theorems and proofs | `Swarm`, `Replay`, `TaskManager_proofs` |
| `PaxosReplica` | the replicas and the links between them | |
| `PaxosInvariant` | the inductive invariant of the replicas, and the part of it that TLC evaluates | `PaxosReplica` |
| `MCPaxosReplica` | instances for TLC | `PaxosInvariant`, `PaxosRefinement` |
| `ReplicatedLog` | *abstract*: one log of requests, of which each replica has executed a prefix | |
| `PaxosRefinement` | the refinement mapping from the replicas to the log | `PaxosReplica`, `ReplicatedLog` |
| `PaxosInvariant_proofs`, `PaxosReplica_proofs` | lemmas about the parts of the handlers, theorems about the replicas | `PaxosInvariant`, `PaxosRefinement`, `PaxosFailover` |
| `PaxosFailover` | the tests' failure schedules and clients: progress | `PaxosReplica` |
| `PaxosSuspension` | sends that suspend the coroutine that awaits them | `PaxosRefinement` |
| `PaxosSuspension_proofs` | theorems and proofs | `PaxosReplica_proofs`, `PaxosSuspension` |
| `LossyLink` | *abstract*: what a replica relies on when it sends to one peer | |
| `TcpTransport`, `MCTcpTransport` | one TCP link, byte by byte | `LossyLink` |
| `TcpTransport_proofs` | theorems and proofs | `TcpTransport` |
| `HttpServer` | `handle()` with its redirects, and the clients that follow them | |
| `Wire`, `MCWire` | requests to JSON and back | |
| `Server_proofs` | theorems and proofs | `HttpServer`, `Wire` |

How they fit together. `Swarm` and `Replay` use one `TaskManager` in place of three
replicated ones, which `PaxosRefinement` justifies: the replicas apply one log, and
`process_req` is a function of the state, the request and the stamp in it. `PaxosReplica`
has a FIFO link between each two replicas that may lose messages, which `TcpTransport` is shown to
implement (`LossyLink`). `HttpServer` lets
replicas take anyone for the leader, as `PaxosReplica` does, and assumes that this ends,
which `PaxosFailover` shows.

### TaskManager

A task is its position in the sequence `tasks`, which stands for `tasks_`,
`task_order_` and `next_task_seq_` together, since ids are minted in order and no task
is ever removed. `lock`, `nextToken` and `haltedBy` are `main_lock_`, `next_token_` and
`halted_by_` (`NoTask` exactly when `swarm_halted_` is false). `clock` is the fastest
clock of any replica, and the `now_unix` of a request is any element of `Stamps`, at most
`MaxSkew` behind it: this is where a change of leader turns the clock back.

Each handler is one action, atomic because the code applies a decided request in one
call. `<X>Errc` is the handler's error code with its early returns in the code's order;
a request that is not "ok" leaves the state alone, and so do `task_list` and a claim that
finds nothing, which are therefore no actions. The inputs are what clients can
send: any token ever minted (`SentTokens`: zombies), any task id known or not, and for
`new_children` any dependencies at all, because only `task_create` validates them. Titles,
prompts, summaries, reasons and serials are left out: no property depends on them. A
result branch is present or not.

### PaxosReplica

`rep[i]` is the `pt_paxos_replica` with `index_` i, one record field per member that
`run()` and `propose_and_apply()` use; `net[i][j]` is the channel from i to j, oldest
message first. A request is a number, so that `db` is the sequence of requests that were
applied to `db_` and `journal` the sequence that went through `on_apply_`. `waiters` is
`pending_responses_` and `calls` what each `propose_and_apply()` got.

| action | code |
|---|---|
| `Submit` | `propose_and_apply` on a replica that believes it leads |
| `StartElection`, `Retransmit` | the timer branch of `run()`, for a follower and for the leader |
| `ReceiveStale` | a message of an old round |
| `ReceiveProbe` | PROBE: answer with the own log |
| `ReceivePrepare`, `WinElection` | PREPARE, before the quorum and completing it (`become_leader`) |
| `ReceiveAsLeader` | any other message to a leader: count the ACK, apply, truncate |
| `ReceivePropose` | PROPOSE to a follower, accepted or shorter than the log |

Every message goes through `StepDown` first, as in `run()`. Handlers are functions from
record to record (`ApplyDecided`, `AdoptBest`, `AcceptPropose`, ...), so that an action
reads as the handler does. Three abstractions: a send does not suspend its coroutine (so a
broadcast is one step); there are no clocks (a follower may time out at any moment, which
includes every schedule of the real timers); and a send beyond `MaxInFlight` messages in
flight is lost, as any send may be. `MaxResend` bounds when the model's leader retransmits; at `MaxInFlight` it
bounds nothing.

An ACK to a replica that does not lead its round any more has no action: `run()` ignores
it, but it cannot happen (`AcksReachTheirLeader`).

### PaxosRefinement

The abstract log is the longest `db` of any replica, and what a replica has executed is its own `db`. A step of the replicas is then a stutter, the catching up of one
replica along the log, or an extension of the log by a replica that first catches up. That one step
may do both is no slack: `apply_decided` applies all it can in one call.

### PaxosSuspension

`co_await transport_->send()` suspends its coroutine, in netsim always (1ms), over TCP once the
socket is full. Here each broadcast of `PaxosReplica` is split into one step per
peer, which reads the log, the acknowledgments and the round anew, as `send_propose` does,
and what the handler does afterwards is another step. `run[i]` is the broadcast
that `run()` of i is in (it takes no message or timeout until that ends), `proposing[i]` the calls of
`propose_and_apply` that are in theirs. `stray` records that a call went on sending in another
round than it began in; finding 2 is what follows from that.

### PaxosFailover

`PaxosFailover` adds fairness to `PaxosReplica` (next section), and it adds `fail_permanent`, `fail_temporary`
and `fail_split_brain` of `tm-paxos-tests.cc`, which cut whole links, `find_leader`, by which its
clients choose a replica, and one timing fact: a follower that its leader can
reach, and that has been told of the round, does not time out (500ms against a retransmission every
100ms and delays of a few ms). A link that is not cut loses nothing; a send that would exceed
`MaxInFlight` waits instead.

### Swarm

`agent[a]` is where the coroutine `synthetic_agent` is and the task, token and lock token it knows.
A step of an agent is one request that is decided, or one answer of `errc::busy`, which
`send_to_leader` retries (`MaxTries`) without telling a busy lock from a replica that does not
lead. `AfterBusy` is what the agent does with the last such answer; that a claim then
ends the agent is `std::get` of another response type. `leaderless` is the time between two leaders. The
answer to a claim may be lost (the `--max-time 3` of `synthetic-agent.sh`), and agents may fail tasks, heartbeat, stall
and die at every step. People create one of a few lists of tasks (`RootLists`, given by `MCSwarm`) and resume a halted swarm. `revived`
records that a heartbeat has renewed a lease that had lapsed.

### TcpTransport

One direction between two replicas. A frame is a length and some units of
body; `cot::write` takes what the socket holds (`Buffer`) and suspends for the rest. `read_loop_` takes a length and then a
body of that length, wherever the frames of two senders have mixed. `receive()` may lose what it took when `run()`'s timer fires
at the same time.

### HttpServer, Replay, Wire

`HttpServer` keeps of the replicas who each takes for its leader and of the task manager who
holds the main lock, since a busy lock and "not leader" are one error code to `handle()`. `client[c]` is where a request is:
posted, proposed, *deposed* (its replica has stepped down, `pending_responses_` still has it), *decided* by a log that holds it
(`DecideLater`), *resolved* (its response is there), answered or refused. A deposed request may also be *lost*, overwritten or cut
off, and later be given another request's response (`AnotherResponse`, finding 1) or none; and one that its replica applies in
`become_leader` is *forgotten*, since nothing is triggered there. The lock comes free when it is released or its holder's lease runs out
(`LockLapses`).

`Replay` runs the task manager. Each replica has a clock of its own (`wall`, none of them more than `MaxSkew` ahead of another); any of
them may lead, and stamps what it takes with its clock, so that stamps go back when a slower clock takes over. `log` is the sequence
of decided requests, each kept as its stamp and the tasks after it, which stand for the request since `process_req` is a function.
Each replica applies the log at its own pace and writes its decision log `journal[i]` (`Apply`), except for what it applies in
`become_leader` (`BecomeLeader`), which is `unlogged`: its decision log then has a hole, and all later local `seq` numbers are shifted.
`tm-replay`'s results are functions of these logs as they are. `seen` is what really was: how far each replica had got when its own
clock left a second.

`Wire` states for each type of request which fields are written and when, and which are read
and what stands for one that is missing: two tables of one record for each field, as the code is two functions. `stage` is where the
message is: a request at its sender, its JSON, or what was read. TLC runs every request of
every type, over small values for each field, through both.

## 3. Runs

| run | instance | properties |
|---|---|---|
| `lifecycle` | 1 agent, 3 tasks, 2 tokens, at most 1 dependency and 1 child each, depth cap 1, lease window 0, clock to 1 | `TypeOK`, `StartedTasksHaveDoneDeps`, `OneMergePerFinishedImplement`, `FinishedTasksStay` |
| `leases` | 2 agents, 2 tasks, 4 tokens, lease window 1, clock to 3, skew 1 | `TokensIdentifyHolders`, `OnlyFreshTokensGranted`, `OnlyLapsedLeasesAreReclaimed`, `LiveLockIsNotTakenOver`, `HaltStopsNewWork` |
| `elections` | 3 replicas, 2 requests, 2 messages in flight, rounds to 5, retransmission into an empty network | `TypeOK`, `Agreement`, `LogsOfOneRoundAgree`, `AnsweredSurvives`, `LostRequestsStayLost`, `NothingGoesUnlogged`, `NoSlotSkipped`, `CutStaysInLog`, `AcksReachTheirLeader`, `InvariantParts`, `ImplementsReplicatedLog` |
| `own_response` | 3 replicas, 2 requests, 2 messages in flight, rounds to 4 | `OwnResponse` is **violated** |
| `failover` | 3 replicas, 1 request, 3 messages in flight, rounds to 5, all four schedules | `LeaderEmerges`, `ReachableReplicasCatchUp`, `NoCallForgotten`, `LogsDrain` |
| `suspension` | 3 replicas, 2 requests, 1 message in flight, rounds to 4 | `AgreementUnlessStray`, `RoundsUnlessStray`, `SuspendedStand`, `NoEmptyReply`, `ReplicatedLogUnlessStray` |
| `stray_propose` | the same | `Agreement` is **violated** |
| `swarm` | 2 agents; a plan, its implement and the merge; two merges; a merge that requires another | `MergesSerialize`, `EveryTaskEnds`, `LockNeverStuck` |
| `tcp` | 4 messages of 1 or 2 units of body, buffers of 3, two senders, the connection may break | `ImplementsLossyLink`, `FramesArrive` |
| `redirects` | 3 replicas, 2 clients, 4 changes of leader, decisions of one request counted to 2 | `RedirectsRepeatNothing`, `EveryPostIsAnswered` |
| `snapshots` | 2 agents, 1 task, 4 tokens, lease window 0, 2 replicas with clocks to 2 and skew 1, 3 entries | `SnapshotsAreHonest`, `ReclaimsAreTrue` |
| `wire` | every type of request | `RoundTrip`, `NoTokenMadeUp` |

**lifecycle.** Two tokens let a task be claimed, reclaimed and completed by a zombie, or
two tasks be claimed in turn; three tasks let an implement be created as the child of a
plan and get its merge, or a chain of two dependencies form. What it shows:
a task that was handed out has only finished dependencies, however long ago that was
(dependencies are looked at only at a claim, and a finished task must not come back); a
finished implement has exactly one synthesized merge and nothing else has one, though
`task_complete` may be repeated with any token; finished tasks never change; and the two
depth rules keep every task below the cap.

**leases.** Four tokens are two claims by each agent, or two claims and two locks; a
window of 1 with a clock to 3 lets a lease lapse, be renewed and lapse again; a skew of 1
lets a stamp lie before the heartbeat it is compared with. A token authorises one holder,
a lost token never comes back, a task changes hands only when its lease has run out by
the fastest clock, and the lock only when its holder's merge task is no longer run by
the agent that took the lock, under a fresh lease. While a failed task halts the swarm,
nobody gets work, and no lapsed task is reclaimed. The two agents are interchangeable
(`AgentSymmetry`); no property names one.

**elections.** Replica 0 leads from the start. Replicas 1 (round 4) and 2 (round 5)
may at any time, also when nothing is wrong, stand for election, while each replica that
believes it leads takes requests and retransmits. Two requests let two leaders fill the
same slot with different ones, and the round of the third decides between them; the log
adopted by 1 may be adopted again by 2, or lose to it. Two messages in flight are enough for
a message of an old round to arrive after one of the new round, in either direction; any
message may also be lost.
A leader retransmits when nothing is in flight (`MaxResend` = 0; in the other runs it retransmits at
any time): what it then sends may still overlap with every later request, PROBE and PROPOSE.

Elections stop at `MaxRound`, so the model may come to
a state with nothing left to do when its channels are empty; deadlock is not checked there.
`ImplementsReplicatedLog` says what `Agreement` cannot say of single states: no step takes back, replaces or repeats an applied
request. `LostRequestsStayLost` and `NothingGoesUnlogged` bound what findings 1 and 3 below can do: a caller that got another
request's response has lost its own for good, and what a new leader leaves out of its decision log is in another replica's.

`InvariantParts` is the inductive invariant of the proofs (section 5) as far as TLC can evaluate it here: rounds and
leaders, indices, calls and decision logs, that a quorum holds what is decided, and that a leader can choose nothing which a
later round lacks, for the sequence of the decided requests. It was checked before the proofs were tried, and is proved too. The other
parts are checked by their consequences (`LogsOfOneRoundAgree` for `LogsAgree`) or left to the proof: to look for the witnesses of every message among all
quorums and rounds takes TLC too long, and the types are infinite sets.

**CutStaysInLog** deserves a word: on the first PROPOSE of a round a follower removes
entries from the back of its log until it ends where the leader's does, without looking
whether the log is empty. The property says that the leader's log always reaches at
least the slots the follower has applied, so the loop ends in time and nothing applied is
taken back.

**failover.** From the start, a failure at any moment, and all interleavings of
two candidates with the old leader. A replica leads for good in the end, also when it took a
candidate that never wins for its leader (`tm-paxos.cc:133`), and the replicas it reaches catch up, those included that
come back with a log of an old round. `MaxRound` bounds the elections: a duel of two candidates for ever is not
excluded by this run, only shown to end in a leader when it ends. A call waits in vain only if its request is
lost with its leader: a step-down does not forget it. `LogsDrain`: with every link in order, at first or again, the least
acknowledgment of all replicas comes to reach the end of every log. Three messages in flight are a broadcast and one message of
another round; one request is enough, as what two requests do to one slot is the business of `elections`.

**suspension.** All orders in which `run()` and calls suspended at each peer can interleave, with one
message in flight (with more the run takes too long; every other run of the replicas has 2 or more)
and one rival, replica 1 in round 4.
The properties hold until the first stray PROPOSE; then nothing does (`stray_propose`). `SuspendedStand` is what each
suspended coroutine relies on when it goes on: `run()` still leads while its PROPOSEs go out; while its PROBEs go out it is the
candidate it was, has counted nobody, and no peer that it has yet to ask has been asked or has answered; a call whose replica is still in the
call's round finds its slot in the log, and its response or its waiter. The code asserts none of this. `ReplicatedLogUnlessStray` is the refinement of
`ReplicatedLog` again, step by step up to the stray one, wherever in a broadcast the coroutines stand. `NoEmptyReply` speaks of calls
that return in the round they began in: one whose replica was meanwhile elected again may return an empty response (section 4),
which takes rounds to 6, beyond this run.

**swarm.** The whole life of a plan: claimed, reclaimed, completed with a child, the
child completed with a branch, its merge, the lock; two merges, so that the agents
meet at the lock with fresh and with lapsed leases, and with a lock whose holder is gone; and a merge that waits for one that may
fail. Agents die or stall at every step, and zombies go on. The
lease window is 0 and the clock goes to 2: a lease is fresh in the second of its last heartbeat and lapses
in the next, and a task is left behind only while time can still pass (`LeaseCanEnd`). One retry (`MaxTries`) stands for
five. A leader is lost in the first second only (`MaxLoss`), as often as one likes and for as long. `EveryTaskEnds`
makes two exceptions, a task whose dependency failed and a swarm that is all dead; every caller gets the answer to its own request
or none, so that what finding 1 does to an agent is not in this model; `MergesSerialize` one, a lapsed lease that a
heartbeat renewed (section 4).

**tcp**: a frame longer than the buffers comes out whole although it is written and read in parts; only
two senders at once (`mixed`) or a connection that breaks lose one. The link is a lossy FIFO link even when frames mix: what is read
in place of a length is text, far above the 16MB cap, and the reader gives up.

**redirects**: `leader_index()` is read after the request was decided, when the replica may
lead no more. That does no harm, for by then the answer is not "not leader"; with the exception of the busy lock. Every request
that is posted comes to a leader, however the replicas point at one another, and is answered, with two exceptions that are states of the model:
its replica was deposed and the request went with its log (`lost`), or its replica applied it in `become_leader` (`forgotten`); such a caller
may wait for ever. Four changes of leader are a circle of redirects and its end, or two step-downs with requests under way; counting
decisions to 2 tells a repetition from none.

**snapshots**: a replica that lags is shown with what it had applied by the end of *its own* second in which the step was
stamped, neither more nor less, but for what it applied unlogged. `next_idx` never goes back, so that after a change of leader to a slower clock
a step is shown at the second of the latest stamp so far, which may lie past its own (finding 11); the property says which second
that is. `ReclaimsAreTrue` speaks of the steps before the first hole in the log that `tm-replay` takes for its event stream: past a hole it
replays requests on a state that no replica had. Two replicas and a skew of 1 are enough for a stamp that goes back and for a lag in either
direction; three entries are a task, its claim and its reclaim, of which a hole may swallow any. The two agents are interchangeable (`AgentSymmetry`).

### Fairness

Safety runs use specifications without fairness. The others assume, and no more:

* **Replicas** (`PaxosFailover`): each `run()` takes every message and every timeout at last (`while (true)`, and
  cotamer runs every coroutine that can go on), and a failure schedule runs to its end. Clients need not submit
  anything. The conditions are weak fairness written out, because TLC takes long to evaluate `ENABLED` of these steps; `CanElect` and
  `CanRetransmit` are the enabling conditions.
* **Agents** (`Swarm`): an agent that lives goes on; an election ends; a person resumes a halted swarm; time
  passes. Not assumed: that agents heartbeat, that answers arrive, that humans create tasks.
* **TCP**: weak fairness of each coroutine. A write meets a broken
  connection at last because the leader's timer sends for ever.
* **HTTP**: servers and clients go on, and in the end one replica leads and all follow it, none of them cut off (`LeaderEmerges`). Then a
  request is decided or is in no log any more, and a follower applies what is decided (`ReachableReplicasCatchUp`, `NoCallForgotten`).
  *Which* of these happens to a deposed request is not assumed, and nothing makes a lost one be answered. A lock comes free at last
  although its holder may never release it (`LockNeverStuck`).

Each fairness assumption is of actions that the code takes without waiting for anyone; losing, dying, breaking and
stalling are never fair.

## 4. Where code and documents differ

Two runs show the code doing what a comment or a document excludes.

1. `own_response`. `tm-paxos.hh:62` says the call blocks until the slot carrying *this
   request* is decided. A step-down clears `pending_`, which nothing fills, and keeps
   `pending_responses_` (`tm-paxos.cc:135`): when another request is decided in
   the slot, its response goes to the old caller.
2. `stray_propose`. `docs/PLAN.md:623`: every replica's `task_manager_db` agrees. `send_propose` reads
   `probe_round_` after each await (`tm-paxos-internal.hh:151`). A call suspended between two peers, whose replica answers
   a rival's PROBE meanwhile, sends its remaining PROPOSEs *in the rival's round*. A follower accepts them as the log of
   that round; the rival then proposes another log in it, and the replicas apply different requests in one slot.

Others the models take as they are: they appear as steps, as exceptions of a property, or as what a property does not say.

3. `tm-paxos.hh:72`: the decision logger fires for every mutation on every replica. `become_leader` applies entries
   below the adopted log's base without it (`tm-paxos.cc:67`), so one replica's log has a hole (`NothingGoesUnlogged` is what remains), although the comment at `tm-server.cc:43` has all replicas
   "produce byte-identical logs". `tm-replay` then shows that replica without these entries (`unlogged` in `SnapshotsAreHonest`), and replays
   past a hole to states that no replica had (`Gapless` in `ReclaimsAreTrue`).
4. `docs/PLAN.md:620`: every task reaches a terminal state. A task that requires a failed
   one is never eligible (`task_manager_db.cc:25`), and a resume does not revive the failed one (`Blocked` in `EveryTaskEnds`).
5. `docs/PLAN.md:348`: the main lock "piggybacks the holder's merge task lease", and `skills/task-planning.md:123`: merges
   serialize via the main lock. The code compares the holder's *name* with the owner (`task_manager_db.cc:290`), and a heartbeat
   renews a lease that has lapsed (`:161`): a lapsed holder loses the lock to another merge, heartbeats its task, which nobody
   reclaimed, and goes on; nothing tells it (`revived` in `MergesSerialize`).
6. `docs/PLAN.md:317` promises `fenced` for a wrong `agent_id` or token. `main_lock_acquire` checks the token only
   (`task_manager_db.cc:280`); the lock then names an agent that does not own the merge task, and the next acquire takes it.
7. `docs/PLAN.md:598`: a retried claim must not double-assign, by deduplication of
   `(agent_id, serial)` "at the HTTP layer". No such code exists; a claim whose answer is lost gets a second task when it is
   repeated (`ClaimAnswerLost`).
8. `tcp_transport.hh:4`: length-prefixed frames. `send` awaits two writes without a lock
   (`tcp_transport.cc:107`); over a full socket a second sender writes into the first one's frame, and the peer's
   read loop ends (`mixed` in `FramesArrive`).
9. `tcp_transport.hh:25`: the background tasks persist. `connect_loop_` returns after its first success, so a
   connection that was lost stays lost (`tcp_transport.cc:134`, `:109`); no action of `TcpTransport` opens it again.
10. The comment at `tm-server.cc:139` redirects "if we're not the leader". The condition is `errc::busy`, which a held
    main lock gives as well: the leader redirects to itself, and the client comes back until the lock is free (`LockBusy`).
11. The comment at `tm-replay.cc:384` has replica 0 apply an entry in the second it was stamped. It
    is stamped before it is proposed, so a second may pass in between (`Replayed`). And stamps go back at a change of leader while
    `tm-replay` never rewinds `next_idx`: such a step shows the replicas at a later second than its own (`SnapshotsAreHonest` names the second).
12. The comment at `tm-paxos-internal.hh:168` has a call block until the response lands. It looks for its slot to be applied only
    after its sends (`:208`). If its last send is suspended while its replica loses the lead, has its log cut, is elected again and
    applies another request in the slot, the call finds the slot applied and returns a default response. So `NoEmptyReply` speaks
    of calls that return in their own round.

## 5. Proofs

Every theorem holds for any values of the constants that satisfy the named assumption of its module, which only
says of what kind they are: any number of replicas, agents, clients, tasks, requests and messages, any lease window, and no
bound on rounds or on time but the one given as a constant, whatever it is.

### The task manager

`TaskManager_proofs`, from `TaskManagerAssumption`:

| theorem | statement |
|---|---|
| `TypeCorrect` | `Spec => []TypeOK` |
| `TokensCorrect` | `Spec => []TokensIdentifyHolders` |
| `FinishedTasksStayTheorem` | `Spec => FinishedTasksStay` |
| `DependenciesRespected` | `Spec => []StartedTasksHaveDoneDeps` |
| `OneMerge` | `Spec => []OneMergePerFinishedImplement` |
| `FreshGrants` | `Spec => OnlyFreshTokensGranted` |
| `LapsedReclaims` | `Spec => OnlyLapsedLeasesAreReclaimed` |
| `LiveLockStays` | `Spec => LiveLockIsNotTakenOver` |
| `HaltHolds` | `Spec => HaltStopsNewWork` |

The argument. For each action a lemma `<Action>Effect` says what it does to the list of
tasks: which tasks it leaves alone, which one it changes and how, what it appends. The
invariant proofs go through the actions with these lemmas only. `TypeOK` is inductive as
it stands (the cap on depths needs the guards of `CreateErrc` and `CompleteErrc`).
`TokensIdentifyHolders` is inductive together with `TypeOK`: every token in use lies below
`nextToken`, so that a grant cannot meet one. `Next` keeps the requests that read the stamp
(`Dated`) apart from those that do not (`Undated`); `GrantingSteps` splits every step into a
claim, a lock grant, or a step that grants nothing (`UndatedGrants`, `DatedGrants`); `TokensStep` and the four grant
theorems go through these three cases. `FinishedTasksStay` needs that a task which is not in
progress has no token, which is part of `TokensIdentifyHolders`. `StartedTasksHaveDoneDeps`
rests on both: a claim checks the dependencies, and afterwards they stay done because
finished tasks stay finished. `LapsedReclaims` and `LiveLockStays` compare clocks:
`Stamps` lets a leader's clock lag behind the fastest one and never lead it, so a lease
that has lapsed by the stamp has lapsed by every clock (`LapsedByEveryClock`).
`HaltHolds` strengthens the invariant with `HaltHasCause`: whatever task a halt names is
failed, and by `FinishedStep` it stays so until the swarm is resumed.

`OneMerge` counts tasks that other tasks are appended next to. Instead of a cardinality, `MergesMatch` names the
one merge task. `Lineage` is what else must be true: a parent is older than its child, so that a new task is nobody's merge but
its parent's, and only a completion leaves a branch, so that one task is finished once. A child that an agent
asks for may be a merge that requires its parent alone; it is no synthesized merge, because it is deeper than its parent.

### The replicas

`PaxosReplica_proofs`, from `PaxosAssumption`:

| theorem | statement |
|---|---|
| `Invariance` | `Spec => []Inv` |
| `TypesCorrect` | `Spec => []TypeOK` |
| `ReplicasAgree` | `Spec => []Agreement` |
| `NoSlotPassedOver` | `Spec => []NoSlotSkipped` |
| `RoundLogsAgree` | `Spec => []LogsOfOneRoundAgree` |
| `CutsStayInLog` | `Spec => []CutStaysInLog` |
| `AcksFindTheirLeader` | `Spec => []AcksReachTheirLeader` |
| `AnswersSurvive` | `Spec => []AnsweredSurvives` |
| `LostStaysLost` | `Spec => []LostRequestsStayLost` |
| `DecisionsAreLogged` | `Spec => []NothingGoesUnlogged` |
| `Refinement` | `Spec => ImplementsReplicatedLog` |
| `InvariantPartsHold` | `Spec => []InvariantParts` |
| `FailoverIsSafe` | `FSpec => Spec` |
| `FailoverAgrees` | `FSpec => []Agreement` |

The argument. None of these properties is inductive: that the replicas agree says nothing of the messages that are about
to make them disagree. `Inv` (module `PaxosInvariant`) says that there is a sequence `c` of all the requests that were ever chosen, and
that the state fits to it (`Whole`). Its parts, and what each is for:

* `Chosen`: a quorum accepted the first n requests of `c` in a round r or later, every log of a later
  round has them, wherever it is (in a replica, a PREPARE or a PROPOSE), and every PREPARE that a member of the quorum sends
  for a later round shows them. This is the fact that lasts: a new leader hears of a quorum, two quorums meet (`QuorumsMeet`),
  and the log it adopts, of the highest round, has them.
* `Settled` and `Decided`: chosen by all or by a quorum. A log is truncated only to what is settled, since a
  truncated entry can be had from nobody who lacks it; a request is applied only if it is decided. `Witnesses` says so of each
  index in a replica or a message.
* `Rounds`: who may send, hold and lead what round. `LogsAgree`: the logs written in one round are parts of one, its leader's.
* `Votes` and `Tallied`: an acknowledgment that a leader has counted, or will count, is true: its sender still has that
  much of the round's log, or what it acknowledged was settled and truncated since.
* `Safe`: an old leader that has not heard of a new round can choose no slot which the
  new round's log has not; a quorum that has left its round will never accept it. With this part `Chosen` begins to hold when the leader
  counts its quorum.
* `Indices`: a replica's `db` is the beginning of `c`. `Fresh`: of one PROBE there is one PREPARE, so that a candidate
  counts a sender once (`become_leader` counts messages, not senders).
* `Books`: where each request is, who waits for it, and in whose decision log it is.

Nothing in the invariant asks for a message to be there, so that losing or delaying one leaves it true. Handlers are followed
through their parts: `PaxosInvariant_proofs` has the parts that write no entry and the three writes (a new entry, a PROPOSE,
the adoption of the best log), then what each operator of the handlers does, and
`PaxosReplica_proofs` puts an action together from them. Each of its lemmas says besides that `c` at most goes on and that one replica at
most applies more (`Progress`): this is a step of `ReplicatedLog` or a stutter, and gives `Refinement`.

`InvariantPartsHold` follows from `Inv` for another sequence, and so links what TLC evaluates to what is proved. TLC cannot see `c`,
which is longer than what anyone knows to be decided; it takes the first `MostDecided` requests of some replica's log, and that
is a prefix of `c` (`SomeKnowsDecided`). Each part must survive the cut (`PrefixBooks`). For `CallsKept` it did not: that a lost request's
places lie within `c` says nothing of a shorter sequence. What is true, and inductive, is that they lie below what the caller's own replica
applied, and `CallsKept` says that now.

`FailoverIsSafe` carries all these theorems over to `PaxosFailover`: the failure schedules cut links, and the clients and the timing fact
only restrict the replicas, so that nothing which `failover` shows of progress is bought with another system than the one proved safe.
`FailoverAgrees` is one instance.

### Replicas whose sends suspend

`PaxosSuspension_proofs`, from `PaxosAssumption`:

| theorem | statement |
|---|---|
| `SuspendedInvariance` | `SSpec => []SuspendedInv` |
| `SuspendedAgree` | `SSpec => []AgreementUnlessStray` |
| `SuspendedRounds` | `SSpec => []RoundsUnlessStray` |
| `SuspendedStands` | `SSpec => []SuspendedStand` |
| `NoEmptyReplies` | `SSpec => NoEmptyReply` |
| `SuspendedRefinement` | `SSpec => ReplicatedLogUnlessStray` |

The argument. `SuspendedInv` is `Inv` and `SuspendedStand` with the types of the two tables, until `stray`. The parts of the
invariant survive half a broadcast because they ask for no message to be there: one turn of a loop over the peers
sends what a full broadcast would have sent to this peer *now* (`TurnSends`), and is a step that keeps `Inv` if the replica leads
(`ResumeLeads`) or, for a PROBE, if the peer was not asked before in this round, so that `Fresh` holds (`ProbesNext`). That is where
the two invariants need each other. A leader or candidate stays so while `run()` sends, since `run()` alone receives; a call has no such
protection, and `~stray` in the step's last state gives that its replica is in the call's round, and therefore leads.
`StepKeepsStanding` then goes through the actions. Another replica's step only answers messages, and a PREPARE answers a PROBE that was there
(`OnlyAnswers`). A step of its own replica keeps a call's slot and waiter (`CallsStay`: each operator of a handler does, and so their composition),
or takes the replica to another round than the call's (`AwayCalls`); rounds that a replica has left it does not come back to.
The proof brought to light that a replica without peers has decided its own entry only when its call goes on, which no run with three replicas
could show: `Tallied`, which says that a replica has decided all it can count a quorum for, is about replicas with peers.
`SuspendedRefinement` takes each of these steps once more for its `Progress`: one turn of a loop applies nothing, and what is applied
between two turns extends one replica's `db` along `c`.

### The rest

| module | theorem | statement | from |
|---|---|---|---|
| `Swarm_proofs` | `MergesTakeTurns` | `WSpec => []MergesSerialize` | `SwarmAssumption`, `TaskManagerAssumption` |
| `Swarm_proofs` | `SwarmRunsTaskManager` | `WSpec => Spec` (of `TaskManager`) | the same |
| `Replay_proofs` | `LogsRecordTaskManager` | `RSpec => Spec` (of `TaskManager`) | `ReplayAssumption`, `TaskManagerAssumption` |
| `Replay_proofs` | `HonestSnapshots` | `RSpec => []SnapshotsAreHonest` | `ReplayAssumption`, `TaskManagerAssumption` |
| `Replay_proofs` | `TrueReclaimEvents` | `RSpec => []ReclaimsAreTrue` | the same |
| `Server_proofs` | `NothingIsRepeated` | `HSpec => []RedirectsRepeatNothing` | `HttpAssumption` |
| `Server_proofs` | `RequestsRoundTrip` | `WSpec => []RoundTrip` (of `Wire`) | `WireAssumption` |
| `Server_proofs` | `TokensComeFromClients` | `WSpec => []NoTokenMadeUp` | the same |
| `TcpTransport_proofs` | `LinkIsLossyFifo` | `TSpec => ImplementsLossyLink` | `TcpAssumption` |
| `TcpTransport_proofs` | `InOrderAtMostOnce` | `TSpec => [](Distinct(got) /\ Increasing(out, got))` | the same |

**Swarm.** Its steps are steps of the task manager with more state, so the lemmas of `TaskManager_proofs` apply to them. The
invariant `WInv` is about what each agent knows: its tokens were minted, no two agents have one lock token, and a task that still
has the agent's token is the agent's (`AgentKnows`). The last part is the point: while no lapsed lease was renewed,
the lock is that of whoever merges under a live lease. `SwarmStep` says what a step may do to a task, to an agent and to the lock;
every action is such a step (`SwarmSteps`) and every such step keeps the invariant. A lock is granted only when it is not valid,
that is when its holder's lease is gone, and with `LeasesLapse` a lapsed lease does not come back.

**Replay.** Snapshots: each replica's clock is at most the fastest, which is `TaskManager`'s (`ClocksAgree`); its decision log names
the slots that it applied and did not leave unlogged, with times that grow and are not in its future (`LogFollows`); and `seen` separates those
that it applied up to a second from the later ones (`SeenInTime`). Nothing is assumed of the stamps: what `tm-replay` has replayed
after step k is what was applied up to the latest of the stamps so far, and `SeenInTime` says that this is what was seen in that second. Since a
step keeps all of the logs but one end of them, the lemmas are one for each end (`DecideKeeps`, `ApplyKeeps`, `BecomeLeaderKeeps`, `TimeKeeps`).
Reclaims: the last state in the log is the task manager's (`LogIsCurrent`), a task has an owner exactly while it has a token, and what a step of
the task manager does to an owner is known (`RequestReclaims`).

**One task manager.** By `SwarmRunsTaskManager` and `LogsRecordTaskManager` a run of the swarm, or one that the logs record, is a run of
`TaskManager` once the agents or the logs are left out, so that the nine theorems of `TaskManager_proofs` hold of both. The same theorems say that
these modules ask nothing of the task manager that its clients cannot do: every request of a synthetic agent, with whatever
token it still has, is one of the inputs that `TaskManager` enumerates.

**HttpServer.** `Progress`: nothing is decided before it is posted; a request that is on its way or lost has not been decided with effect; and only
a busy lock sends a request back that was decided. An action moves one client (`OnlyMoves`, `OneClientMoves`) or deposes those of one
replica, so that the invariant is shown for one client's record at a time.

**Wire.** The theorems hold for every field's set of values. `Tables` goes through the two tables once, entry by entry: the
value for which the sender leaves a field out is the value which the reader puts in its place, and a field that is always written is
read as it is. `FieldKept` concludes this for one field of any request of a type, and the reader's list of a type's fields is the
writer's, so a request survives. `Lacks` is the object that a client leaves a field out of, and what a field's absence means
(`TokensHaveNoDefault`) gives `NoTokenMadeUp`: a token that is missing is refused or stays unset.

**TcpTransport.** The refinement mapping takes a message for sent when its length enters the socket. The invariant `Line` says that what
was received, what is queued, the frame being read and the lengths on their way are one line, in the order of the sends; a unit of a
body is never taken for a length that is kept. `InOrderAtMostOnce` says without the mapping what the link promises.

### What stays with TLC

* Liveness, which rests on fairness and so on `ENABLED`, out of the prover's reach: `LeaderEmerges`, `ReachableReplicasCatchUp`, `NoCallForgotten`
  and `LogsDrain` of `PaxosFailover`, `FramesArrive`, `EveryPostIsAnswered`, `EveryTaskEnds`, `LockNeverStuck`. Every invariant and
  action property of the passing runs is proved.
* The two violations (section 4).

## 6. What is not modelled

* `to_json_response`: responses are written for clients and read back by no code of this repository.
  The fields of a `paxos_message` besides its requests are copied one by one into JSON and back.
* `GET /dump`, HTTP parsing, the command line, and the answers to requests that are malformed.
* `tm-replay`'s file reading, its lock events, which steps it keeps as snapshots, its summaries and its output; logs without `applied_at_unix`.
* `tm-tests.cc` and the oracle `check_invariants` of `tm-paxos-tests.cc`: tests of what is modelled here.
* Random numbers, visualisers, the monitor, scripts, skills: pure computation, I/O, or prompts without state.
* Batching and the performance counters of the replica: `run()` never uses them.
* The restart of a process: Paxos state is kept in memory only, and `docs/PLAN.md:771` names the violation as a known
  limitation; a process that died stays away here too.
* A clock that runs backwards on one host, and endless election duels (rounds are bounded).
* netsim's virtual clock: delays, and the coroutines that carry a message after one. Every delay is a choice of when to
  receive; that messages between two replicas stay in order rests on the pause a sender makes, and is assumed.

## 7. Plan

1. One `TaskManager` for three replicated ones: a module that gives each replica's `db` its task manager and a theorem that these are
   prefixes of one run. What it rests on, that `process_req` is a function of state, request and stamp, is now read off the code; and what a
   function folded over a sequence computes is induction over data, out of the prover's reach.
2. `own_response` and `stray_propose`: once the code is changed, `OwnResponse` and `Agreement` under `SSpec` are the theorems to
   prove; the invariants above need no exception for `stray` then.
