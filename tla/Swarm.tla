------------------------------- MODULE Swarm -------------------------------
(***************************************************************************)
(* The swarm: agents that drive the task manager's requests, each through  *)
(* claim, work, main lock, completion, as synthetic_agent and              *)
(* send_to_leader of tm-paxos-tests.cc do and, in its main points,         *)
(* scripts/synthetic-agent.sh over tm-server's handle().  The replicated   *)
(* task manager is one TaskManager (ImplementsReplicatedLog of             *)
(* PaxosRefinement), which at times has no leader to answer.               *)
(*                                                                         *)
(* Agents may die, stall for any time, fail tasks, and lose the answer to  *)
(* a claim.                                                                *)
(***************************************************************************)
EXTENDS TaskManager

CONSTANTS
    MaxTries,  \* max_retries of send_to_leader
    MaxLoss,   \* bound: the latest time at which a leader is lost
    RootLists  \* the lists of tasks that people create, one of them per behavior

\* The bounds leave room for the child of a plan and for what people create.
ASSUME SwarmAssumption ==
    /\ MaxTries \in Nat /\ MaxLoss \in Nat
    /\ MaxChildren > 0
    /\ RootLists \subseteq Seq(ChildSpec)

VARIABLES
    agent,       \* agent[a]: where synthetic_agent a is, and what it knows
    leaderless,  \* no replica leads: every request is answered busy, "not leader"
    roots,       \* the tasks that people have yet to create, in order
    revived      \* history: a heartbeat has renewed a lease that had lapsed

wvars == <<tasks, lock, nextToken, haltedBy, clock, agent, leaderless, roots, revived>>

Idle == [pc |-> "claim", task |-> NoTask, token |-> NoToken, lockToken |-> NoToken, tries |-> 0]

WInit ==
    /\ Init
    /\ agent = [a \in Agents |-> Idle]
    /\ leaderless = FALSE /\ revived = FALSE
    /\ roots \in RootLists

\* Agent a goes on to pc, with its tries afresh.
Goto(a, pc) == agent' = [agent EXCEPT ![a].pc = pc, ![a].tries = 0]

\* Agent a is left without its task, should it have one.
Forget(a, pc) == agent' = [agent EXCEPT ![a] = [Idle EXCEPT !.pc = pc]]

Alive(a) == agent[a].pc # "gone"
Holds(a) == agent[a].task # NoTask

\* Bound: an agent leaves its task behind only while the clock can still
\* reach the end of the lease.
LeaseCanEnd(a) == Holds(a) => tasks[agent[a].task].hb + LeaseWindow < MaxClock

-----------------------------------------------------------------------------
(* send_to_leader: the requests of an agent                                *)

\* Where an agent goes on when send_to_leader gives it a busy answer.  What
\* a claim or an acquire gets from a replica that does not lead is the
\* response type of another request, on which std::get throws.
AfterBusy(a, notLeader) ==
    \/ /\ agent[a].pc \in {"claim", "lock"} /\ notLeader
       /\ LeaseCanEnd(a)
       /\ Forget(a, "gone")
    \/ /\ agent[a].pc = "unlock" \/ (agent[a].pc = "lock" /\ ~notLeader)
       /\ Goto(a, "complete")
    \/ /\ agent[a].pc = "complete"
       /\ LeaseCanEnd(a)
       /\ Forget(a, "claim")

Busy(a, notLeader) ==
    /\ IF agent[a].tries < MaxTries
       THEN agent' = [agent EXCEPT ![a].tries = @ + 1]
       ELSE AfterBusy(a, notLeader)
    /\ UNCHANGED <<tasks, lock, nextToken, haltedBy, clock, leaderless, roots, revived>>

\* No replica leads.
NotLeader(a) ==
    /\ leaderless
    /\ agent[a].pc \in {"claim", "lock", "unlock", "complete"}
    /\ Busy(a, TRUE)

\* The main lock is another's, which the retry loop cannot tell from "not leader".
LockBusy(a) ==
    /\ ~leaderless
    /\ agent[a].pc = "lock"
    /\ AcquireErrc(agent[a].task, agent[a].token, clock) = "busy"
    /\ Busy(a, FALSE)

\* Unless nothing can be claimed, which changes nothing.
ClaimTask(a) ==
    /\ ~leaderless
    /\ agent[a].pc = "claim"
    /\ \E i \in TaskId :
          /\ Claim(a, "any", clock, i)
          /\ agent' = [agent EXCEPT ![a] = [Idle EXCEPT !.pc = "work", !.task = i,
                                                        !.token = nextToken]]
    /\ UNCHANGED <<leaderless, roots, revived>>

Work(a) ==
    /\ agent[a].pc = "work"
    /\ Goto(a, IF tasks[agent[a].task].type = "merge" THEN "lock" ELSE "complete")
    /\ UNCHANGED <<tasks, lock, nextToken, haltedBy, clock, leaderless, roots, revived>>

\* The lock is granted, or refused for good: the agent then completes without.
LockMain(a) ==
    LET s == agent[a] IN
    /\ ~leaderless
    /\ s.pc = "lock"
    /\ \/ /\ MainLockAcquire(a, s.task, s.token, clock)
          /\ agent' = [agent EXCEPT ![a].pc = "unlock", ![a].lockToken = nextToken,
                                    ![a].tries = 0]
       \/ /\ AcquireErrc(s.task, s.token, clock) \in {"fenced", "not_found"}
          /\ Goto(a, "complete")
          /\ UNCHANGED <<tasks, lock, nextToken, haltedBy, clock>>
    /\ UNCHANGED <<leaderless, roots, revived>>

UnlockMain(a) ==
    /\ ~leaderless
    /\ agent[a].pc = "unlock"
    /\ \/ MainLockRelease(agent[a].lockToken)
       \/ /\ lock.token # agent[a].lockToken
          /\ UNCHANGED <<tasks, lock, nextToken, haltedBy, clock>>
    /\ Goto(a, "complete")
    /\ UNCHANGED <<leaderless, roots, revived>>

\* A plan has an implement task for a child, and an implement task a branch.
ChildrenOf(i) == IF tasks[i].type = "plan" THEN <<[type |-> "implement", deps |-> {}]>> ELSE <<>>

\* The agent does not look at the answer.
CompleteTask(a) ==
    LET s == agent[a] IN
    /\ ~leaderless
    /\ s.pc = "complete"
    /\ \/ Complete(s.task, s.token, ChildrenOf(s.task), tasks[s.task].type = "implement")
       \/ Fail(s.task, s.token)
       \/ /\ CompleteErrc(s.task, s.token, ChildrenOf(s.task)) # "ok"
          /\ UNCHANGED <<tasks, lock, nextToken, haltedBy, clock>>
    /\ Forget(a, "claim")
    /\ UNCHANGED <<leaderless, roots, revived>>

HeartbeatTask(a) ==
    /\ ~leaderless
    /\ Alive(a) /\ Holds(a)
    /\ Heartbeat(agent[a].task, agent[a].token, clock)
    /\ revived' = (revived \/ LeaseExpired(tasks[agent[a].task], clock))
    /\ UNCHANGED <<agent, leaderless, roots>>

-----------------------------------------------------------------------------
(* What agents and networks do.                                            *)

\* The claim is decided and its answer lost: the agent claims again
\* (synthetic-agent.sh: "if [ -z "$claim" ]; then sleep 1; continue").
ClaimAnswerLost(a) ==
    /\ ~leaderless
    /\ agent[a].pc = "claim"
    /\ clock + LeaseWindow < MaxClock
    /\ \E i \in TaskId : Claim(a, "any", clock, i)
    /\ UNCHANGED <<agent, leaderless, roots, revived>>

\* The last agent lives on.
Die(a) ==
    /\ Alive(a) /\ \E b \in Agents \ {a} : Alive(b)
    /\ LeaseCanEnd(a)
    /\ Forget(a, "gone")
    /\ UNCHANGED <<tasks, lock, nextToken, haltedBy, clock, leaderless, roots, revived>>

LoseLeader ==
    /\ ~leaderless /\ clock <= MaxLoss
    /\ leaderless' = TRUE
    /\ UNCHANGED <<tasks, lock, nextToken, haltedBy, clock, agent, roots, revived>>

ElectLeader ==
    /\ leaderless
    /\ leaderless' = FALSE
    /\ UNCHANGED <<tasks, lock, nextToken, haltedBy, clock, agent, roots, revived>>

\* People create root tasks and resume the swarm after a failure.
HumanCreate ==
    /\ roots # <<>>
    /\ Create(NoTask, NoToken, Head(roots).type, Head(roots).deps)
    /\ roots' = Tail(roots)
    /\ UNCHANGED <<agent, leaderless, revived>>

HumanResume ==
    /\ haltedBy # NoTask
    /\ SwarmResume
    /\ UNCHANGED <<agent, leaderless, roots, revived>>

TimePasses == Tick /\ UNCHANGED <<agent, leaderless, roots, revived>>

-----------------------------------------------------------------------------
AgentStep(a) ==
    \/ ClaimTask(a) \/ Work(a) \/ LockMain(a) \/ UnlockMain(a) \/ CompleteTask(a)
    \/ NotLeader(a) \/ LockBusy(a)

WNext ==
    \/ \E a \in Agents : AgentStep(a) \/ HeartbeatTask(a) \/ ClaimAnswerLost(a) \/ Die(a)
    \/ LoseLeader \/ ElectLeader \/ HumanCreate \/ HumanResume \/ TimePasses

\* Agents that live go on, an election ends, people resume a halted swarm,
\* and time passes.  Nothing else is sure to happen: agents may stall.
Fairness ==
    /\ \A a \in Agents : WF_wvars(AgentStep(a))
    /\ WF_wvars(ElectLeader) /\ WF_wvars(HumanResume) /\ WF_wvars(TimePasses)

WSpec == WInit /\ [][WNext]_wvars /\ Fairness

-----------------------------------------------------------------------------
(* Properties.                                                             *)

\* No task is lost (PLAN.md: "Every task created reaches a terminal state",
\* "never a permanently-lost task"), although agents die or stall with it,
\* claims, completions and lock requests meet a replica that does not lead,
\* answers get lost, and agents give up: unless no agent is left, or a task
\* that it requires has failed, or waits in vain itself.
Ended(i) == i \in TaskId /\ tasks[i].status \in {"done", "failed"}
NobodyLeft == \A a \in Agents : ~Alive(a)
Blocked(i) == i \in TaskId /\ \E d \in tasks[i].deps : d \in TaskId /\ tasks[d].status = "failed"
EveryTaskEnds ==
    \A i \in 1..MaxTasks : (i \in TaskId) ~> (Ended(i) \/ Blocked(i) \/ NobodyLeft)

\* The main lock is never stuck: whoever took it, and died, stalled, kept its
\* lease alive or never released it, in the end it binds nobody.
LockNeverStuck == LockValid(clock) ~> ~LockValid(clock)

\* Merges serialize via the main lock (skills/task-planning.md): two agents
\* that both run their merge under a fresh lease, fenced by nothing, are not
\* both between acquire and release.  Only a heartbeat that renews a lapsed
\* lease undoes this, for the lock may have been taken over meanwhile.
Merging(a) ==
    /\ agent[a].pc = "unlock"
    /\ tasks[agent[a].task].token = agent[a].token
    /\ ~LeaseExpired(tasks[agent[a].task], clock)
MergesSerialize == \A a, b \in Agents : a # b /\ Merging(a) /\ Merging(b) => revived
=============================================================================
