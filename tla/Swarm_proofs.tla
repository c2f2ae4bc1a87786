---------------------------- MODULE Swarm_proofs ----------------------------
(***************************************************************************)
(* Merges take turns, for any agents, tasks, retries and lease windows.    *)
(*                                                                         *)
(* The swarm's steps are steps of the task manager, whose theorems they    *)
(* use.  What is added is what each agent knows: its tokens were minted,   *)
(* no two agents hold one lock token, the task whose token it still has is *)
(* its own; and while no lapsed lease was renewed, an agent that merges    *)
(* under a fresh lease is the one that the lock names.                     *)
(***************************************************************************)
EXTENDS Swarm, TaskManager_proofs

USE DEF NoTask, NoToken, TaskId

Working == {"work", "lock", "unlock", "complete"}
AgentRecord ==
    [pc : Working \cup {"claim", "gone"}, task : Nat, token : Nat, lockToken : Nat, tries : Nat]

AgentKnows(a) ==
    LET r == agent[a]
    IN  /\ r.token < nextToken /\ r.lockToken < nextToken
        /\ r.pc \in Working => /\ r.task \in TaskId /\ r.token # NoToken
                               /\ tasks[r.task].token = r.token => tasks[r.task].agent = a
        /\ r.pc = "unlock" => r.lockToken # NoToken
        /\ r.pc \notin Working => r.task = NoTask

LockTokensDiffer ==
    \A a, b \in Agents : a # b /\ agent[a].lockToken # NoToken
                         => agent[a].lockToken # agent[b].lockToken

\* The lock is that of agent a.
HasLock(a) == lock = [agent |-> a, task |-> agent[a].task, token |-> agent[a].lockToken]

WTypes ==
    /\ TypeOK /\ Len(tasks) <= MaxTasks
    /\ agent \in [Agents -> AgentRecord]
    /\ roots \in Seq(ChildSpec)
    /\ revived \in BOOLEAN

WInv ==
    /\ WTypes /\ TokensIdentifyHolders
    /\ \A a \in Agents : AgentKnows(a)
    /\ LockTokensDiffer
    /\ ~revived => \A a \in Agents : Merging(a) => HasLock(a)

-----------------------------------------------------------------------------
(* What a step may do: to a task, to an agent, to the lock.                *)

\* A task has the owner it had, or none, or one with a new token; and only
\* a renewal turns a lapsed lease into a fresh one.
OwnersKept ==
    \A i \in TaskId :
       /\ i \in 1..Len(tasks')
       /\ \/ tasks'[i].token = tasks[i].token /\ tasks'[i].agent = tasks[i].agent
          \/ tasks'[i].token = NoToken
          \/ tasks'[i].token >= nextToken
LeasesLapse ==
    \A i \in TaskId :
       tasks'[i].token = tasks[i].token /\ tasks[i].token # NoToken /\ ~revived'
       /\ LeaseExpired(tasks[i], clock) => LeaseExpired(tasks'[i], clock')

Keeps(a) ==
    /\ agent'[a].task = agent[a].task /\ agent'[a].token = agent[a].token
    /\ agent'[a].lockToken = agent[a].lockToken
    /\ \/ agent'[a].pc = agent[a].pc
       \/ agent[a].pc \in Working /\ agent'[a].pc \in {"lock", "complete"}
Leaves(a) == \E pc \in {"claim", "gone"} : agent'[a] = [Idle EXCEPT !.pc = pc]
Claims(a) ==
    \E i \in TaskId :
       /\ agent'[a] = [Idle EXCEPT !.pc = "work", !.task = i, !.token = nextToken]
       /\ nextToken' = nextToken + 1 /\ tasks'[i].agent = a
Locks(a) ==
    /\ agent[a].pc = "lock" /\ agent'[a].pc = "unlock"
    /\ agent'[a].task = agent[a].task /\ agent'[a].token = agent[a].token
    /\ agent'[a].lockToken = nextToken /\ nextToken' = nextToken + 1
    /\ ~LockValid(clock)
    /\ lock' = [agent |-> a, task |-> agent[a].task, token |-> nextToken]
Moves(a) == Keeps(a) \/ Leaves(a) \/ Claims(a) \/ Locks(a)

Unlocks(a) == lock.token = agent[a].lockToken /\ agent'[a].pc = "complete"

\* A step of the swarm, of which the lemma SwarmSteps says that it is one.
SwarmStep ==
    /\ [Next]_vars /\ WTypes'
    /\ OwnersKept /\ LeasesLapse
    /\ nextToken <= nextToken' /\ (revived => revived')
    /\ \A a \in Agents : Moves(a)
    /\ lock' = lock \/ \E a \in Agents : Locks(a) \/ Unlocks(a)

-----------------------------------------------------------------------------
(* Such steps keep the invariant.                                          *)

\* What an agent knows of its tokens and its task stays true.
LEMMA KnowsStep ==
    ASSUME WInv, SwarmStep, NEW a \in Agents
    PROVE  AgentKnows(a)'
<1> DEFINE r == agent[a]
           s == agent'[a]
<1>1. /\ r \in AgentRecord /\ s \in AgentRecord /\ nextToken \in Nat /\ nextToken' \in Nat
      /\ nextToken # 0 /\ Len(tasks) \in Nat
  BY LenProperties DEF WInv, WTypes, SwarmStep, TypeOK
<1>2. /\ r.token < nextToken /\ r.lockToken < nextToken
      /\ r.pc \in Working => /\ r.task \in TaskId /\ r.token # NoToken
                             /\ tasks[r.task].token = r.token => tasks[r.task].agent = a
      /\ r.pc = "unlock" => r.lockToken # NoToken
      /\ r.pc \notin Working => r.task = NoTask
  BY DEF WInv, AgentKnows
<1>3. nextToken <= nextToken' /\ \A i \in TaskId : i \in 1..Len(tasks')
  BY DEF SwarmStep, OwnersKept
<1>4. ASSUME r.pc \in Working, tasks'[r.task].token = r.token
      PROVE  tasks'[r.task].agent = a
  <2>1. /\ r.task \in TaskId /\ r.token \in Nat /\ r.token # NoToken /\ r.token < nextToken
        /\ tasks[r.task].token = r.token => tasks[r.task].agent = a
    BY <1>1, <1>2, <1>4 DEF AgentRecord
  <2>2. PICK i \in TaskId, k \in Nat : i = r.task /\ k = r.token
    BY <2>1
  <2>3. OwnersKept
    BY DEF SwarmStep
  <2>4. \/ tasks'[i].token = tasks[i].token /\ tasks'[i].agent = tasks[i].agent
        \/ tasks'[i].token = NoToken
        \/ tasks'[i].token >= nextToken
    BY <2>3 DEF OwnersKept
  <2>5. /\ k # NoToken /\ k < nextToken /\ nextToken \in Nat
        /\ tasks[i].token = k => tasks[i].agent = a
    BY <1>1, <2>1, <2>2
  <2>6. tasks'[i].token = k
    BY <1>4, <2>2
  <2>7. tasks'[i].agent = a
    BY <2>4, <2>5, <2>6
  <2> QED
    BY <2>2, <2>7
<1>5. SUFFICES /\ s.token < nextToken' /\ s.lockToken < nextToken'
               /\ s.pc \in Working => /\ s.task \in 1..Len(tasks') /\ s.token # NoToken
                                      /\ tasks'[s.task].token = s.token => tasks'[s.task].agent = a
               /\ s.pc = "unlock" => s.lockToken # NoToken
               /\ s.pc \notin Working => s.task = NoTask
  BY DEF AgentKnows
<1>6. CASE Keeps(a)
  <2>1. /\ s.task = r.task /\ s.token = r.token /\ s.lockToken = r.lockToken
        /\ s.pc = r.pc \/ (r.pc \in Working /\ s.pc \in {"lock", "complete"})
    BY <1>6 DEF Keeps
  <2>2. s.token < nextToken' /\ s.lockToken < nextToken'
    BY <1>1, <1>2, <1>3, <2>1 DEF AgentRecord
  <2>3. s.pc \in Working <=> r.pc \in Working
    BY <2>1 DEF Working
  <2> HIDE DEF r, s
  <2> QED
    BY <1>2, <1>3, <1>4, <2>1, <2>2, <2>3
<1>7. CASE Leaves(a)
  <2>1. /\ s.pc \in {"claim", "gone"} /\ s.task = NoTask /\ s.token = 0 /\ s.lockToken = 0
    BY <1>7 DEF Leaves, Idle
  <2> QED
    BY <1>1, <1>3, <2>1 DEF Working
<1>8. CASE Claims(a)
  <2>1. PICK i \in TaskId : /\ s = [Idle EXCEPT !.pc = "work", !.task = i, !.token = nextToken]
                            /\ nextToken' = nextToken + 1 /\ tasks'[i].agent = a
    BY <1>8 DEF Claims
  <2>2. s.pc = "work" /\ s.task = i /\ s.token = nextToken /\ s.lockToken = 0
    BY <2>1 DEF Idle
  <2> QED
    BY <1>1, <1>3, <2>1, <2>2 DEF Working
<1>9. CASE Locks(a)
  <2>1. /\ r.pc = "lock" /\ s.pc = "unlock" /\ s.task = r.task /\ s.token = r.token
        /\ s.lockToken = nextToken /\ nextToken' = nextToken + 1
    BY <1>9 DEF Locks
  <2>2. r.pc \in Working /\ s.pc \in Working
    BY <2>1 DEF Working
  <2>3. s.token < nextToken' /\ s.lockToken < nextToken'
    BY <1>1, <1>2, <2>1 DEF AgentRecord
  <2> HIDE DEF r, s
  <2> QED
    BY <1>1, <1>2, <1>3, <1>4, <2>1, <2>2, <2>3
<1> QED
  BY <1>6, <1>7, <1>8, <1>9 DEF SwarmStep, Moves

\* No two agents come to hold one lock token.
LEMMA LockTokensStep ==
    ASSUME WInv, SwarmStep
    PROVE  LockTokensDiffer'
<1> SUFFICES ASSUME NEW a \in Agents, NEW b \in Agents, a # b, agent'[a].lockToken # NoToken
             PROVE  agent'[a].lockToken # agent'[b].lockToken
  BY DEF LockTokensDiffer
<1>1. ASSUME NEW c \in Agents
      PROVE  /\ agent[c].lockToken \in Nat /\ agent[c].lockToken < nextToken
             /\ \/ agent'[c].lockToken = agent[c].lockToken \/ agent'[c].lockToken = 0
                \/ agent'[c].lockToken = nextToken /\ lock'.agent = c
  <2>1. agent[c].lockToken \in Nat /\ agent[c].lockToken < nextToken
    BY DEF WInv, WTypes, AgentRecord, AgentKnows
  <2>2. CASE Keeps(c)
    BY <2>1, <2>2 DEF Keeps
  <2>3. CASE Leaves(c)
    BY <2>1, <2>3 DEF Leaves, Idle
  <2>4. CASE Claims(c)
    BY <2>1, <2>4 DEF Claims, Idle
  <2>5. CASE Locks(c)
    BY <2>1, <2>5 DEF Locks
  <2> QED
    BY <2>2, <2>3, <2>4, <2>5 DEF SwarmStep, Moves
<1>2. nextToken \in Nat /\ nextToken # 0
  BY DEF WInv, WTypes, TypeOK
<1>3. agent[a].lockToken # NoToken => agent[a].lockToken # agent[b].lockToken
  BY DEF WInv, LockTokensDiffer
<1>4. agent[b].lockToken # NoToken => agent[a].lockToken # agent[b].lockToken
  BY DEF WInv, LockTokensDiffer
<1> QED
  BY <1>1, <1>2, <1>3, <1>4

\* An agent that goes on merging keeps the lock: nobody has a token to
\* release it with, and nobody is granted it.
LEMMA LockKeptStep ==
    ASSUME WInv, SwarmStep, ~revived', NEW a \in Agents, Merging(a)'
    PROVE  HasLock(a)'
<1> DEFINE r == agent[a]
           s == agent'[a]
<1>1. /\ s.pc = "unlock" /\ tasks'[s.task].token = s.token
      /\ ~LeaseExpired(tasks'[s.task], clock')
  BY DEF Merging
<1>2. CASE Locks(a)
  BY <1>2 DEF Locks, HasLock
<1>3. CASE Keeps(a) /\ r.pc = "unlock"
  <2>1. s.task = r.task /\ s.token = r.token /\ s.lockToken = r.lockToken
    BY <1>3 DEF Keeps
  <2>2. /\ r.task \in TaskId /\ r.token # NoToken /\ r.token < nextToken /\ r.token \in Nat
        /\ r.lockToken # NoToken /\ nextToken \in Nat
        /\ tasks[r.task].token = r.token => tasks[r.task].agent = a
    BY <1>3 DEF WInv, WTypes, TypeOK, AgentKnows, AgentRecord, Working
  <2>3. tasks'[r.task].token = r.token
    BY <1>1, <2>1
  <2>4. tasks[r.task].token = r.token
    BY <2>2, <2>3 DEF SwarmStep, OwnersKept
  <2>5. ~LeaseExpired(tasks[r.task], clock)
    BY <1>1, <2>1, <2>2, <2>3, <2>4 DEF SwarmStep, LeasesLapse
  <2>6. HasLock(a)
    <3>1. ~revived
      BY DEF SwarmStep
    <3>2. Merging(a)
      BY <1>3, <2>4, <2>5 DEF Merging
    <3> QED
      BY <3>1, <3>2 DEF WInv
  <2>7. lock' = lock
    <3>1. ASSUME NEW b \in Agents, Unlocks(b) PROVE FALSE
      <4>1. b # a
        BY <1>1, <3>1 DEF Unlocks
      <4>2. lock.token = agent[b].lockToken /\ lock.token = r.lockToken
        BY <2>6, <3>1 DEF Unlocks, HasLock
      <4> QED
        BY <2>2, <4>1, <4>2 DEF WInv, LockTokensDiffer
    <3>2. ASSUME NEW b \in Agents, Locks(b) PROVE FALSE
      <4>1. lock.task = r.task /\ lock.agent = a /\ lock.token # NoToken
        BY <2>2, <2>6 DEF HasLock
      <4>2. tasks[r.task].status = "in_progress"
        BY <2>2, <2>4 DEF WInv, TokensIdentifyHolders
      <4>3. LockValid(clock)
        BY <2>2, <2>4, <2>5, <4>1, <4>2 DEF LockValid
      <4> QED
        BY <3>2, <4>3 DEF Locks
    <3> QED
      BY <3>1, <3>2 DEF SwarmStep
  <2> QED
    BY <2>1, <2>6, <2>7 DEF HasLock
<1>4. ~Leaves(a) /\ ~Claims(a)
  BY <1>1 DEF Leaves, Claims, Idle
<1>5. Keeps(a) => r.pc = "unlock"
  BY <1>1 DEF Keeps
<1> QED
  BY <1>2, <1>3, <1>4, <1>5 DEF SwarmStep, Moves

\* A step of the swarm keeps the invariant.
LEMMA SwarmStepKeepsInv ==
    ASSUME WInv, SwarmStep
    PROVE  WInv'
<1>1. WTypes' /\ TokensIdentifyHolders'
  BY TokensStep DEF WInv, WTypes, SwarmStep
<1>2. \A a \in Agents : AgentKnows(a)'
  BY KnowsStep
<1>3. ~revived' => \A a \in Agents : Merging(a)' => HasLock(a)'
  BY LockKeptStep
<1> QED
  BY <1>1, <1>2, <1>3, LockTokensStep DEF WInv

-----------------------------------------------------------------------------
(* What the requests of the swarm do to owners and leases.                 *)

\* Time may pass: leases only lapse by it.
LEMMA SameTasks ==
    ASSUME WTypes, tasks' = tasks, clock' \in 0..MaxClock, clock' >= clock
    PROVE  OwnersKept /\ LeasesLapse
<1>1. \A i \in TaskId : tasks[i].hb \in Int
  BY TasksTyped, TaskManagerAssumption DEF WTypes, TaskRecord
<1>2. clock \in Int /\ clock' \in Int /\ LeaseWindow \in Int
  BY TaskManagerAssumption DEF WTypes, TypeOK
<1>3. OwnersKept
  BY DEF OwnersKept
<1>4. LeasesLapse
  BY <1>1, <1>2 DEF LeasesLapse, LeaseExpired
<1> QED
  BY <1>3, <1>4

\* Under the same clock, a task that changes loses its token or gets a new one.
LEMMA NewOwners ==
    ASSUME WInv, clock' = clock, Len(tasks') \in Nat, Len(tasks') >= Len(tasks),
           \A j \in TaskId : \/ tasks'[j] = tasks[j]
                             \/ tasks'[j].token = NoToken
                             \/ tasks'[j].token = nextToken
    PROVE  OwnersKept /\ LeasesLapse
<1>1. Len(tasks) \in Nat /\ nextToken \in Nat /\ \A j \in TaskId : tasks[j].token < nextToken
  BY LenProperties DEF WInv, WTypes, TypeOK, TokensIdentifyHolders
<1>2. OwnersKept
  <2> SUFFICES ASSUME NEW j \in TaskId
               PROVE  /\ j \in 1..Len(tasks')
                      /\ \/ tasks'[j].token = tasks[j].token /\ tasks'[j].agent = tasks[j].agent
                         \/ tasks'[j].token = NoToken
                         \/ tasks'[j].token >= nextToken
    BY DEF OwnersKept
  <2> QED
    BY <1>1
<1>3. LeasesLapse
  <2> SUFFICES ASSUME NEW j \in TaskId, tasks'[j].token = tasks[j].token,
                      tasks[j].token # NoToken, LeaseExpired(tasks[j], clock)
               PROVE  LeaseExpired(tasks'[j], clock')
    BY DEF LeasesLapse
  <2>1. tasks[j].token # nextToken
    BY <1>1
  <2>2. tasks'[j] = tasks[j]
    BY <2>1
  <2> QED
    BY <2>2 DEF LeaseExpired
<1> QED
  BY <1>2, <1>3

\* A claim gives a task a new owner and a new token.
LEMMA ClaimOwners ==
    ASSUME WInv, NEW a \in Agents, NEW i \in TaskId, Claim(a, "any", clock, i)
    PROVE  /\ [Next]_vars /\ OwnersKept /\ LeasesLapse
           /\ Len(tasks') = Len(tasks) /\ tasks'[i].agent = a
<1>1. TypeOK /\ clock \in Stamps
  BY TaskManagerAssumption DEF WInv, WTypes, TypeOK, Stamps
<1>2. /\ Len(tasks') = Len(tasks) /\ \A j \in TaskId \ {i} : tasks'[j] = tasks[j]
      /\ tasks'[i].token = nextToken /\ tasks'[i].agent = a
  BY <1>1, ClaimEffect
<1>3. clock' = clock /\ Len(tasks) \in Nat
  BY <1>1, LenProperties DEF Claim, TypeOK
<1>4. OwnersKept /\ LeasesLapse
  BY <1>2, <1>3, NewOwners
<1>5. Next
  <2>1. "any" \in TaskType \cup {"any"}
    OBVIOUS
  <2> QED
    BY <1>1, <2>1 DEF Next, Undated, Dated
<1> QED
  BY <1>2, <1>4, <1>5

\* A heartbeat changes no owner; that it renewed a lapsed lease is recorded.
LEMMA HeartbeatOwners ==
    ASSUME WInv, NEW i, NEW tok \in SentTokens, Heartbeat(i, tok, clock),
           revived' = (revived \/ LeaseExpired(tasks[i], clock))
    PROVE  [Next]_vars /\ OwnersKept /\ LeasesLapse /\ Len(tasks') = Len(tasks)
<1>1. TypeOK /\ clock \in Stamps /\ Len(tasks) \in Nat
  BY TaskManagerAssumption, LenProperties DEF WInv, WTypes, TypeOK, Stamps
<1>2. i \in TaskId
  BY DEF Heartbeat, OwnerErrc
<1>3. i \in 1..MaxTasks
  BY <1>1, <1>2, TaskManagerAssumption DEF WInv, WTypes
<1>4. /\ Len(tasks') = Len(tasks) /\ \A j \in TaskId \ {i} : tasks'[j] = tasks[j]
      /\ tasks'[i].token = tasks[i].token /\ tasks'[i].agent = tasks[i].agent
  BY <1>1, <1>3, HeartbeatEffect
<1>5. clock' = clock
  BY DEF Heartbeat
<1>6. OwnersKept
  BY <1>1, <1>2, <1>4 DEF OwnersKept
<1>7. LeasesLapse
  BY <1>4, <1>5 DEF LeasesLapse, LeaseExpired
<1>8. Next
  BY <1>1, <1>3 DEF Next, Undated, Dated
<1> QED
  BY <1>4, <1>6, <1>7, <1>8

\* The children that an agent sends are such as clients send.
LEMMA ChildrenListed ==
    ASSUME NEW i PROVE ChildrenOf(i) \in ChildLists
<1> DEFINE child == [type |-> "implement", deps |-> {}]
<1>1. child \in ChildSpec
  <2>1. {} \in SUBSET (1..MaxTasks) /\ Cardinality({}) = 0
    BY FS_EmptySet
  <2>2. {} \in DepSets
    BY <2>1, TaskManagerAssumption DEF DepSets
  <2> QED
    BY <2>2 DEF ChildSpec, TaskType
<1>2. <<child>> \in [1..1 -> ChildSpec] /\ << >> \in [1..0 -> ChildSpec]
  BY <1>1
<1>3. 1 \in 0..MaxChildren /\ 0 \in 0..MaxChildren
  BY TaskManagerAssumption, SwarmAssumption
<1>4. \A n \in 0..MaxChildren : [1..n -> ChildSpec] \subseteq ChildLists
  BY DEF ChildLists
<1>5. ChildrenOf(i) \in {<<child>>, << >>}
  BY DEF ChildrenOf
<1> HIDE DEF child
<1> QED
  BY <1>2, <1>3, <1>4, <1>5

\* The task whose token an agent sends is one that may be named in a request.
LEMMA Requested ==
    ASSUME WInv, NEW a \in Agents
    PROVE  /\ agent[a] \in AgentRecord
           /\ agent[a].token \in SentTokens /\ agent[a].lockToken \in SentTokens
           /\ agent[a].pc \in Working => agent[a].task \in 1..MaxTasks
<1>1. /\ agent[a] \in AgentRecord /\ nextToken \in Nat
      /\ Len(tasks) \in Nat /\ Len(tasks) <= MaxTasks
      /\ agent[a].token < nextToken /\ agent[a].lockToken < nextToken
      /\ agent[a].pc \in Working => agent[a].task \in TaskId
  BY LenProperties DEF WInv, WTypes, TypeOK, AgentKnows
<1>2. agent[a].token \in Nat /\ agent[a].lockToken \in Nat
  BY <1>1 DEF AgentRecord
<1>3. agent[a].pc \in Working => agent[a].task \in 1..MaxTasks
  BY <1>1, TaskManagerAssumption
<1> QED
  BY <1>1, <1>2, <1>3 DEF SentTokens

\* A completion takes its task from the owner and gives no task to anyone.
LEMMA CompleteOwners ==
    ASSUME WInv, NEW i \in 1..MaxTasks, NEW tok \in SentTokens, NEW branch \in BOOLEAN,
           Complete(i, tok, ChildrenOf(i), branch)
    PROVE  [Next]_vars /\ OwnersKept /\ LeasesLapse /\ Len(tasks') <= MaxTasks
<1>1. TypeOK /\ ChildrenOf(i) \in ChildLists
  BY ChildrenListed DEF WInv, WTypes
<1>2. /\ tasks' \in Seq(TaskRecord) /\ Len(tasks') >= Len(tasks)
      /\ \A j \in TaskId \ {i} : tasks'[j] = tasks[j]
      /\ i \in TaskId /\ tasks'[i] = [Released(tasks[i], "done") EXCEPT !.branch = branch]
  BY <1>1, CompleteEffect
<1>3. tasks'[i].token = NoToken
  <2>1. tasks[i] \in TaskRecord
    BY <1>1, <1>2, TasksTyped
  <2> QED
    BY <1>2, <2>1 DEF Released, TaskRecord
<1>4. clock' = clock /\ Len(tasks') \in Nat
  BY <1>2, LenProperties DEF Complete
<1>5. OwnersKept /\ LeasesLapse
  BY <1>2, <1>3, <1>4, NewOwners
<1>6. Next
  BY <1>1 DEF Next, Undated, Dated
<1>7. Len(tasks') <= MaxTasks
  <2> DEFINE old == [tasks EXCEPT ![i] = [Released(@, "done") EXCEPT !.branch = branch]]
             new == Offspring(i, ChildrenOf(i), branch)
  <2>1. tasks' = old \o new /\ Len(tasks) + Len(new) <= MaxTasks
    BY DEF Complete
  <2>2. Len(old) = Len(tasks) /\ old \in Seq(TaskRecord)
    <3>1. tasks \in Seq(TaskRecord) /\ tasks[i] \in TaskRecord
      BY <1>1, <1>2, TasksTyped DEF TypeOK
    <3>2. [Released(tasks[i], "done") EXCEPT !.branch = branch] \in TaskRecord
      BY <3>1 DEF Released, TaskRecord, TaskStatus
    <3> QED
      BY <1>2, <3>1, <3>2, ExceptSeq
  <2>3. new \in Seq(TaskRecord)
    <3>1. ChildrenOf(i) # <<>> => ~(tasks[i].depth + 1 > DepthCap)
      BY DEF Complete, CompleteErrc, OwnerErrc
    <3>2. tasks[i] \in TaskRecord
      BY <1>1, <1>2, TasksTyped
    <3>3. ChildrenOf(i) # <<>> => tasks[i].depth + 1 <= DepthCap
      BY <3>1, <3>2, TaskManagerAssumption DEF TaskRecord
    <3> QED
      BY <1>1, <1>2, <3>3, OffspringType
  <2> HIDE DEF old, new
  <2>4. Len(old \o new) = Len(old) + Len(new)
    BY <2>2, <2>3, ConcatProperties
  <2> QED
    BY <2>1, <2>2, <2>4
<1> QED
  BY <1>5, <1>6, <1>7

\* A failure takes its task from the owner and gives no task to anyone.
LEMMA FailOwners ==
    ASSUME WInv, NEW i \in 1..MaxTasks, NEW tok \in SentTokens, Fail(i, tok)
    PROVE  [Next]_vars /\ OwnersKept /\ LeasesLapse /\ Len(tasks') = Len(tasks)
<1>1. TypeOK
  BY DEF WInv, WTypes
<1>2. /\ i \in TaskId /\ Len(tasks') = Len(tasks)
      /\ \A j \in TaskId \ {i} : tasks'[j] = tasks[j]
      /\ tasks'[i] = Released(tasks[i], "failed")
  BY <1>1, FailEffect
<1>3. tasks'[i].token = NoToken
  <2>1. tasks[i] \in TaskRecord
    BY <1>1, <1>2, TasksTyped
  <2> QED
    BY <1>2, <2>1 DEF Released, TaskRecord
<1>4. clock' = clock /\ Len(tasks) \in Nat
  BY <1>1, LenProperties DEF Fail, TypeOK
<1>5. OwnersKept /\ LeasesLapse
  BY <1>2, <1>3, <1>4, NewOwners
<1>6. Next
  BY DEF Next, Undated, Dated
<1> QED
  BY <1>2, <1>5, <1>6

\* A new task has no owner, and no other task changes hands.
LEMMA CreateOwners ==
    ASSUME WInv, NEW type \in TaskType, NEW deps \in DepSets,
           Create(NoTask, NoToken, type, deps)
    PROVE  [Next]_vars /\ OwnersKept /\ LeasesLapse /\ Len(tasks') <= MaxTasks
<1>1. TypeOK /\ NoTask \in 0..MaxTasks /\ NoToken \in SentTokens
  BY TaskManagerAssumption DEF WInv, WTypes, TypeOK, SentTokens
<1>2. Len(tasks') = Len(tasks) + 1 /\ \A j \in TaskId : tasks'[j] = tasks[j]
  BY <1>1, CreateEffect
<1>3. clock' = clock /\ Len(tasks) \in Nat /\ Len(tasks) < MaxTasks
  BY <1>1, LenProperties DEF Create, TypeOK
<1>4. OwnersKept /\ LeasesLapse
  BY <1>2, <1>3, NewOwners
<1>5. Next
  BY <1>1 DEF Next, Undated, Dated
<1>6. Len(tasks') <= MaxTasks
  BY <1>2, <1>3, TaskManagerAssumption
<1> QED
  BY <1>4, <1>5, <1>6

-----------------------------------------------------------------------------
(* What the agents themselves do.                                          *)

\* An agent that goes on to its next request knows what it knew.
LEMMA GotoMoves ==
    ASSUME WInv, NEW a \in Agents, NEW pc \in {"lock", "complete"},
           agent[a].pc \in Working, Goto(a, pc)
    PROVE  agent' \in [Agents -> AgentRecord] /\ agent'[a].pc = pc /\ \A b \in Agents : Keeps(b)
<1> DEFINE new == [agent[a] EXCEPT !.pc = pc, !.tries = 0]
<1>1. agent \in [Agents -> AgentRecord] /\ agent[a] \in AgentRecord
  BY DEF WInv, WTypes
<1>2. /\ new \in AgentRecord /\ new.pc = pc /\ new.task = agent[a].task
      /\ new.token = agent[a].token /\ new.lockToken = agent[a].lockToken
  BY <1>1 DEF AgentRecord, Working
<1>3. agent' = [agent EXCEPT ![a] = new]
  BY <1>1 DEF Goto
<1> HIDE DEF new
<1>4. agent' \in [Agents -> AgentRecord] /\ agent'[a] = new
      /\ \A b \in Agents \ {a} : agent'[b] = agent[b]
  BY <1>1, <1>2, <1>3
<1>5. Keeps(a)
  BY <1>2, <1>4 DEF Keeps
<1>6. \A b \in Agents \ {a} : Keeps(b)
  BY <1>4 DEF Keeps
<1> QED
  BY <1>2, <1>4, <1>5, <1>6

\* An agent that tries again knows what it knew.
LEMMA TriesMoves ==
    ASSUME WInv, NEW a \in Agents, agent' = [agent EXCEPT ![a].tries = @ + 1]
    PROVE  agent' \in [Agents -> AgentRecord] /\ \A b \in Agents : Keeps(b)
<1> DEFINE new == [agent[a] EXCEPT !.tries = @ + 1]
<1>1. agent \in [Agents -> AgentRecord] /\ agent[a] \in AgentRecord
  BY DEF WInv, WTypes
<1>2. /\ new \in AgentRecord /\ new.pc = agent[a].pc /\ new.task = agent[a].task
      /\ new.token = agent[a].token /\ new.lockToken = agent[a].lockToken
  BY <1>1 DEF AgentRecord, Working
<1>3. agent' = [agent EXCEPT ![a] = new]
  BY <1>1
<1> HIDE DEF new
<1>4. agent' \in [Agents -> AgentRecord] /\ agent'[a] = new
      /\ \A b \in Agents \ {a} : agent'[b] = agent[b]
  BY <1>1, <1>2, <1>3
<1> QED
  BY <1>2, <1>4 DEF Keeps

\* An agent that goes back to claiming, or is gone, forgets its task.
LEMMA ForgetMoves ==
    ASSUME WInv, NEW a \in Agents, NEW pc \in {"claim", "gone"}, Forget(a, pc)
    PROVE  agent' \in [Agents -> AgentRecord] /\ \A b \in Agents : Keeps(b) \/ Leaves(b)
<1> DEFINE new == [Idle EXCEPT !.pc = pc]
<1>1. agent \in [Agents -> AgentRecord]
  BY DEF WInv, WTypes
<1>2. new \in AgentRecord
  BY DEF Idle, AgentRecord, Working
<1>3. agent' = [agent EXCEPT ![a] = new]
  BY DEF Forget
<1> HIDE DEF new
<1>4. agent' \in [Agents -> AgentRecord] /\ agent'[a] = new
      /\ \A b \in Agents \ {a} : agent'[b] = agent[b]
  BY <1>1, <1>2, <1>3
<1>5. Leaves(a)
  BY <1>4 DEF Leaves, new
<1>6. \A b \in Agents \ {a} : Keeps(b)
  BY <1>4 DEF Keeps
<1> QED
  BY <1>4, <1>5, <1>6

\* A step that moves no agent.
LEMMA SameAgents ==
    ASSUME WInv, agent' = agent
    PROVE  agent' \in [Agents -> AgentRecord] /\ \A b \in Agents : Keeps(b)
BY DEF WInv, WTypes, Keeps

\* A step that asks nothing of the task manager.
LEMMA QuietStep ==
    ASSUME WInv, UNCHANGED vars, agent' \in [Agents -> AgentRecord],
           \A b \in Agents : Keeps(b) \/ Leaves(b),
           roots' = roots, revived' = revived
    PROVE  SwarmStep
<1>1. tasks' = tasks /\ clock' \in 0..MaxClock /\ clock' >= clock
      /\ nextToken' = nextToken /\ lock' = lock /\ nextToken \in Nat
  BY TaskManagerAssumption DEF vars, WInv, WTypes, TypeOK
<1>2. OwnersKept /\ LeasesLapse
  BY <1>1, SameTasks DEF WInv
<1>3. WTypes'
  BY TypeStep DEF WInv, WTypes, vars
<1>4. nextToken <= nextToken' /\ (revived => revived')
  BY <1>1
<1> QED
  BY <1>1, <1>2, <1>3, <1>4 DEF SwarmStep, Moves

\* A step that asks something of it.
LEMMA RequestStep ==
    ASSUME WInv, [Next]_vars, OwnersKept, LeasesLapse, Len(tasks') <= MaxTasks,
           agent' \in [Agents -> AgentRecord], \A b \in Agents : Moves(b),
           roots' \in Seq(ChildSpec), revived' \in BOOLEAN, revived => revived',
           nextToken' \in {nextToken, nextToken + 1},
           lock' = lock \/ \E b \in Agents : Locks(b) \/ Unlocks(b)
    PROVE  SwarmStep
<1>1. WTypes'
  BY TypeStep DEF WInv, WTypes
<1>2. nextToken <= nextToken'
  BY DEF WInv, WTypes, TypeOK
<1> QED
  BY <1>1, <1>2 DEF SwarmStep

-----------------------------------------------------------------------------
(* The steps of the swarm, one by one.                                     *)

\* An agent that claims a task makes such a step.
LEMMA ClaimTaskStep ==
    ASSUME WInv, NEW a \in Agents, ClaimTask(a) PROVE SwarmStep
<1>1. PICK i \in TaskId :
         /\ Claim(a, "any", clock, i)
         /\ agent' = [agent EXCEPT ![a] = [Idle EXCEPT !.pc = "work", !.task = i,
                                                       !.token = nextToken]]
  BY DEF ClaimTask
<1> DEFINE new == [Idle EXCEPT !.pc = "work", !.task = i, !.token = nextToken]
<1>2. /\ [Next]_vars /\ OwnersKept /\ LeasesLapse
      /\ Len(tasks') = Len(tasks) /\ tasks'[i].agent = a
  BY <1>1, ClaimOwners
<1>3. nextToken' = nextToken + 1 /\ lock' = lock
  BY <1>1 DEF Claim
<1>4. new \in AgentRecord
  <2>1. nextToken \in Nat /\ i \in Nat
    BY DEF WInv, WTypes, TypeOK
  <2> QED
    BY <2>1 DEF Idle, AgentRecord, Working
<1>5. agent' = [agent EXCEPT ![a] = new] /\ agent \in [Agents -> AgentRecord]
  BY <1>1 DEF WInv, WTypes
<1> HIDE DEF new
<1>6. agent' \in [Agents -> AgentRecord] /\ agent'[a] = new
      /\ \A b \in Agents \ {a} : agent'[b] = agent[b]
  BY <1>4, <1>5
<1>7. Moves(a)
  BY <1>2, <1>3, <1>6 DEF Moves, Claims, new
<1>8. \A b \in Agents : Moves(b)
  BY <1>6, <1>7 DEF Moves, Keeps
<1>9. roots' = roots /\ revived' = revived
  BY DEF ClaimTask
<1>10. WTypes
  BY DEF WInv
<1> QED
  BY <1>2, <1>3, <1>6, <1>8, <1>9, <1>10, RequestStep DEF WTypes

\* An agent that works makes such a step.
LEMMA WorkStep ==
    ASSUME WInv, NEW a \in Agents, Work(a) PROVE SwarmStep
<1>1. PICK pc \in {"lock", "complete"} : Goto(a, pc)
  BY DEF Work
<1>2. agent[a].pc \in Working
  BY DEF Work, Working
<1>3. agent' \in [Agents -> AgentRecord] /\ \A b \in Agents : Keeps(b)
  BY <1>1, <1>2, GotoMoves
<1>4. UNCHANGED vars /\ roots' = roots /\ revived' = revived
  BY DEF Work, vars
<1> QED
  BY <1>3, <1>4, QuietStep

\* An agent that takes the main lock makes such a step.
LEMMA LockMainStep ==
    ASSUME WInv, NEW a \in Agents, LockMain(a) PROVE SwarmStep
<1> DEFINE s == agent[a]
<1>1. s.pc = "lock" /\ s.pc \in Working /\ roots' = roots /\ revived' = revived
  BY DEF LockMain, Working
<1>2. CASE /\ MainLockAcquire(a, s.task, s.token, clock)
           /\ agent' = [agent EXCEPT ![a].pc = "unlock", ![a].lockToken = nextToken,
                                     ![a].tries = 0]
  <2> DEFINE new == [s EXCEPT !.pc = "unlock", !.lockToken = nextToken, !.tries = 0]
  <2>1. /\ s \in AgentRecord /\ s.token \in SentTokens /\ s.task \in 1..MaxTasks
        /\ clock \in Stamps /\ agent \in [Agents -> AgentRecord] /\ nextToken \in Nat
    BY <1>1, Requested, TaskManagerAssumption DEF WInv, WTypes, TypeOK, Stamps
  <2>2. [Next]_vars
    BY <1>2, <2>1 DEF Next, Undated, Dated
  <2>3. /\ tasks' = tasks /\ nextToken' = nextToken + 1 /\ clock' = clock
        /\ lock' = [agent |-> a, task |-> s.task, token |-> nextToken]
        /\ ~LockValid(clock)
    BY <1>2 DEF MainLockAcquire, AcquireErrc
  <2>4. OwnersKept /\ LeasesLapse /\ Len(tasks') <= MaxTasks
    BY <2>3, SameTasks DEF WInv, WTypes, TypeOK
  <2>5. /\ new \in AgentRecord /\ new.pc = "unlock" /\ new.task = s.task
        /\ new.token = s.token /\ new.lockToken = nextToken
    BY <2>1 DEF AgentRecord, Working
  <2>6. agent' = [agent EXCEPT ![a] = new]
    BY <1>2, <2>1
  <2> HIDE DEF new
  <2>7. agent' \in [Agents -> AgentRecord] /\ agent'[a] = new
        /\ \A b \in Agents \ {a} : agent'[b] = agent[b]
    BY <2>1, <2>5, <2>6
  <2>8. Locks(a)
    BY <1>1, <2>3, <2>5, <2>7 DEF Locks
  <2>9. \A b \in Agents : Moves(b)
    BY <2>7, <2>8 DEF Moves, Keeps
  <2>10. roots \in Seq(ChildSpec) /\ revived \in BOOLEAN
    BY DEF WInv, WTypes
  <2> QED
    BY <1>1, <2>2, <2>3, <2>4, <2>7, <2>8, <2>9, <2>10, RequestStep
<1>3. CASE Goto(a, "complete") /\ UNCHANGED <<tasks, lock, nextToken, haltedBy, clock>>
  <2>1. agent' \in [Agents -> AgentRecord] /\ \A b \in Agents : Keeps(b)
    BY <1>1, <1>3, GotoMoves
  <2> QED
    BY <1>1, <1>3, <2>1, QuietStep DEF vars
<1> QED
  BY <1>2, <1>3 DEF LockMain

\* An agent that gives the main lock back makes such a step.
LEMMA UnlockMainStep ==
    ASSUME WInv, NEW a \in Agents, UnlockMain(a) PROVE SwarmStep
<1>1. /\ agent[a].pc = "unlock" /\ agent[a].pc \in Working /\ Goto(a, "complete")
      /\ roots' = roots /\ revived' = revived
  BY DEF UnlockMain, Working
<1>2. /\ agent' \in [Agents -> AgentRecord] /\ agent'[a].pc = "complete"
      /\ \A b \in Agents : Keeps(b)
  BY <1>1, GotoMoves
<1>3. CASE MainLockRelease(agent[a].lockToken)
  <2>1. [Next]_vars
    BY <1>3, Requested DEF Next, Undated, Dated
  <2>2. /\ tasks' = tasks /\ nextToken' = nextToken /\ clock' = clock
        /\ lock.token = agent[a].lockToken
    BY <1>3 DEF MainLockRelease
  <2>3. OwnersKept /\ LeasesLapse /\ Len(tasks') <= MaxTasks
    BY <2>2, SameTasks DEF WInv, WTypes, TypeOK
  <2>4. Unlocks(a)
    BY <1>2, <2>2 DEF Unlocks
  <2>5. roots \in Seq(ChildSpec) /\ revived \in BOOLEAN
    BY DEF WInv, WTypes
  <2>6. \A b \in Agents : Moves(b)
    BY <1>2 DEF Moves
  <2> QED
    BY <1>1, <1>2, <2>1, <2>2, <2>3, <2>4, <2>5, <2>6, RequestStep
<1>4. CASE UNCHANGED <<tasks, lock, nextToken, haltedBy, clock>>
  BY <1>1, <1>2, <1>4, QuietStep DEF vars
<1> QED
  BY <1>3, <1>4 DEF UnlockMain

\* An agent that completes or fails its task, or is refused, makes such a step.
LEMMA CompleteTaskStep ==
    ASSUME WInv, NEW a \in Agents, CompleteTask(a) PROVE SwarmStep
<1> DEFINE s == agent[a]
<1>1. /\ s.pc = "complete" /\ s.pc \in Working /\ Forget(a, "claim")
      /\ roots' = roots /\ revived' = revived
  BY DEF CompleteTask, Working
<1>2. s.token \in SentTokens /\ s.task \in 1..MaxTasks
  BY <1>1, Requested
<1>3. agent' \in [Agents -> AgentRecord] /\ \A b \in Agents : Keeps(b) \/ Leaves(b)
  BY <1>1, ForgetMoves
<1>4. \A b \in Agents : Moves(b)
  BY <1>3 DEF Moves
<1>5. roots \in Seq(ChildSpec) /\ revived \in BOOLEAN /\ Len(tasks) <= MaxTasks
  BY DEF WInv, WTypes
<1>6. CASE Complete(s.task, s.token, ChildrenOf(s.task), tasks[s.task].type = "implement")
  <2>1. PICK branch \in BOOLEAN : branch = (tasks[s.task].type = "implement")
    OBVIOUS
  <2>2. [Next]_vars /\ OwnersKept /\ LeasesLapse /\ Len(tasks') <= MaxTasks
    BY <1>2, <1>6, <2>1, CompleteOwners
  <2>3. nextToken' = nextToken /\ lock' = lock
    BY <1>6 DEF Complete
  <2> QED
    BY <1>1, <1>3, <1>4, <1>5, <2>2, <2>3, RequestStep
<1>7. CASE Fail(s.task, s.token)
  <2>1. [Next]_vars /\ OwnersKept /\ LeasesLapse /\ Len(tasks') <= MaxTasks
    BY <1>2, <1>5, <1>7, FailOwners
  <2>2. nextToken' = nextToken /\ lock' = lock
    BY <1>7 DEF Fail
  <2> QED
    BY <1>1, <1>3, <1>4, <1>5, <2>1, <2>2, RequestStep
<1>8. CASE UNCHANGED <<tasks, lock, nextToken, haltedBy, clock>>
  BY <1>1, <1>3, <1>8, QuietStep DEF vars
<1> QED
  BY <1>6, <1>7, <1>8 DEF CompleteTask

\* An agent that is told busy makes such a step.
LEMMA BusyStep ==
    ASSUME WInv, NEW a \in Agents, NEW notLeader, Busy(a, notLeader) PROVE SwarmStep
<1>1. UNCHANGED vars /\ roots' = roots /\ revived' = revived
  BY DEF Busy, vars
<1>2. CASE agent' = [agent EXCEPT ![a].tries = @ + 1]
  BY <1>1, <1>2, TriesMoves, QuietStep
<1>3. CASE Forget(a, "gone") \/ Forget(a, "claim")
  <2>1. agent' \in [Agents -> AgentRecord] /\ \A b \in Agents : Keeps(b) \/ Leaves(b)
    BY <1>3, ForgetMoves
  <2> QED
    BY <1>1, <2>1, QuietStep
<1>4. CASE agent[a].pc \in {"unlock", "lock"} /\ Goto(a, "complete")
  <2>1. agent[a].pc \in Working
    BY <1>4 DEF Working
  <2>2. agent' \in [Agents -> AgentRecord] /\ \A b \in Agents : Keeps(b)
    BY <1>4, <2>1, GotoMoves
  <2> QED
    BY <1>1, <2>2, QuietStep
<1> QED
  BY <1>2, <1>3, <1>4 DEF Busy, AfterBusy

\* An agent that heartbeats makes such a step.
LEMMA HeartbeatTaskStep ==
    ASSUME WInv, NEW a \in Agents, HeartbeatTask(a) PROVE SwarmStep
<1> DEFINE s == agent[a]
<1>1. /\ Heartbeat(s.task, s.token, clock) /\ agent' = agent /\ roots' = roots
      /\ revived' = (revived \/ LeaseExpired(tasks[s.task], clock))
  BY DEF HeartbeatTask
<1>2. PICK i : i = s.task
  OBVIOUS
<1>3. PICK tok \in SentTokens : tok = s.token
  BY Requested
<1>4. LeaseExpired(tasks[i], clock) \in BOOLEAN
  BY DEF LeaseExpired
<1>5. [Next]_vars /\ OwnersKept /\ LeasesLapse /\ Len(tasks') = Len(tasks)
  BY <1>1, <1>2, <1>3, HeartbeatOwners
<1>6. nextToken' = nextToken /\ lock' = lock
  BY <1>1 DEF Heartbeat
<1>7. revived' \in BOOLEAN /\ (revived => revived')
  BY <1>1, <1>2, <1>4 DEF WInv, WTypes
<1>8. agent' \in [Agents -> AgentRecord] /\ \A b \in Agents : Moves(b)
  BY <1>1, SameAgents DEF Moves
<1>9. roots \in Seq(ChildSpec) /\ Len(tasks) <= MaxTasks
  BY DEF WInv, WTypes
<1> QED
  BY <1>1, <1>5, <1>6, <1>7, <1>8, <1>9, RequestStep

\* A claim whose answer is lost is such a step.
LEMMA ClaimAnswerLostStep ==
    ASSUME WInv, NEW a \in Agents, ClaimAnswerLost(a) PROVE SwarmStep
<1>1. PICK i \in TaskId : Claim(a, "any", clock, i)
  BY DEF ClaimAnswerLost
<1>2. [Next]_vars /\ OwnersKept /\ LeasesLapse /\ Len(tasks') = Len(tasks)
  BY <1>1, ClaimOwners
<1>3. nextToken' = nextToken + 1 /\ lock' = lock
  BY <1>1 DEF Claim
<1>4. agent' = agent /\ roots' = roots /\ revived' = revived
  BY DEF ClaimAnswerLost
<1>5. agent' \in [Agents -> AgentRecord] /\ \A b \in Agents : Moves(b)
  BY <1>4, SameAgents DEF Moves
<1>6. roots \in Seq(ChildSpec) /\ revived \in BOOLEAN /\ Len(tasks) <= MaxTasks
  BY DEF WInv, WTypes
<1> QED
  BY <1>2, <1>3, <1>4, <1>5, <1>6, RequestStep

\* The death of an agent is such a step.
LEMMA DieStep ==
    ASSUME WInv, NEW a \in Agents, Die(a) PROVE SwarmStep
<1>1. UNCHANGED vars /\ roots' = roots /\ revived' = revived /\ Forget(a, "gone")
  BY DEF Die, vars
<1>2. agent' \in [Agents -> AgentRecord] /\ \A b \in Agents : Keeps(b) \/ Leaves(b)
  BY <1>1, ForgetMoves
<1> QED
  BY <1>1, <1>2, QuietStep

\* The creation of a task by a person is such a step.
LEMMA HumanCreateStep ==
    ASSUME WInv, HumanCreate PROVE SwarmStep
<1>1. roots \in Seq(ChildSpec) /\ roots # <<>>
  BY DEF HumanCreate, WInv, WTypes
<1>2. PICK type \in TaskType, deps \in DepSets :
         type = Head(roots).type /\ deps = Head(roots).deps
  <2>1. Head(roots) \in ChildSpec
    BY <1>1
  <2> QED
    BY <2>1 DEF ChildSpec
<1>3. Create(NoTask, NoToken, type, deps)
  BY <1>2 DEF HumanCreate
<1>4. [Next]_vars /\ OwnersKept /\ LeasesLapse /\ Len(tasks') <= MaxTasks
  BY <1>3, CreateOwners
<1>5. nextToken' = nextToken /\ lock' = lock
  BY <1>3 DEF Create
<1>6. roots' \in Seq(ChildSpec) /\ agent' = agent /\ revived' = revived
  BY <1>1 DEF HumanCreate
<1>7. agent' \in [Agents -> AgentRecord] /\ \A b \in Agents : Moves(b)
  BY <1>6, SameAgents DEF Moves
<1>8. revived \in BOOLEAN
  BY DEF WInv, WTypes
<1> QED
  BY <1>4, <1>5, <1>6, <1>7, <1>8, RequestStep

\* Resuming and the passing of time leave tasks and agents as they are.
LEMMA OutsideStep ==
    ASSUME WInv, HumanResume \/ TimePasses PROVE SwarmStep
<1>1. /\ Next /\ tasks' = tasks /\ lock' = lock /\ nextToken' = nextToken
      /\ agent' = agent /\ roots' = roots /\ revived' = revived
  BY DEF HumanResume, TimePasses, SwarmResume, Tick, Next, Undated, Dated
<1>2. clock' \in 0..MaxClock /\ clock' >= clock
  BY TaskManagerAssumption DEF HumanResume, TimePasses, SwarmResume, Tick, WInv, WTypes, TypeOK
<1>3. OwnersKept /\ LeasesLapse
  BY <1>1, <1>2, SameTasks DEF WInv
<1>4. agent' \in [Agents -> AgentRecord] /\ \A b \in Agents : Moves(b)
  BY <1>1, SameAgents DEF Moves
<1>5. roots \in Seq(ChildSpec) /\ revived \in BOOLEAN /\ Len(tasks) <= MaxTasks
  BY DEF WInv, WTypes
<1> QED
  BY <1>1, <1>3, <1>4, <1>5, RequestStep

\* Every action of the swarm is such a step.
LEMMA SwarmSteps == WInv /\ [WNext]_wvars => SwarmStep
<1> SUFFICES ASSUME WInv, [WNext]_wvars PROVE SwarmStep
  OBVIOUS
<1>1. ASSUME NEW a \in Agents, AgentStep(a) PROVE SwarmStep
  BY <1>1, ClaimTaskStep, WorkStep, LockMainStep, UnlockMainStep, CompleteTaskStep, BusyStep
     DEF AgentStep, NotLeader, LockBusy
<1>2. ASSUME NEW a \in Agents, HeartbeatTask(a) \/ ClaimAnswerLost(a) \/ Die(a) PROVE SwarmStep
  BY <1>2, HeartbeatTaskStep, ClaimAnswerLostStep, DieStep
<1>3. ASSUME LoseLeader \/ ElectLeader \/ UNCHANGED wvars PROVE SwarmStep
  <2>1. UNCHANGED vars /\ agent' = agent /\ roots' = roots /\ revived' = revived
    BY <1>3 DEF LoseLeader, ElectLeader, wvars, vars
  <2>2. agent' \in [Agents -> AgentRecord] /\ \A b \in Agents : Keeps(b)
    BY <2>1, SameAgents
  <2> QED
    BY <2>1, <2>2, QuietStep
<1>4. HumanCreate \/ HumanResume \/ TimePasses => SwarmStep
  BY HumanCreateStep, OutsideStep
<1> QED
  BY <1>1, <1>2, <1>3, <1>4 DEF WNext

-----------------------------------------------------------------------------
\* At the start no agent has a task.
LEMMA InitSwarm == WInit => WInv
<1> SUFFICES ASSUME WInit PROVE WInv
  OBVIOUS
<1>1. TypeOK /\ TokensIdentifyHolders
  BY InitTokens DEF WInit
<1>2. /\ tasks = <<>> /\ nextToken = 1 /\ agent = [a \in Agents |-> Idle]
      /\ revived = FALSE /\ roots \in Seq(ChildSpec)
  BY SwarmAssumption DEF WInit, Init
<1>3. /\ Idle \in AgentRecord /\ Idle.pc = "claim" /\ Idle.task = NoTask
      /\ Idle.token = NoToken /\ Idle.lockToken = NoToken
  BY DEF Idle, AgentRecord, Working
<1> HIDE DEF Idle
<1>4. agent \in [Agents -> AgentRecord] /\ \A a \in Agents : agent[a] = Idle
  BY <1>2, <1>3
<1>5. Len(tasks) <= MaxTasks
  BY <1>2, TaskManagerAssumption
<1>6. WTypes
  BY <1>1, <1>2, <1>4, <1>5 DEF WTypes
<1>7. \A a \in Agents : AgentKnows(a)
  BY <1>2, <1>3, <1>4 DEF AgentKnows, Working
<1>8. LockTokensDiffer /\ \A a \in Agents : ~Merging(a)
  BY <1>3, <1>4 DEF LockTokensDiffer, Merging
<1> QED
  BY <1>1, <1>6, <1>7, <1>8 DEF WInv

\* The lock names one agent.
LEMMA OneMerges == WInv => MergesSerialize
<1> SUFFICES ASSUME WInv, NEW a \in Agents, NEW b \in Agents,
                    a # b, Merging(a), Merging(b), ~revived
             PROVE  FALSE
  BY DEF MergesSerialize
<1>1. HasLock(a) /\ HasLock(b)
  BY DEF WInv
<1>2. lock.agent = a /\ lock.agent = b
  BY <1>1 DEF HasLock
<1> QED
  BY <1>2

\* Merges take turns: as long as nobody renews a lapsed lease, no two agents
\* are between acquire and release of the main lock with fresh leases.
THEOREM MergesTakeTurns == WSpec => []MergesSerialize
<1>1. WInv /\ [WNext]_wvars => WInv'
  BY SwarmSteps, SwarmStepKeepsInv
<1> QED
  BY InitSwarm, <1>1, OneMerges, PTL DEF WSpec

\* The swarm only does to the task manager what clients may: whatever is proved
\* of the task manager under arbitrary requests holds in the swarm, also while
\* its agents die, stall, retry and come back with old tokens.
THEOREM SwarmRunsTaskManager == WSpec => Spec
<1>1. WInit => Init
  BY DEF WInit
<1>2. WInv /\ [WNext]_wvars => WInv'
  BY SwarmSteps, SwarmStepKeepsInv
<1>3. WInv /\ [WNext]_wvars => [Next]_vars
  BY SwarmSteps DEF SwarmStep
<1> QED
  BY InitSwarm, <1>1, <1>2, <1>3, PTL DEF WSpec, Spec
=============================================================================
