------------------------ MODULE TaskManager_proofs -------------------------
(* Theorems about the task manager, for every value of its constants.      *)
EXTENDS TaskManager, SequenceTheorems, FiniteSetTheorems, TLAPS

\* The inputs of Next, once for all the proofs that go through its actions.
USE DEF NoTask, NoToken, TaskId

-----------------------------------------------------------------------------
(* What the handlers build.                                                *)

\* A task in the list has a task's type.
LEMMA TasksTyped ==
    ASSUME TypeOK, NEW i \in TaskId
    PROVE  tasks[i] \in TaskRecord /\ tasks[i].token \in Nat
<1>1. tasks[i] \in TaskRecord
  BY ElementOfSeq DEF TypeOK
<1> QED
  BY <1>1 DEF TaskRecord

\* A new task is one, if it is not deeper than the cap.
LEMMA NewTaskType ==
    ASSUME NEW type \in TaskType, NEW deps \in SUBSET Nat, NEW parent \in Nat,
           NEW depth \in 0..DepthCap
    PROVE  NewTask(type, deps, parent, depth) \in TaskRecord
BY TaskManagerAssumption DEF NewTask, TaskRecord, TaskStatus

\* A function on the first n numbers is a sequence.
LEMMA FunctionIsSeq ==
    ASSUME NEW S, NEW n \in Nat, NEW f \in [1..n -> S]
    PROVE  f \in Seq(S)
BY SeqDef

\* Dependencies are ids, known or not.
LEMMA DepSetsAreNats == DepSets \subseteq SUBSET Nat
BY TaskManagerAssumption DEF DepSets

\* The new_children that clients send are sequences of types and dependencies.
LEMMA ChildListsType ==
    ASSUME NEW children \in ChildLists
    PROVE  children \in Seq([type : TaskType, deps : SUBSET Nat])
<1>1. PICK n \in 0..MaxChildren : children \in [1..n -> ChildSpec]
  BY DEF ChildLists
<1>2. ChildSpec \subseteq [type : TaskType, deps : SUBSET Nat]
  BY DepSetsAreNats DEF ChildSpec
<1>3. n \in Nat /\ children \in [1..n -> [type : TaskType, deps : SUBSET Nat]]
  BY <1>1, <1>2, TaskManagerAssumption
<1> QED
  BY <1>3, FunctionIsSeq

\* A completion appends well-typed tasks that nobody owns yet.
LEMMA OffspringType ==
    ASSUME TypeOK, NEW i \in TaskId, NEW children \in ChildLists, NEW branch \in BOOLEAN,
           children # <<>> => tasks[i].depth + 1 <= DepthCap
    PROVE  /\ Offspring(i, children, branch) \in Seq(TaskRecord)
           /\ \A k \in 1..Len(Offspring(i, children, branch)) :
                 /\ Offspring(i, children, branch)[k].token = NoToken
                 /\ Offspring(i, children, branch)[k].status = "pending"
                 /\ Offspring(i, children, branch)[k].agent = NoAgent
<1> DEFINE kids == [k \in 1..Len(children) |->
                      NewTask(children[k].type, children[k].deps, i, tasks[i].depth + 1)]
           merge == IF tasks[i].type = "implement" /\ branch
                    THEN <<NewTask("merge", {i}, i, tasks[i].depth)>>
                    ELSE <<>>
<1>1. children \in Seq([type : TaskType, deps : SUBSET Nat])
  BY ChildListsType
<1>2. tasks[i] \in TaskRecord
  BY DEF TypeOK
<1>3. tasks[i].depth \in 0..DepthCap
  BY <1>2 DEF TaskRecord
<1>4. \A k \in 1..Len(children) : kids[k] \in TaskRecord
  <2> TAKE k \in 1..Len(children)
  <2>1. children[k] \in [type : TaskType, deps : SUBSET Nat]
    BY <1>1, ElementOfSeq
  <2>2. tasks[i].depth + 1 \in 0..DepthCap
    BY <1>1, <1>3, TaskManagerAssumption
  <2> QED
    BY <2>1, <2>2, NewTaskType
<1>5. kids \in Seq(TaskRecord)
  BY <1>1, <1>4
<1>6. NewTask("merge", {i}, i, tasks[i].depth) \in TaskRecord
  <2>1. "merge" \in TaskType /\ {i} \in SUBSET Nat /\ i \in Nat
    BY DEF TaskType, TypeOK
  <2> QED
    BY <2>1, <1>3, NewTaskType
<1>7. merge \in Seq(TaskRecord)
  BY <1>6
<1>8. Offspring(i, children, branch) = kids \o merge
  BY DEF Offspring
<1>9. \A k \in 1..Len(kids) :
         kids[k].token = NoToken /\ kids[k].status = "pending" /\ kids[k].agent = NoAgent
  BY <1>1 DEF NewTask
<1>10. \A k \in 1..Len(merge) :
          merge[k].token = NoToken /\ merge[k].status = "pending" /\ merge[k].agent = NoAgent
  BY DEF NewTask
<1> HIDE DEF kids, merge
<1> QED
  BY <1>5, <1>7, <1>8, <1>9, <1>10

-----------------------------------------------------------------------------
(* What each action does to the list of tasks: the tasks it leaves alone,  *)
(* the one it changes, and the ones it appends.                            *)

\* task_create appends one pending task that nobody owns.
LEMMA CreateEffect ==
    ASSUME TypeOK, NEW creator \in 0..MaxTasks, NEW tok \in SentTokens,
           NEW type \in TaskType, NEW deps \in DepSets,
           Create(creator, tok, type, deps)
    PROVE  /\ tasks' \in Seq(TaskRecord)
           /\ Len(tasks') = Len(tasks) + 1
           /\ \A j \in TaskId : tasks'[j] = tasks[j]
           /\ tasks'[Len(tasks) + 1].token = NoToken
           /\ tasks'[Len(tasks) + 1].status = "pending"
           /\ tasks'[Len(tasks) + 1].agent = NoAgent
<1> DEFINE depth == IF creator = NoTask THEN 0 ELSE tasks[creator].depth + 1
           new == NewTask(type, deps, creator, depth)
<1>1. tasks \in Seq(TaskRecord)
  BY DEF TypeOK
<1>2. depth \in 0..DepthCap
  <2>1. CASE creator = NoTask
    BY <2>1, TaskManagerAssumption
  <2>2. CASE creator # NoTask
    <3>1. creator \in TaskId /\ ~(tasks[creator].depth + 1 > DepthCap)
      BY <2>2 DEF Create, CreateErrc
    <3>2. tasks[creator] \in TaskRecord
      BY <1>1, <3>1, ElementOfSeq
    <3>3. tasks[creator].depth \in 0..DepthCap
      BY <3>2 DEF TaskRecord
    <3> QED
      BY <2>2, <3>1, <3>3, TaskManagerAssumption
  <2> QED
    BY <2>1, <2>2
<1>3. new \in TaskRecord
  <2>1. deps \in SUBSET Nat /\ creator \in Nat
    BY DepSetsAreNats, TaskManagerAssumption
  <2> QED
    BY <2>1, <1>2, NewTaskType
<1>4. tasks' = Append(tasks, new)
  BY DEF Create
<1>5. new.token = NoToken /\ new.status = "pending" /\ new.agent = NoAgent
  BY DEF NewTask
<1> HIDE DEF new
<1> QED
  BY <1>1, <1>3, <1>4, <1>5

\* task_claim gives one task to the agent, under a new token.
LEMMA ClaimEffect ==
    ASSUME TypeOK, NEW agent \in Agents, NEW prefer,
           NEW now \in Stamps, NEW i \in TaskId, Claim(agent, prefer, now, i)
    PROVE  /\ tasks' \in Seq(TaskRecord)
           /\ Len(tasks') = Len(tasks)
           /\ \A j \in TaskId \ {i} : tasks'[j] = tasks[j]
           /\ tasks'[i].status = "in_progress" /\ tasks'[i].token = nextToken
           /\ tasks'[i].agent = agent
           /\ tasks'[i].type = tasks[i].type /\ tasks'[i].deps = tasks[i].deps
           /\ tasks'[i].parent = tasks[i].parent /\ tasks'[i].depth = tasks[i].depth
           /\ tasks'[i].branch = tasks[i].branch
<1> DEFINE t == [tasks[i] EXCEPT !.status = "in_progress", !.agent = agent,
                                 !.token = nextToken, !.hb = now]
<1>1. tasks \in Seq(TaskRecord) /\ tasks[i] \in TaskRecord
  BY ElementOfSeq DEF TypeOK
<1>2. nextToken \in Nat /\ now \in 0..MaxClock
  BY DEF TypeOK, Stamps
<1>3. t \in TaskRecord
  BY <1>1, <1>2 DEF TaskRecord, TaskStatus
<1>4. tasks' = [tasks EXCEPT ![i] = t]
  BY DEF Claim
<1> HIDE DEF t
<1>5. /\ tasks' \in Seq(TaskRecord)
      /\ Len(tasks') = Len(tasks)
      /\ \A j \in TaskId \ {i} : tasks'[j] = tasks[j]
      /\ tasks'[i] = t
  BY <1>1, <1>2, <1>3, <1>4, ExceptSeq
<1> QED
  BY <1>1, <1>5 DEF t

\* task_heartbeat touches one owned task, and of it only the lease.
LEMMA HeartbeatEffect ==
    ASSUME TypeOK, NEW i \in 1..MaxTasks, NEW tok \in SentTokens, NEW now \in Stamps,
           Heartbeat(i, tok, now)
    PROVE  /\ i \in TaskId /\ tasks[i].token # NoToken
           /\ tasks' \in Seq(TaskRecord)
           /\ Len(tasks') = Len(tasks)
           /\ \A j \in TaskId \ {i} : tasks'[j] = tasks[j]
           /\ tasks'[i].token = tasks[i].token /\ tasks'[i].status = tasks[i].status
           /\ tasks'[i].type = tasks[i].type /\ tasks'[i].deps = tasks[i].deps
           /\ tasks'[i].parent = tasks[i].parent /\ tasks'[i].depth = tasks[i].depth
           /\ tasks'[i].branch = tasks[i].branch /\ tasks'[i].agent = tasks[i].agent
<1> DEFINE t == [tasks[i] EXCEPT !.hb = now]
<1>1. i \in TaskId /\ tasks[i].token # NoToken
  BY DEF Heartbeat, OwnerErrc
<1>2. tasks \in Seq(TaskRecord) /\ tasks[i] \in TaskRecord
  BY <1>1, ElementOfSeq DEF TypeOK
<1>3. t \in TaskRecord
  BY <1>2 DEF TaskRecord, Stamps
<1>4. tasks' = [tasks EXCEPT ![i] = t]
  BY DEF Heartbeat
<1>5. /\ t.token = tasks[i].token /\ t.status = tasks[i].status
      /\ t.type = tasks[i].type /\ t.deps = tasks[i].deps
      /\ t.parent = tasks[i].parent /\ t.depth = tasks[i].depth
      /\ t.branch = tasks[i].branch /\ t.agent = tasks[i].agent
  BY <1>2 DEF TaskRecord
<1> HIDE DEF t
<1>6. /\ tasks' \in Seq(TaskRecord)
      /\ Len(tasks') = Len(tasks)
      /\ \A j \in TaskId \ {i} : tasks'[j] = tasks[j]
      /\ tasks'[i] = t
  BY <1>1, <1>2, <1>3, <1>4, ExceptSeq
<1> QED
  BY <1>1, <1>5, <1>6

\* A task that is released has neither owner nor token.
LEMMA ReleasedType ==
    ASSUME NEW t \in TaskRecord, NEW status \in TaskStatus
    PROVE  /\ Released(t, status) \in TaskRecord
           /\ Released(t, status).token = NoToken
           /\ Released(t, status).status = status
           /\ Released(t, status).agent = NoAgent
BY DEF Released, TaskRecord

\* task_fail releases one owned task as failed.
LEMMA FailEffect ==
    ASSUME TypeOK, NEW i \in 1..MaxTasks, NEW tok \in SentTokens, Fail(i, tok)
    PROVE  /\ i \in TaskId /\ tasks[i].token # NoToken
           /\ tasks' \in Seq(TaskRecord)
           /\ Len(tasks') = Len(tasks)
           /\ \A j \in TaskId \ {i} : tasks'[j] = tasks[j]
           /\ tasks'[i] = Released(tasks[i], "failed")
<1> DEFINE t == Released(tasks[i], "failed")
<1>1. i \in TaskId /\ tasks[i].token # NoToken
  BY DEF Fail, OwnerErrc
<1>2. tasks \in Seq(TaskRecord) /\ tasks[i] \in TaskRecord
  BY <1>1, ElementOfSeq DEF TypeOK
<1>3. t \in TaskRecord
  BY <1>2, ReleasedType DEF TaskStatus
<1>4. tasks' = [tasks EXCEPT ![i] = t]
  BY DEF Fail
<1> HIDE DEF t
<1>5. /\ tasks' \in Seq(TaskRecord)
      /\ Len(tasks') = Len(tasks)
      /\ \A j \in TaskId \ {i} : tasks'[j] = tasks[j]
      /\ tasks'[i] = t
  BY <1>1, <1>2, <1>3, <1>4, ExceptSeq
<1> QED
  BY <1>1, <1>5 DEF t

\* task_complete releases one owned task as done and appends pending ones.
LEMMA CompleteEffect ==
    ASSUME TypeOK, NEW i \in 1..MaxTasks, NEW tok \in SentTokens,
           NEW children \in ChildLists, NEW branch \in BOOLEAN,
           Complete(i, tok, children, branch)
    PROVE  /\ i \in TaskId /\ tasks[i].token # NoToken
           /\ tasks' \in Seq(TaskRecord)
           /\ Len(tasks') >= Len(tasks)
           /\ \A j \in TaskId \ {i} : tasks'[j] = tasks[j]
           /\ tasks'[i] = [Released(tasks[i], "done") EXCEPT !.branch = branch]
           /\ \A j \in (Len(tasks) + 1)..Len(tasks') :
                 /\ tasks'[j].token = NoToken /\ tasks'[j].status = "pending"
                 /\ tasks'[j].agent = NoAgent
<1> DEFINE t == [Released(tasks[i], "done") EXCEPT !.branch = branch]
           old == [tasks EXCEPT ![i] = t]
           new == Offspring(i, children, branch)
<1>1. /\ i \in TaskId /\ tasks[i].token # NoToken
      /\ children # <<>> => ~(tasks[i].depth + 1 > DepthCap)
  BY DEF Complete, CompleteErrc, OwnerErrc
<1>2. tasks \in Seq(TaskRecord) /\ tasks[i] \in TaskRecord
  BY <1>1, ElementOfSeq DEF TypeOK
<1>3. t \in TaskRecord
  <2>1. Released(tasks[i], "done") \in TaskRecord
    BY <1>2, ReleasedType DEF TaskStatus
  <2> QED
    BY <2>1 DEF TaskRecord
<1>4. children # <<>> => tasks[i].depth + 1 <= DepthCap
  <2>1. tasks[i].depth + 1 \in Int /\ DepthCap \in Int
    BY <1>2, TaskManagerAssumption DEF TaskRecord
  <2> QED
    BY <1>1, <2>1
<1>5. /\ new \in Seq(TaskRecord)
      /\ \A k \in 1..Len(new) : /\ new[k].token = NoToken /\ new[k].status = "pending"
                                /\ new[k].agent = NoAgent
  BY <1>1, <1>4, OffspringType
<1>6. tasks' = old \o new
  BY DEF Complete
<1> HIDE DEF t, new
<1>7. /\ old \in Seq(TaskRecord) /\ Len(old) = Len(tasks)
      /\ \A j \in TaskId : old[j] = IF j = i THEN t ELSE tasks[j]
  BY <1>1, <1>2, <1>3, ExceptSeq
<1> HIDE DEF old
<1>8. /\ old \o new \in Seq(TaskRecord)
      /\ Len(old \o new) = Len(old) + Len(new)
      /\ \A j \in 1..(Len(old) + Len(new)) :
            (old \o new)[j] = IF j <= Len(old) THEN old[j] ELSE new[j - Len(old)]
  <2>1. old \in Seq(TaskRecord) /\ new \in Seq(TaskRecord)
    BY <1>5, <1>7
  <2> QED
    BY <2>1, ConcatProperties
<1>9. Len(new) \in Nat /\ Len(tasks) \in Nat
  BY <1>2, <1>5, LenProperties
<1>10. \A j \in TaskId : tasks'[j] = old[j]
  BY <1>6, <1>7, <1>8, <1>9
<1>11. \A j \in (Len(tasks) + 1)..Len(tasks') :
          /\ tasks'[j].token = NoToken /\ tasks'[j].status = "pending"
          /\ tasks'[j].agent = NoAgent
  <2> TAKE j \in (Len(tasks) + 1)..Len(tasks')
  <2>1. tasks'[j] = new[j - Len(tasks)] /\ j - Len(tasks) \in 1..Len(new)
    BY <1>6, <1>7, <1>8, <1>9
  <2> QED
    BY <2>1, <1>5
<1>12. /\ tasks' \in Seq(TaskRecord) /\ Len(tasks') >= Len(tasks)
       /\ \A j \in TaskId \ {i} : tasks'[j] = tasks[j]
       /\ tasks'[i] = t
  BY <1>1, <1>6, <1>7, <1>8, <1>9, <1>10
<1> QED
  BY <1>1, <1>11, <1>12 DEF t

-----------------------------------------------------------------------------
(* Type correctness.                                                       *)

\* The initial state is typed.
LEMMA InitType == Init => TypeOK
BY TaskManagerAssumption DEF Init, TypeOK, NoLock, LockRecord

\* Every action keeps the types.
LEMMA TypeStep == TypeOK /\ [Next]_vars => TypeOK'
<1> SUFFICES ASSUME TypeOK, [Next]_vars PROVE TypeOK'
  OBVIOUS
<1>1. ASSUME NEW creator \in 0..MaxTasks, NEW tok \in SentTokens, NEW type \in TaskType,
             NEW deps \in DepSets, Create(creator, tok, type, deps)
      PROVE  TypeOK'
  <2>1. tasks' \in Seq(TaskRecord)
    BY <1>1, CreateEffect
  <2> QED
    BY <1>1, <2>1 DEF Create, TypeOK
<1>2. ASSUME NEW agent \in Agents, NEW prefer \in TaskType \cup {"any"}, NEW now \in Stamps,
             NEW i \in TaskId, Claim(agent, prefer, now, i)
      PROVE  TypeOK'
  <2>1. tasks' \in Seq(TaskRecord)
    BY <1>2, ClaimEffect
  <2> QED
    BY <1>2, <2>1 DEF Claim, TypeOK
<1>3. ASSUME NEW i \in 1..MaxTasks, NEW tok \in SentTokens, NEW now \in Stamps,
             Heartbeat(i, tok, now)
      PROVE  TypeOK'
  <2>1. tasks' \in Seq(TaskRecord)
    BY <1>3, HeartbeatEffect
  <2> QED
    BY <1>3, <2>1 DEF Heartbeat, TypeOK
<1>4. ASSUME NEW i \in 1..MaxTasks, NEW tok \in SentTokens, NEW children \in ChildLists,
             NEW branch \in BOOLEAN, Complete(i, tok, children, branch)
      PROVE  TypeOK'
  <2>1. tasks' \in Seq(TaskRecord)
    BY <1>4, CompleteEffect
  <2> QED
    BY <1>4, <2>1 DEF Complete, TypeOK
<1>5. ASSUME NEW i \in 1..MaxTasks, NEW tok \in SentTokens, Fail(i, tok)
      PROVE  TypeOK'
  <2>1. tasks' \in Seq(TaskRecord)
    BY <1>5, FailEffect
  <2> QED
    BY <1>5, <2>1, TaskManagerAssumption DEF Fail, TypeOK
<1>6. ASSUME NEW agent \in Agents, NEW m \in 1..MaxTasks, NEW tok \in SentTokens,
             NEW now \in Stamps, MainLockAcquire(agent, m, tok, now)
      PROVE  TypeOK'
  BY <1>6, TaskManagerAssumption DEF MainLockAcquire, TypeOK, LockRecord
<1>7. ASSUME NEW tok \in SentTokens, MainLockRelease(tok)
      PROVE  TypeOK'
  BY <1>7 DEF MainLockRelease, TypeOK, LockRecord, NoLock
<1>8. ASSUME SwarmResume PROVE TypeOK'
  BY <1>8 DEF SwarmResume, TypeOK
<1>9. ASSUME Tick PROVE TypeOK'
  BY <1>9, TaskManagerAssumption DEF Tick, TypeOK
<1>10. ASSUME UNCHANGED vars PROVE TypeOK'
  BY <1>10 DEF vars, TypeOK
<1> QED
  BY <1>1, <1>2, <1>3, <1>4, <1>5, <1>6, <1>7, <1>8, <1>9, <1>10 DEF Next, Undated, Dated

\* The state of the task manager stays well-typed, and no task is ever
\* deeper than the cap (tm.hh DEPTH_CAP), by either creation path.
THEOREM TypeCorrect == Spec => []TypeOK
<1>1. Init => TypeOK
  BY InitType
<1>2. TypeOK /\ [Next]_vars => TypeOK'
  BY TypeStep
<1> QED
  BY <1>1, <1>2, PTL DEF Spec

-----------------------------------------------------------------------------
(* Fencing tokens.                                                         *)

\* A step that grants nothing, at most takes tokens away.
NothingGranted ==
    /\ nextToken' = nextToken
    /\ lock'.token \in {NoToken, lock.token}
    /\ \A j \in 1..Len(tasks') :
          \/ j \in TaskId /\ tasks'[j].token = tasks[j].token
                          /\ tasks'[j].status = tasks[j].status
                          /\ tasks'[j].agent = tasks[j].agent
          \/ /\ tasks'[j].token = NoToken /\ tasks'[j].status # "in_progress"
             /\ tasks'[j].agent = NoAgent

\* A step that grants no token leaves the tokens in use apart.
LEMMA NothingGrantedStep ==
    ASSUME TypeOK, TypeOK', TokensIdentifyHolders, NothingGranted
    PROVE  TokensIdentifyHolders'
<1>1. nextToken \in Nat \ {0} /\ lock'.token < nextToken'
  BY DEF TypeOK, TokensIdentifyHolders, NothingGranted
<1>2. ASSUME NEW j \in 1..Len(tasks')
      PROVE  /\ tasks'[j].token < nextToken'
             /\ tasks'[j].status = "in_progress" <=> tasks'[j].token # NoToken
             /\ tasks'[j].token # NoToken => tasks'[j].token # lock'.token
  BY <1>1, <1>2 DEF TokensIdentifyHolders, NothingGranted
<1>3. ASSUME NEW i \in 1..Len(tasks'), NEW j \in 1..Len(tasks'), i # j,
             tasks'[i].token # NoToken
      PROVE  tasks'[i].token # tasks'[j].token
  BY <1>3 DEF TokensIdentifyHolders, NothingGranted
<1> QED
  BY <1>1, <1>2, <1>3 DEF TokensIdentifyHolders

\* No request that ignores now_unix grants a token.
LEMMA UndatedGrants ==
    ASSUME TypeOK, Undated
    PROVE  NothingGranted
<1>0. TypeOK'
  BY TypeStep DEF Next
<1>1. ASSUME NEW creator \in 0..MaxTasks, NEW tok \in SentTokens, NEW type \in TaskType,
             NEW deps \in DepSets, Create(creator, tok, type, deps)
      PROVE  NothingGranted
  <2>1. \A j \in 1..Len(tasks') :
           \/ j \in TaskId /\ tasks'[j] = tasks[j]
           \/ /\ tasks'[j].token = NoToken /\ tasks'[j].status = "pending"
              /\ tasks'[j].agent = NoAgent
    BY <1>1, CreateEffect, LenProperties DEF TypeOK
  <2> QED
    BY <1>1, <2>1 DEF Create, NothingGranted
<1>2. ASSUME NEW i \in 1..MaxTasks, NEW tok \in SentTokens, NEW children \in ChildLists,
             NEW branch \in BOOLEAN, Complete(i, tok, children, branch)
      PROVE  NothingGranted
  <2>1. /\ i \in TaskId /\ Len(tasks') >= Len(tasks)
        /\ \A j \in TaskId \ {i} : tasks'[j] = tasks[j]
        /\ tasks'[i] = [Released(tasks[i], "done") EXCEPT !.branch = branch]
        /\ \A j \in (Len(tasks) + 1)..Len(tasks') :
              /\ tasks'[j].token = NoToken /\ tasks'[j].status = "pending"
              /\ tasks'[j].agent = NoAgent
    BY <1>2, CompleteEffect
  <2>2. tasks[i] \in TaskRecord
    BY <2>1, ElementOfSeq DEF TypeOK
  <2>3. tasks'[i].token = NoToken /\ tasks'[i].status = "done" /\ tasks'[i].agent = NoAgent
    BY <2>1, <2>2, ReleasedType DEF TaskRecord, TaskStatus
  <2>4. Len(tasks) \in Nat /\ Len(tasks') \in Nat
    BY <1>0, LenProperties DEF TypeOK
  <2>5. \A j \in 1..Len(tasks') : j \in TaskId \/ j \in (Len(tasks) + 1)..Len(tasks')
    BY <2>4
  <2> QED
    BY <1>2, <2>1, <2>3, <2>5 DEF Complete, NothingGranted
<1>3. ASSUME NEW i \in 1..MaxTasks, NEW tok \in SentTokens, Fail(i, tok)
      PROVE  NothingGranted
  <2>1. /\ i \in TaskId /\ Len(tasks') = Len(tasks)
        /\ \A j \in TaskId \ {i} : tasks'[j] = tasks[j]
        /\ tasks'[i] = Released(tasks[i], "failed")
    BY <1>3, FailEffect
  <2>2. /\ tasks'[i].token = NoToken /\ tasks'[i].status = "failed"
        /\ tasks'[i].agent = NoAgent
    BY <2>1, ElementOfSeq, ReleasedType DEF TypeOK, TaskStatus
  <2> QED
    BY <1>3, <2>1, <2>2 DEF Fail, NothingGranted
<1>4. ASSUME NEW tok \in SentTokens, MainLockRelease(tok)
      PROVE  NothingGranted
  BY <1>4 DEF MainLockRelease, NoLock, NothingGranted
<1>5. ASSUME SwarmResume
      PROVE  NothingGranted
  BY <1>5 DEF SwarmResume, NothingGranted
<1> QED
  BY <1>1, <1>2, <1>3, <1>4, <1>5 DEF Undated

\* Of those that do, a claim and an acquired lock do.
LEMMA DatedGrants ==
    ASSUME TypeOK, NEW now \in Stamps, Dated(now)
    PROVE  \/ NothingGranted
           \/ \E agent \in Agents, prefer \in TaskType \cup {"any"}, i \in TaskId :
                 Claim(agent, prefer, now, i)
           \/ \E agent \in Agents, m \in 1..MaxTasks, tok \in SentTokens :
                 MainLockAcquire(agent, m, tok, now)
<1>1. ASSUME NEW i \in 1..MaxTasks, NEW tok \in SentTokens, Heartbeat(i, tok, now)
      PROVE  NothingGranted
  <2>1. /\ i \in TaskId /\ Len(tasks') = Len(tasks)
        /\ \A j \in TaskId \ {i} : tasks'[j] = tasks[j]
        /\ tasks'[i].token = tasks[i].token /\ tasks'[i].status = tasks[i].status
        /\ tasks'[i].agent = tasks[i].agent
    BY <1>1, HeartbeatEffect
  <2> QED
    BY <1>1, <2>1 DEF Heartbeat, NothingGranted
<1> QED
  BY <1>1 DEF Dated

\* Only task_claim and main_lock_acquire grant tokens.
LEMMA GrantingSteps ==
    ASSUME TypeOK, [Next]_vars
    PROVE  \/ NothingGranted
           \/ \E agent \in Agents, prefer \in TaskType \cup {"any"}, now \in Stamps, i \in TaskId :
                 Claim(agent, prefer, now, i)
           \/ \E agent \in Agents, m \in 1..MaxTasks, tok \in SentTokens, now \in Stamps :
                 MainLockAcquire(agent, m, tok, now)
<1>1. CASE Undated
  BY <1>1, UndatedGrants
<1>2. ASSUME NEW now \in Stamps, Dated(now)
      PROVE  \/ NothingGranted
             \/ \E agent \in Agents, prefer \in TaskType \cup {"any"}, i \in TaskId :
                   Claim(agent, prefer, now, i)
             \/ \E agent \in Agents, m \in 1..MaxTasks, tok \in SentTokens :
                   MainLockAcquire(agent, m, tok, now)
  BY <1>2, DatedGrants
<1>3. CASE Tick \/ UNCHANGED vars
  BY <1>3 DEF Tick, vars, NothingGranted
<1> QED
  BY <1>1, <1>2, <1>3 DEF Next

\* Every action leaves the tokens in use apart.
LEMMA TokensStep == TypeOK /\ TokensIdentifyHolders /\ [Next]_vars => TokensIdentifyHolders'
<1> SUFFICES ASSUME TypeOK, TokensIdentifyHolders, [Next]_vars
             PROVE  TokensIdentifyHolders'
  OBVIOUS
<1>1. CASE NothingGranted
  BY <1>1, TypeStep, NothingGrantedStep
<1>2. ASSUME NEW agent \in Agents, NEW prefer \in TaskType \cup {"any"}, NEW now \in Stamps,
             NEW i \in TaskId, Claim(agent, prefer, now, i)
      PROVE  TokensIdentifyHolders'
  <2>1. /\ Len(tasks') = Len(tasks)
        /\ \A j \in TaskId \ {i} : tasks'[j] = tasks[j]
        /\ tasks'[i].token = nextToken /\ tasks'[i].status = "in_progress"
    BY <1>2, ClaimEffect
  <2>2. nextToken \in Nat \ {0} /\ nextToken' = nextToken + 1 /\ lock' = lock
    BY <1>2 DEF Claim, TypeOK
  <2>3. \A j \in TaskId : tasks[j].token \in Nat
    BY TasksTyped
  <2>4. lock.token \in Nat /\ lock.token < nextToken
    BY DEF TypeOK, LockRecord, TokensIdentifyHolders
  <2>5. \A j \in TaskId : tasks[j].token < nextToken
    BY DEF TokensIdentifyHolders
  <2>6. ASSUME NEW j \in TaskId
        PROVE  /\ tasks'[j].token < nextToken'
               /\ tasks'[j].status = "in_progress" <=> tasks'[j].token # NoToken
               /\ tasks'[j].token # NoToken => tasks'[j].token # lock'.token
    <3>1. CASE j = i
      BY <2>1, <2>2, <2>4, <3>1
    <3>2. CASE j # i
      BY <2>1, <2>2, <2>3, <2>5, <3>2 DEF TokensIdentifyHolders
    <3> QED
      BY <3>1, <3>2
  <2>7. ASSUME NEW j \in TaskId, NEW k \in TaskId, j # k, tasks'[j].token # NoToken
        PROVE  tasks'[j].token # tasks'[k].token
    <3>1. CASE j = i
      BY <2>1, <2>2, <2>3, <2>5, <2>7, <3>1
    <3>2. CASE k = i
      BY <2>1, <2>2, <2>3, <2>5, <2>7, <3>2
    <3>3. CASE j # i /\ k # i
      BY <2>1, <2>7, <3>3 DEF TokensIdentifyHolders
    <3> QED
      BY <3>1, <3>2, <3>3
  <2>8. lock'.token < nextToken'
    BY <2>2, <2>4
  <2> QED
    BY <2>1, <2>6, <2>7, <2>8 DEF TokensIdentifyHolders
<1>3. ASSUME NEW agent \in Agents, NEW m \in 1..MaxTasks, NEW tok \in SentTokens,
             NEW now \in Stamps, MainLockAcquire(agent, m, tok, now)
      PROVE  TokensIdentifyHolders'
  <2>1. tasks' = tasks /\ lock'.token = nextToken /\ nextToken' = nextToken + 1
    BY <1>3 DEF MainLockAcquire
  <2>2. nextToken \in Nat \ {0}
    BY DEF TypeOK
  <2>3. \A j \in TaskId : tasks[j].token \in Nat
    BY TasksTyped
  <2> QED
    BY <2>1, <2>2, <2>3 DEF TokensIdentifyHolders
<1> QED
  BY <1>1, <1>2, <1>3, GrantingSteps

\* At the start no token is in use.
LEMMA InitTokens == Init => TypeOK /\ TokensIdentifyHolders
BY InitType DEF Init, TokensIdentifyHolders, NoLock

\* A fencing token authorises one thing: whatever agents, zombies among
\* them, have claimed, reclaimed, completed and locked, no two tasks, and no
\* task and the main lock, are held under the same token.
THEOREM TokensCorrect == Spec => []TokensIdentifyHolders
<1>1. Init => TypeOK /\ TokensIdentifyHolders
  BY InitTokens
<1>2. TypeOK /\ TokensIdentifyHolders /\ [Next]_vars => (TypeOK /\ TokensIdentifyHolders)'
  BY TypeStep, TokensStep
<1> QED
  BY <1>1, <1>2, PTL DEF Spec

-----------------------------------------------------------------------------
(* What is finished stays finished.                                        *)

\* A step that touches one unfinished task and keeps what it is for.
LEMMA OneTaskTouched ==
    ASSUME Len(tasks) \in Nat, Len(tasks') \in Nat, Len(tasks') >= Len(tasks), NEW i \in TaskId,
           \A j \in TaskId \ {i} : tasks'[j] = tasks[j],
           tasks[i].status \notin {"done", "failed"},
           tasks'[i].type = tasks[i].type, tasks'[i].deps = tasks[i].deps,
           tasks'[i].parent = tasks[i].parent, tasks'[i].depth = tasks[i].depth
    PROVE  FinishedTasksKept
<1> SUFFICES ASSUME NEW j \in TaskId
             PROVE  /\ j <= Len(tasks')
                    /\ tasks[j].status \in {"done", "failed"} => tasks'[j] = tasks[j]
                    /\ tasks'[j].type = tasks[j].type /\ tasks'[j].deps = tasks[j].deps
                    /\ tasks'[j].parent = tasks[j].parent /\ tasks'[j].depth = tasks[j].depth
  BY DEF FinishedTasksKept
<1>1. j <= Len(tasks')
  OBVIOUS
<1>2. CASE j = i
  BY <1>1, <1>2
<1>3. CASE j # i
  BY <1>1, <1>3
<1> QED
  BY <1>2, <1>3

\* No action changes a finished task, or what a task was created to do.
LEMMA FinishedStep == TypeOK /\ TokensIdentifyHolders /\ [Next]_vars => [FinishedTasksKept]_vars
<1> SUFFICES ASSUME TypeOK, TokensIdentifyHolders, [Next]_vars
             PROVE  [FinishedTasksKept]_vars
  OBVIOUS
<1>a. \A j \in TaskId : tasks[j].token # NoToken => tasks[j].status \notin {"done", "failed"}
  BY DEF TokensIdentifyHolders
<1>b. Len(tasks) \in Nat
  BY LenProperties DEF TypeOK
<1>1. ASSUME NEW creator \in 0..MaxTasks, NEW tok \in SentTokens, NEW type \in TaskType,
             NEW deps \in DepSets, Create(creator, tok, type, deps)
      PROVE  FinishedTasksKept
  <2>1. Len(tasks') = Len(tasks) + 1 /\ \A j \in TaskId : tasks'[j] = tasks[j]
    BY <1>1, CreateEffect
  <2> QED
    BY <1>b, <2>1 DEF FinishedTasksKept
<1>2. ASSUME NEW agent \in Agents, NEW prefer \in TaskType \cup {"any"}, NEW now \in Stamps,
             NEW i \in TaskId, Claim(agent, prefer, now, i)
      PROVE  FinishedTasksKept
  <2>1. /\ Len(tasks') = Len(tasks)
        /\ \A j \in TaskId \ {i} : tasks'[j] = tasks[j]
        /\ tasks'[i].type = tasks[i].type /\ tasks'[i].deps = tasks[i].deps
        /\ tasks'[i].parent = tasks[i].parent /\ tasks'[i].depth = tasks[i].depth
    BY <1>2, ClaimEffect
  <2>2. tasks[i].status \notin {"done", "failed"}
    BY <1>2 DEF Claim, ClaimPool, Eligible
  <2> QED
    BY <1>b, <2>1, <2>2, OneTaskTouched
<1>3. ASSUME NEW i \in 1..MaxTasks, NEW tok \in SentTokens, NEW now \in Stamps,
             Heartbeat(i, tok, now)
      PROVE  FinishedTasksKept
  <2>1. /\ i \in TaskId /\ tasks[i].token # NoToken /\ Len(tasks') = Len(tasks)
        /\ \A j \in TaskId \ {i} : tasks'[j] = tasks[j]
        /\ tasks'[i].type = tasks[i].type /\ tasks'[i].deps = tasks[i].deps
        /\ tasks'[i].parent = tasks[i].parent /\ tasks'[i].depth = tasks[i].depth
    BY <1>3, HeartbeatEffect
  <2>2. tasks[i].status \notin {"done", "failed"}
    BY <1>a, <2>1
  <2> QED
    BY <1>b, <2>1, <2>2, OneTaskTouched
<1>4. ASSUME NEW i \in 1..MaxTasks, NEW tok \in SentTokens, NEW children \in ChildLists,
             NEW branch \in BOOLEAN, Complete(i, tok, children, branch)
      PROVE  FinishedTasksKept
  <2>1. /\ i \in TaskId /\ tasks[i].token # NoToken /\ Len(tasks') >= Len(tasks)
        /\ \A j \in TaskId \ {i} : tasks'[j] = tasks[j]
        /\ tasks'[i] = [Released(tasks[i], "done") EXCEPT !.branch = branch]
    BY <1>4, CompleteEffect
  <2>2. /\ tasks'[i].type = tasks[i].type /\ tasks'[i].deps = tasks[i].deps
        /\ tasks'[i].parent = tasks[i].parent /\ tasks'[i].depth = tasks[i].depth
    BY <2>1, TasksTyped DEF TaskRecord, Released
  <2>3. Len(tasks') \in Nat
    BY TypeStep, LenProperties DEF TypeOK
  <2>4. tasks[i].status \notin {"done", "failed"}
    BY <1>a, <2>1
  <2> QED
    BY <1>b, <2>1, <2>2, <2>3, <2>4, OneTaskTouched
<1>5. ASSUME NEW i \in 1..MaxTasks, NEW tok \in SentTokens, Fail(i, tok)
      PROVE  FinishedTasksKept
  <2>1. /\ i \in TaskId /\ tasks[i].token # NoToken /\ Len(tasks') = Len(tasks)
        /\ \A j \in TaskId \ {i} : tasks'[j] = tasks[j]
        /\ tasks'[i] = Released(tasks[i], "failed")
    BY <1>5, FailEffect
  <2>2. /\ tasks'[i].type = tasks[i].type /\ tasks'[i].deps = tasks[i].deps
        /\ tasks'[i].parent = tasks[i].parent /\ tasks'[i].depth = tasks[i].depth
    BY <2>1, TasksTyped DEF TaskRecord, Released
  <2>3. tasks[i].status \notin {"done", "failed"}
    BY <1>a, <2>1
  <2> QED
    BY <1>b, <2>1, <2>2, <2>3, OneTaskTouched
<1>6. ASSUME \/ \E agent \in Agents, m \in 1..MaxTasks, tok \in SentTokens, now \in Stamps :
                   MainLockAcquire(agent, m, tok, now)
             \/ \E tok \in SentTokens : MainLockRelease(tok)
             \/ SwarmResume
             \/ Tick
      PROVE  FinishedTasksKept
  <2>1. tasks' = tasks
    BY <1>6 DEF MainLockAcquire, MainLockRelease, SwarmResume, Tick
  <2> QED
    BY <1>b, <2>1 DEF FinishedTasksKept
<1> QED
  BY <1>1, <1>2, <1>3, <1>4, <1>5, <1>6 DEF Next, Undated, Dated

\* The list of tasks never shrinks.
LEMMA TasksStay ==
    ASSUME TypeOK, TokensIdentifyHolders, [Next]_vars
    PROVE  \A j \in TaskId : j \in 1..Len(tasks')
<1>1. Len(tasks) \in Nat /\ Len(tasks') \in Nat
  BY TypeStep, LenProperties DEF TypeOK
<1>2. CASE UNCHANGED vars
  BY <1>2 DEF vars
<1>3. CASE FinishedTasksKept
  BY <1>1, <1>3 DEF FinishedTasksKept
<1> QED
  BY <1>2, <1>3, FinishedStep

\* No request, of an owner or of a zombie, ever changes a done or failed
\* task, removes a task, or rewrites what a task was created to do.
THEOREM FinishedTasksStayTheorem == Spec => FinishedTasksStay
<1>1. Init => TypeOK /\ TokensIdentifyHolders
  BY InitTokens
<1>2. TypeOK /\ TokensIdentifyHolders /\ [Next]_vars => (TypeOK /\ TokensIdentifyHolders)'
  BY TypeStep, TokensStep
<1>3. TypeOK /\ TokensIdentifyHolders /\ [Next]_vars => [FinishedTasksKept]_vars
  BY FinishedStep
<1> QED
  BY <1>1, <1>2, <1>3, PTL DEF Spec, FinishedTasksStay

-----------------------------------------------------------------------------
(* Dependency respect.                                                     *)

\* What a completion appends is pending: it starts no task.
LEMMA CompleteStartsNothing ==
    ASSUME TypeOK, TokensIdentifyHolders,
           NEW i \in 1..MaxTasks, NEW tok \in SentTokens,
           NEW children \in ChildLists, NEW branch \in BOOLEAN,
           Complete(i, tok, children, branch),
           NEW j \in 1..Len(tasks'), tasks'[j].status # "pending"
    PROVE  j \in TaskId /\ tasks[j].status # "pending"
<1>1. /\ i \in TaskId /\ tasks[i].token # NoToken
      /\ tasks' \in Seq(TaskRecord)
      /\ Len(tasks') >= Len(tasks)
      /\ \A k \in TaskId \ {i} : tasks'[k] = tasks[k]
      /\ tasks'[i] = [Released(tasks[i], "done") EXCEPT !.branch = branch]
      /\ \A k \in (Len(tasks) + 1)..Len(tasks') :
            /\ tasks'[k].token = NoToken /\ tasks'[k].status = "pending"
            /\ tasks'[k].agent = NoAgent
  BY CompleteEffect, Zenon
<1>2. tasks[i].status = "in_progress"
  BY <1>1 DEF TokensIdentifyHolders
<1>3. Len(tasks) \in Nat /\ Len(tasks') \in Nat
  BY <1>1, LenProperties DEF TypeOK
<1>4. j \in TaskId
  BY <1>1, <1>3
<1> QED
  BY <1>1, <1>2, <1>4

\* Every action keeps the dependencies of started tasks done.
LEMMA DepsStep ==
    TypeOK /\ TokensIdentifyHolders /\ StartedTasksHaveDoneDeps /\ [Next]_vars
    => StartedTasksHaveDoneDeps'
<1> SUFFICES ASSUME TypeOK, TokensIdentifyHolders, StartedTasksHaveDoneDeps, [Next]_vars,
                    NEW j \in 1..Len(tasks'), tasks'[j].status # "pending",
                    NEW d \in tasks'[j].deps
             PROVE  d \in 1..Len(tasks') /\ tasks'[d].status = "done"
  BY DEF StartedTasksHaveDoneDeps, RequiresSatisfied
<1>1. Len(tasks) \in Nat /\ Len(tasks') \in Nat
  BY TypeStep, LenProperties DEF TypeOK
<1>2. /\ \A i \in TaskId : i \in 1..Len(tasks')
      /\ \A i \in TaskId : tasks[i].status = "done" => tasks'[i].status = "done"
      /\ \A i \in TaskId : tasks'[i].deps = tasks[i].deps
  <2>1. CASE UNCHANGED vars
    BY <2>1 DEF vars
  <2>2. CASE FinishedTasksKept
    BY <1>1, <2>2 DEF FinishedTasksKept
  <2> QED
    BY <2>1, <2>2, FinishedStep
<1>3. j \in TaskId /\ RequiresSatisfied(tasks[j])
  <2>1. CASE j \in TaskId /\ tasks[j].status # "pending"
    BY <2>1 DEF StartedTasksHaveDoneDeps
  <2>2. ASSUME NEW creator \in 0..MaxTasks, NEW tok \in SentTokens, NEW type \in TaskType,
               NEW deps \in DepSets, Create(creator, tok, type, deps)
        PROVE  j \in TaskId /\ tasks[j].status # "pending"
    BY <1>1, <2>2, CreateEffect
  <2>3. ASSUME NEW agent \in Agents, NEW prefer \in TaskType \cup {"any"}, NEW now \in Stamps,
               NEW i \in TaskId, Claim(agent, prefer, now, i)
        PROVE  j \in TaskId /\ (tasks[j].status # "pending" \/ RequiresSatisfied(tasks[j]))
    <3>1. Len(tasks') = Len(tasks) /\ \A k \in TaskId \ {i} : tasks'[k] = tasks[k]
      BY <2>3, ClaimEffect
    <3>2. RequiresSatisfied(tasks[i])
      BY <2>3 DEF Claim, ClaimPool, Eligible
    <3> QED
      BY <3>1, <3>2
  <2>4. ASSUME NEW i \in 1..MaxTasks, NEW tok \in SentTokens, NEW now \in Stamps,
               Heartbeat(i, tok, now)
        PROVE  j \in TaskId /\ tasks[j].status # "pending"
    <3>1. /\ i \in TaskId /\ tasks[i].token # NoToken /\ Len(tasks') = Len(tasks)
          /\ \A k \in TaskId \ {i} : tasks'[k] = tasks[k]
      BY <2>4, HeartbeatEffect
    <3>2. tasks[i].status = "in_progress"
      BY <3>1 DEF TokensIdentifyHolders
    <3> QED
      BY <3>1, <3>2
  <2>5. ASSUME NEW i \in 1..MaxTasks, NEW tok \in SentTokens, NEW children \in ChildLists,
               NEW branch \in BOOLEAN, Complete(i, tok, children, branch)
        PROVE  j \in TaskId /\ tasks[j].status # "pending"
    BY <2>5, CompleteStartsNothing
  <2>6. ASSUME NEW i \in 1..MaxTasks, NEW tok \in SentTokens, Fail(i, tok)
        PROVE  j \in TaskId /\ tasks[j].status # "pending"
    <3>1. /\ i \in TaskId /\ tasks[i].token # NoToken /\ Len(tasks') = Len(tasks)
          /\ \A k \in TaskId \ {i} : tasks'[k] = tasks[k]
      BY <2>6, FailEffect
    <3>2. tasks[i].status = "in_progress"
      BY <3>1 DEF TokensIdentifyHolders
    <3> QED
      BY <3>1, <3>2
  <2>7. ASSUME tasks' = tasks PROVE j \in TaskId /\ tasks[j].status # "pending"
    BY <2>7
  <2> QED
    BY <2>1, <2>2, <2>3, <2>4, <2>5, <2>6, <2>7
       DEF Next, Undated, Dated, MainLockAcquire, MainLockRelease, SwarmResume, Tick, vars
<1> QED
  BY <1>2, <1>3 DEF RequiresSatisfied

\* Dependency respect (PLAN.md goal 3): every task that was ever handed out
\* has only done dependencies, now and for the rest of its life.
THEOREM DependenciesRespected == Spec => []StartedTasksHaveDoneDeps
<1> DEFINE Inv == TypeOK /\ TokensIdentifyHolders /\ StartedTasksHaveDoneDeps
<1>1. Init => Inv
  <2>1. Init => TokensIdentifyHolders /\ StartedTasksHaveDoneDeps
    BY DEF Init, TokensIdentifyHolders, StartedTasksHaveDoneDeps, NoLock
  <2> QED
    BY <2>1, InitType
<1>2. Inv /\ [Next]_vars => Inv'
  BY TypeStep, TokensStep, DepsStep
<1> QED
  BY <1>1, <1>2, PTL DEF Spec

-----------------------------------------------------------------------------
(* What a grant is: fresh, and only of a lapsed lease or a stale lock.     *)

\* Every token that an action grants is the next one.
LEMMA FreshStep == TypeOK /\ [Next]_vars => GrantsAreFresh
<1> SUFFICES ASSUME TypeOK, [Next]_vars PROVE GrantsAreFresh
  OBVIOUS
<1>1. CASE NothingGranted
  BY <1>1 DEF NothingGranted, GrantsAreFresh
<1>2. ASSUME NEW agent \in Agents, NEW prefer \in TaskType \cup {"any"}, NEW now \in Stamps,
             NEW i \in TaskId, Claim(agent, prefer, now, i)
      PROVE  GrantsAreFresh
  <2>1. /\ Len(tasks') = Len(tasks)
        /\ \A j \in TaskId \ {i} : tasks'[j] = tasks[j]
        /\ tasks'[i].token = nextToken
    BY <1>2, ClaimEffect
  <2>2. nextToken \in Nat /\ lock' = lock
    BY <1>2 DEF Claim, TypeOK
  <2> QED
    BY <2>1, <2>2 DEF GrantsAreFresh
<1>3. ASSUME NEW agent \in Agents, NEW m \in 1..MaxTasks, NEW tok \in SentTokens,
             NEW now \in Stamps, MainLockAcquire(agent, m, tok, now)
      PROVE  GrantsAreFresh
  <2>1. tasks' = tasks /\ lock'.token = nextToken /\ nextToken \in Nat
    BY <1>3 DEF MainLockAcquire, TypeOK
  <2> QED
    BY <2>1 DEF GrantsAreFresh
<1> QED
  BY <1>1, <1>2, <1>3, GrantingSteps

\* A zombie stays fenced for ever: no token is granted twice, so one that a
\* task or the main lock has lost never authorises anything again.
THEOREM FreshGrants == Spec => OnlyFreshTokensGranted
<1>1. Init => TypeOK
  BY InitType
<1>2. TypeOK /\ [Next]_vars => TypeOK' /\ [GrantsAreFresh]_vars
  BY TypeStep, FreshStep
<1> QED
  BY <1>1, <1>2, PTL DEF Spec, OnlyFreshTokensGranted

\* A leader's clock lags: what has lapsed by it has lapsed by every clock.
LEMMA LapsedByEveryClock ==
    ASSUME TypeOK, NEW t \in TaskRecord, NEW now \in Stamps, LeaseExpired(t, now)
    PROVE  LeaseExpired(t, clock)
BY TaskManagerAssumption DEF TypeOK, TaskRecord, Stamps, LeaseExpired

\* A request hands on only a task whose lease has lapsed by its own stamp.
LEMMA RequestReclaims ==
    ASSUME TypeOK, TokensIdentifyHolders, NEW now \in Stamps, Request(now),
           NEW j \in TaskId, tasks[j].token # NoToken,
           tasks'[j].token \notin {NoToken, tasks[j].token}
    PROVE  LeaseExpired(tasks[j], now)
<1>1. CASE NothingGranted
  <2>1. j \in 1..Len(tasks')
    BY TasksStay DEF Request, Next
  <2> QED
    BY <1>1, <2>1 DEF NothingGranted
<1>2. ASSUME NEW agent \in Agents, NEW prefer \in TaskType \cup {"any"},
             NEW i \in TaskId, Claim(agent, prefer, now, i)
      PROVE  LeaseExpired(tasks[j], now)
  <2>1. j = i
    BY <1>2, ClaimEffect
  <2>2. tasks[j].status = "in_progress"
    BY DEF TokensIdentifyHolders
  <2> QED
    BY <1>2, <2>1, <2>2 DEF Claim, ClaimPool, Eligible
<1>3. ASSUME NEW agent \in Agents, NEW m \in 1..MaxTasks, NEW tok \in SentTokens,
             MainLockAcquire(agent, m, tok, now)
      PROVE  FALSE
  BY <1>3 DEF MainLockAcquire
<1> QED
  BY <1>1, <1>2, <1>3, UndatedGrants, DatedGrants DEF Request

\* An action takes a task from its owner only when the lease has lapsed by every clock.
LEMMA ReclaimStep == TypeOK /\ TokensIdentifyHolders /\ [Next]_vars => ReclaimsAreLapsed
<1> SUFFICES ASSUME TypeOK, TokensIdentifyHolders, [Next]_vars,
                    NEW j \in TaskId,
                    tasks[j].token # NoToken, tasks'[j].token \notin {NoToken, tasks[j].token}
             PROVE  LeaseExpired(tasks[j], clock)
  BY DEF ReclaimsAreLapsed
<1>1. ASSUME NEW now \in Stamps, Request(now)
      PROVE  LeaseExpired(tasks[j], clock)
  <2>1. LeaseExpired(tasks[j], now) /\ tasks[j] \in TaskRecord
    BY <1>1, RequestReclaims, TasksTyped
  <2> QED
    BY <2>1, LapsedByEveryClock
<1>2. clock \in Stamps
  BY TaskManagerAssumption DEF TypeOK, Stamps
<1>3. CASE Tick \/ UNCHANGED vars
  BY <1>3 DEF Tick, vars
<1> QED
  BY <1>1, <1>2, <1>3 DEF Next, Request

\* An owner whose last heartbeat is within the lease window by the fastest
\* clock keeps its task, whichever leader stamps the claims of the others.
THEOREM LapsedReclaims == Spec => OnlyLapsedLeasesAreReclaimed
<1>1. Init => TypeOK /\ TokensIdentifyHolders
  BY InitTokens
<1>2. TypeOK /\ TokensIdentifyHolders /\ [Next]_vars =>
         (TypeOK /\ TokensIdentifyHolders)' /\ [ReclaimsAreLapsed]_vars
  BY TypeStep, TokensStep, ReclaimStep
<1> QED
  BY <1>1, <1>2, PTL DEF Spec, OnlyLapsedLeasesAreReclaimed

\* An action takes the lock over only when its holder no longer runs the merge.
LEMMA TakeOverStep == TypeOK /\ [Next]_vars => TakenLockIsStale
<1> SUFFICES ASSUME TypeOK, [Next]_vars, LockValid(clock),
                    lock'.token \notin {NoToken, lock.token}
             PROVE  FALSE
  BY DEF TakenLockIsStale
<1>1. CASE NothingGranted
  BY <1>1 DEF NothingGranted
<1>2. ASSUME NEW agent \in Agents, NEW prefer \in TaskType \cup {"any"}, NEW now \in Stamps,
             NEW i \in TaskId, Claim(agent, prefer, now, i)
      PROVE  FALSE
  BY <1>2 DEF Claim
<1>3. ASSUME NEW agent \in Agents, NEW m \in 1..MaxTasks, NEW tok \in SentTokens,
             NEW now \in Stamps, MainLockAcquire(agent, m, tok, now)
      PROVE  FALSE
  <2>1. ~LockValid(now)
    BY <1>3 DEF MainLockAcquire, AcquireErrc
  <2>2. lock.task \in TaskId /\ ~LeaseExpired(tasks[lock.task], clock)
    BY DEF LockValid
  <2>3. tasks[lock.task] \in TaskRecord
    BY <2>2, TasksTyped
  <2>4. ~LeaseExpired(tasks[lock.task], now)
    BY <2>2, <2>3, LapsedByEveryClock
  <2> QED
    BY <2>1, <2>4 DEF LockValid
<1> QED
  BY <1>1, <1>2, <1>3, GrantingSteps

\* No agent takes the main lock from a holder whose merge task it still runs
\* under a lease that is fresh by the fastest clock.
THEOREM LiveLockStays == Spec => LiveLockIsNotTakenOver
<1>1. Init => TypeOK
  BY InitType
<1>2. TypeOK /\ [Next]_vars => TypeOK' /\ [TakenLockIsStale]_vars
  BY TypeStep, TakeOverStep
<1> QED
  BY <1>1, <1>2, PTL DEF Spec, LiveLockIsNotTakenOver

-----------------------------------------------------------------------------
(* The halt.                                                               *)

\* What halted the swarm is a failed task, and failed tasks stay.
HaltHasCause == haltedBy # NoTask => haltedBy \in TaskId /\ tasks[haltedBy].status = "failed"

\* Every action keeps a failed task behind a halt.
LEMMA HaltCauseStep ==
    TypeOK /\ TokensIdentifyHolders /\ HaltHasCause /\ [Next]_vars => HaltHasCause'
<1> SUFFICES ASSUME TypeOK, TokensIdentifyHolders, HaltHasCause, [Next]_vars,
                    haltedBy' # NoTask
             PROVE  haltedBy' \in 1..Len(tasks') /\ tasks'[haltedBy'].status = "failed"
  BY DEF HaltHasCause
<1>1. CASE haltedBy' = haltedBy
  <2>1. haltedBy \in TaskId /\ tasks[haltedBy].status = "failed"
    BY <1>1 DEF HaltHasCause
  <2>2. CASE UNCHANGED vars
    BY <1>1, <2>1, <2>2 DEF vars
  <2>3. CASE FinishedTasksKept
    <3>1. Len(tasks) \in Nat /\ Len(tasks') \in Nat
      BY TypeStep, LenProperties DEF TypeOK
    <3> QED
      BY <1>1, <2>1, <2>3, <3>1 DEF FinishedTasksKept
  <2> QED
    BY <2>2, <2>3, FinishedStep
<1>2. ASSUME NEW i \in 1..MaxTasks, NEW tok \in SentTokens, Fail(i, tok)
      PROVE  haltedBy' \in 1..Len(tasks') /\ tasks'[haltedBy'].status = "failed"
  <2>1. /\ i \in TaskId /\ Len(tasks') = Len(tasks)
        /\ tasks'[i] = Released(tasks[i], "failed")
    BY <1>2, FailEffect
  <2>2. tasks'[i].status = "failed"
    BY <2>1, TasksTyped, ReleasedType DEF TaskStatus
  <2> QED
    BY <1>2, <2>1, <2>2 DEF Fail
<1>3. haltedBy' = haltedBy \/ \E i \in 1..MaxTasks, tok \in SentTokens : Fail(i, tok)
  BY DEF Next, Undated, Dated, Create, Claim, Heartbeat, Complete, MainLockAcquire, MainLockRelease,
         SwarmResume, Tick, vars
<1> QED
  BY <1>1, <1>2, <1>3

\* No action hands out work while the swarm is halted.
LEMMA HaltStep ==
    TypeOK /\ TokensIdentifyHolders /\ HaltHasCause /\ [Next]_vars => HaltedSwarmGrantsNothing
<1> SUFFICES ASSUME TypeOK, TokensIdentifyHolders, HaltHasCause, [Next]_vars,
                    haltedBy # NoTask, NEW j \in TaskId
             PROVE  tasks'[j].token \in {NoToken, tasks[j].token}
  BY DEF HaltedSwarmGrantsNothing, HaltHasCause
<1>1. CASE NothingGranted
  BY <1>1, TasksStay DEF NothingGranted
<1>2. ASSUME NEW agent \in Agents, NEW prefer \in TaskType \cup {"any"}, NEW now \in Stamps,
             NEW i \in TaskId, Claim(agent, prefer, now, i)
      PROVE  FALSE
  BY <1>2 DEF Claim
<1>3. ASSUME NEW agent \in Agents, NEW m \in 1..MaxTasks, NEW tok \in SentTokens,
             NEW now \in Stamps, MainLockAcquire(agent, m, tok, now)
      PROVE  tasks' = tasks
  BY <1>3 DEF MainLockAcquire
<1> QED
  BY <1>1, <1>2, <1>3, GrantingSteps

\* A halted swarm hands out nothing: while a failed task holds the halt, no
\* task, fresh or reclaimable, gets an owner.
THEOREM HaltHolds == Spec => HaltStopsNewWork
<1> DEFINE Inv == TypeOK /\ TokensIdentifyHolders /\ HaltHasCause
<1>1. Init => Inv
  BY InitTokens DEF Init, HaltHasCause
<1>2. Inv /\ [Next]_vars => Inv' /\ [HaltedSwarmGrantsNothing]_vars
  BY TypeStep, TokensStep, HaltCauseStep, HaltStep
<1> QED
  BY <1>1, <1>2, PTL DEF Spec, HaltStopsNewWork

-----------------------------------------------------------------------------
(* One merge per finished implement.                                       *)

\* The implement tasks whose branch is to be merged.
Merged(i) == tasks[i].type = "implement" /\ tasks[i].status = "done" /\ tasks[i].branch

\* Parents come first, and only a completion reports a branch: what the
\* count of merge tasks needs to survive the tasks that are appended.
Lineage ==
    \A m \in TaskId :
       /\ tasks[m].parent < m
       /\ tasks[m].branch => tasks[m].status = "done"

\* OneMergePerFinishedImplement without counting.
MergesMatch ==
    \A i \in TaskId :
       IF Merged(i) THEN \E m \in TaskId : SynthesizedMerges(i) = {m}
                    ELSE SynthesizedMerges(i) = {}

\* A step that appends nothing and leaves alone what tasks are for and which
\* of them are done with a branch.
LEMMA NothingMerged ==
    ASSUME Lineage, MergesMatch, Len(tasks') = Len(tasks),
           \A j \in TaskId :
              /\ tasks'[j].type = tasks[j].type /\ tasks'[j].deps = tasks[j].deps
              /\ tasks'[j].parent = tasks[j].parent /\ tasks'[j].depth = tasks[j].depth
              /\ tasks'[j].branch = tasks[j].branch
              /\ tasks'[j].branch => tasks'[j].status = tasks[j].status
    PROVE  Lineage' /\ MergesMatch'
<1>1. Lineage'
  BY DEF Lineage
<1>2. \A j \in TaskId : Merged(j)' <=> Merged(j)
  BY DEF Merged, Lineage
<1>3. \A j \in TaskId : SynthesizedMerges(j)' = SynthesizedMerges(j)
  BY DEF SynthesizedMerges
<1>4. MergesMatch'
  BY <1>2, <1>3 DEF MergesMatch
<1> QED
  BY <1>1, <1>4

\* One owned task changes, and it has reported no branch.
LEMMA OwnedTaskMergesNothing ==
    ASSUME Lineage, MergesMatch, Len(tasks') = Len(tasks), NEW i \in TaskId,
           \A j \in TaskId \ {i} : tasks'[j] = tasks[j],
           tasks[i].status \in {"pending", "in_progress"}, tasks[i].branch \in BOOLEAN,
           tasks'[i].type = tasks[i].type, tasks'[i].deps = tasks[i].deps,
           tasks'[i].parent = tasks[i].parent, tasks'[i].depth = tasks[i].depth,
           tasks'[i].branch = tasks[i].branch
    PROVE  Lineage' /\ MergesMatch'
<1>1. ~tasks[i].branch
  BY DEF Lineage
<1>2. \A j \in TaskId :
         /\ tasks'[j].type = tasks[j].type /\ tasks'[j].deps = tasks[j].deps
         /\ tasks'[j].parent = tasks[j].parent /\ tasks'[j].depth = tasks[j].depth
         /\ tasks'[j].branch = tasks[j].branch
         /\ tasks'[j].branch => tasks'[j].status = tasks[j].status
  <2> TAKE j \in TaskId
  <2>1. CASE j = i
    BY <1>1, <2>1
  <2>2. CASE j # i
    BY <2>2
  <2> QED
    BY <2>1, <2>2
<1> QED
  BY <1>2, NothingMerged

\* The task that task_create appends is deeper than its creator: it is not
\* mistaken for the merge task of a finished implement.
LEMMA CreateMergesNothing ==
    ASSUME TypeOK, Lineage, MergesMatch, NEW creator \in 0..MaxTasks, NEW tok \in SentTokens,
           NEW type \in TaskType, NEW deps \in DepSets, Create(creator, tok, type, deps)
    PROVE  Lineage' /\ MergesMatch'
<1> DEFINE new == NewTask(type, deps, creator,
                          IF creator = NoTask THEN 0 ELSE tasks[creator].depth + 1)
<1>12. PICK n : n = Len(tasks) + 1
  OBVIOUS
<1>1. tasks \in Seq(TaskRecord) /\ Len(tasks) \in Nat /\ creator \in Nat
  BY TaskManagerAssumption, LenProperties DEF TypeOK
<1>2. \A j \in TaskId : tasks[j].depth \in Nat
  BY TasksTyped, TaskManagerAssumption DEF TaskRecord
<1>3. creator = NoTask \/ creator \in TaskId
  BY DEF Create, CreateErrc
<1>4. /\ Len(tasks') = n
      /\ \A j \in TaskId : tasks'[j] = tasks[j]
  BY <1>12, CreateEffect
<1>5. tasks'[n] = new
  BY <1>1, <1>12 DEF Create
<1>6. /\ new.parent = creator /\ new.branch = FALSE
      /\ creator # NoTask => new.depth = tasks[creator].depth + 1
  BY DEF NewTask
<1> HIDE DEF new
<1>7. Lineage'
  BY <1>1, <1>12, <1>3, <1>4, <1>5, <1>6 DEF Lineage
<1>8. \A j \in TaskId : SynthesizedMerges(j)' = SynthesizedMerges(j)
  <2> TAKE j \in TaskId
  <2>1. n \notin SynthesizedMerges(j)'
    BY <1>1, <1>12, <1>2, <1>4, <1>5, <1>6 DEF SynthesizedMerges
  <2>2. \A m \in TaskId : m \in SynthesizedMerges(j)' <=> m \in SynthesizedMerges(j)
    BY <1>1, <1>12, <1>4 DEF SynthesizedMerges
  <2>3. SynthesizedMerges(j) \subseteq TaskId /\ SynthesizedMerges(j)' \subseteq 1..n
    BY <1>4 DEF SynthesizedMerges
  <2>4. \A m \in 1..n : m \in TaskId \/ m = n
    BY <1>1, <1>12
  <2>5. \A m : m \in SynthesizedMerges(j)' <=> m \in SynthesizedMerges(j)
    BY <2>1, <2>2, <2>3, <2>4, Zenon
  <2> QED
    BY <2>5, Zenon
<1>9. SynthesizedMerges(n)' = {}
  <2>1. \A m \in 1..n : tasks'[m].parent < m
    BY <1>4, <1>7, <1>12 DEF Lineage
  <2>2. \A m \in 1..n : tasks'[m].parent # n
    BY <1>1, <1>12, <1>3, <1>4, <1>5, <1>6, <2>1 DEF Lineage
  <2> SUFFICES ASSUME NEW m \in SynthesizedMerges(n)' PROVE FALSE
    BY Zenon
  <2>3. m \in 1..n /\ tasks'[m].parent = n
    BY <1>4 DEF SynthesizedMerges
  <2> QED
    BY <2>2, <2>3
<1>10. ~Merged(n)' /\ \A j \in TaskId : Merged(j)' <=> Merged(j)
  <2>1. tasks'[n].branch = FALSE
    BY <1>5, <1>6
  <2> QED
    BY <1>4, <2>1, Zenon DEF Merged
<1>11. MergesMatch'
  <2> SUFFICES ASSUME NEW j \in 1..Len(tasks')
               PROVE  IF Merged(j)' THEN \E m \in 1..Len(tasks') : SynthesizedMerges(j)' = {m}
                                    ELSE SynthesizedMerges(j)' = {}
    BY DEF MergesMatch
  <2>1. CASE j \in TaskId
    <3>1. IF Merged(j) THEN \E m \in TaskId : SynthesizedMerges(j) = {m}
                       ELSE SynthesizedMerges(j) = {}
      BY <2>1 DEF MergesMatch
    <3>2. TaskId \subseteq 1..Len(tasks')
      BY <1>1, <1>12, <1>4
    <3> QED
      BY <1>8, <1>10, <2>1, <3>1, <3>2
  <2>2. CASE j = n
    BY <1>9, <1>10, <2>2
  <2> QED
    BY <1>1, <1>12, <1>4, <2>1, <2>2
<1> QED
  BY <1>7, <1>11

\* What a completion with c children appends: the children, deeper than the
\* task, and after them the one merge task, on the task's own depth.
ChildrenThenMerge(new, i, c, branch) ==
    /\ Len(new) = IF tasks[i].type = "implement" /\ branch THEN c + 1 ELSE c
    /\ \A k \in 1..Len(new) : new[k].parent = i /\ new[k].branch = FALSE
    /\ \A k \in 1..c : new[k].depth = tasks[i].depth + 1
    /\ Len(new) = c + 1 => new[c + 1] = NewTask("merge", {i}, i, tasks[i].depth)

\* A completion appends nothing else.
LEMMA OffspringShape ==
    ASSUME TypeOK, NEW i \in TaskId, NEW children \in ChildLists, NEW branch \in BOOLEAN
    PROVE  /\ Len(children) \in Nat
           /\ ChildrenThenMerge(Offspring(i, children, branch), i, Len(children), branch)
<1> DEFINE kids == [k \in 1..Len(children) |->
                      NewTask(children[k].type, children[k].deps, i, tasks[i].depth + 1)]
           merge == IF tasks[i].type = "implement" /\ branch
                    THEN <<NewTask("merge", {i}, i, tasks[i].depth)>>
                    ELSE <<>>
           c == Len(children)
           new == Offspring(i, children, branch)
<1>1. children \in Seq([type : TaskType, deps : SUBSET Nat]) /\ c \in Nat
  BY ChildListsType, LenProperties
<1>4. Len(kids) = c /\ Len(merge) = IF tasks[i].type = "implement" /\ branch THEN 1 ELSE 0
  BY <1>1
<1>5. \A k \in 1..c : kids[k].parent = i /\ kids[k].branch = FALSE
                      /\ kids[k].depth = tasks[i].depth + 1
  BY DEF NewTask
<1>6. Len(merge) = 1 => merge[1] = NewTask("merge", {i}, i, tasks[i].depth)
  BY <1>4
<1>7. new = kids \o merge
  BY DEF Offspring
<1> DEFINE S == {kids[k] : k \in 1..c} \cup {NewTask("merge", {i}, i, tasks[i].depth)}
<1>8. kids \in Seq(S) /\ merge \in Seq(S)
  <2>1. kids \in [1..c -> S]
    OBVIOUS
  <2>2. kids \in Seq(S)
    BY <1>1, <2>1, FunctionIsSeq
  <2>3. merge \in Seq(S)
    <3> DEFINE m == NewTask("merge", {i}, i, tasks[i].depth)
    <3>1. m \in S
      OBVIOUS
    <3> HIDE DEF m, S
    <3>2. <<m>> \in Seq(S) /\ <<>> \in Seq(S)
      BY <3>1
    <3> QED
      BY <3>2 DEF m
  <2> HIDE DEF S, merge, kids
  <2> QED
    BY <2>2, <2>3
<1>9. /\ NewTask("merge", {i}, i, tasks[i].depth).parent = i
      /\ NewTask("merge", {i}, i, tasks[i].depth).branch = FALSE
  BY DEF NewTask
<1> HIDE DEF kids, merge, new, S
<1>10. /\ Len(new) = Len(kids) + Len(merge)
       /\ \A k \in 1..(Len(kids) + Len(merge)) :
             new[k] = IF k <= Len(kids) THEN kids[k] ELSE merge[k - Len(kids)]
  BY <1>7, <1>8, ConcatProperties
<1>11. \A k \in 1..c : new[k] = kids[k]
  BY <1>1, <1>4, <1>10
<1>12. Len(new) = c + 1 => new[c + 1] = NewTask("merge", {i}, i, tasks[i].depth)
  BY <1>1, <1>4, <1>6, <1>10
<1>13. \A k \in 1..Len(new) : k \in 1..c \/ (k = c + 1 /\ Len(new) = c + 1)
  BY <1>1, <1>4, <1>10
<1>14. \A k \in 1..Len(new) : new[k].parent = i /\ new[k].branch = FALSE
  BY <1>5, <1>9, <1>11, <1>12, <1>13
<1>15. Len(new) = IF tasks[i].type = "implement" /\ branch THEN c + 1 ELSE c
  BY <1>1, <1>4, <1>10
<1> QED
  BY <1>1, <1>5, <1>11, <1>12, <1>14, <1>15 DEF new, ChildrenThenMerge

\* The task a completion finishes and those it appends, by position.
LEMMA CompleteShape ==
    ASSUME TypeOK, NEW i \in 1..MaxTasks, NEW tok \in SentTokens,
           NEW children \in ChildLists, NEW branch \in BOOLEAN,
           Complete(i, tok, children, branch)
    PROVE  /\ Len(Offspring(i, children, branch)) \in Nat
           /\ Len(tasks') = Len(tasks) + Len(Offspring(i, children, branch))
           /\ \A k \in 1..Len(Offspring(i, children, branch)) :
                 tasks'[Len(tasks) + k] = Offspring(i, children, branch)[k]
<1> DEFINE t == [Released(tasks[i], "done") EXCEPT !.branch = branch]
           old == [tasks EXCEPT ![i] = t]
           new == Offspring(i, children, branch)
<1>1. /\ i \in TaskId
      /\ children # <<>> => ~(tasks[i].depth + 1 > DepthCap)
  BY DEF Complete, CompleteErrc, OwnerErrc
<1>2. tasks \in Seq(TaskRecord) /\ tasks[i] \in TaskRecord
  BY <1>1, ElementOfSeq DEF TypeOK
<1>3. children # <<>> => tasks[i].depth + 1 <= DepthCap
  <2>1. tasks[i].depth + 1 \in Int /\ DepthCap \in Int
    BY <1>2, TaskManagerAssumption DEF TaskRecord
  <2> QED
    BY <1>1, <2>1
<1>4. t \in TaskRecord
  <2>1. Released(tasks[i], "done") \in TaskRecord
    BY <1>2, ReleasedType DEF TaskStatus
  <2> QED
    BY <2>1 DEF TaskRecord
<1>5. new \in Seq(TaskRecord)
  BY <1>1, <1>3, OffspringType
<1>6. tasks' = old \o new
  BY DEF Complete
<1> HIDE DEF t, new
<1>7. old \in Seq(TaskRecord) /\ Len(old) = Len(tasks)
  BY <1>1, <1>2, <1>4, ExceptSeq
<1> HIDE DEF old
<1>8. /\ Len(tasks') = Len(old) + Len(new)
      /\ \A j \in 1..(Len(old) + Len(new)) :
            tasks'[j] = IF j <= Len(old) THEN old[j] ELSE new[j - Len(old)]
  BY <1>5, <1>6, <1>7, ConcatProperties
<1>9. Len(new) \in Nat /\ Len(tasks) \in Nat
  BY <1>2, <1>5, LenProperties
<1>10. ASSUME NEW k \in 1..Len(new) PROVE tasks'[Len(tasks) + k] = new[k]
  <2>1. /\ Len(tasks) + k \in 1..(Len(old) + Len(new)) /\ ~(Len(tasks) + k <= Len(old))
        /\ (Len(tasks) + k) - Len(old) = k
    BY <1>7, <1>9
  <2> QED
    BY <1>8, <2>1
<1> QED
  BY <1>7, <1>8, <1>9, <1>10 DEF new

\* A completion of an implement with a branch appends its one merge task,
\* and no completion adds a merge task for any other.
LEMMA CompleteMergesOnce ==
    ASSUME TypeOK, TokensIdentifyHolders, Lineage, MergesMatch,
           NEW i \in 1..MaxTasks, NEW tok \in SentTokens,
           NEW children \in ChildLists, NEW branch \in BOOLEAN,
           Complete(i, tok, children, branch)
    PROVE  Lineage' /\ MergesMatch'
<1> DEFINE new == Offspring(i, children, branch)
           c == Len(children)
           n == Len(tasks)
<1>1. n \in Nat /\ c \in Nat /\ Len(new) \in Nat /\ Len(tasks') = n + Len(new)
  BY LenProperties, ChildListsType, CompleteShape DEF TypeOK
<1>2. /\ i \in TaskId /\ tasks[i].token # NoToken
      /\ \A j \in TaskId \ {i} : tasks'[j] = tasks[j]
      /\ tasks'[i] = [Released(tasks[i], "done") EXCEPT !.branch = branch]
      /\ \A j \in (n + 1)..Len(tasks') :
            tasks'[j].token = NoToken /\ tasks'[j].status = "pending"
  <2> HIDE DEF new, c
  <2>1. /\ i \in TaskId /\ tasks[i].token # NoToken
        /\ tasks' \in Seq(TaskRecord)
        /\ Len(tasks') >= Len(tasks)
        /\ \A j \in TaskId \ {i} : tasks'[j] = tasks[j]
        /\ tasks'[i] = [Released(tasks[i], "done") EXCEPT !.branch = branch]
        /\ \A j \in (Len(tasks) + 1)..Len(tasks') :
              /\ tasks'[j].token = NoToken /\ tasks'[j].status = "pending"
              /\ tasks'[j].agent = NoAgent
    BY CompleteEffect, Zenon
  <2> QED
    BY <2>1, Zenon
<1>3. tasks[i] \in TaskRecord /\ tasks[i].depth \in Nat
  BY <1>2, TasksTyped, TaskManagerAssumption DEF TaskRecord
<1>4. /\ tasks'[i].type = tasks[i].type /\ tasks'[i].deps = tasks[i].deps
      /\ tasks'[i].parent = tasks[i].parent /\ tasks'[i].depth = tasks[i].depth
      /\ tasks'[i].status = "done" /\ tasks'[i].branch = branch
  BY <1>2, <1>3 DEF TaskRecord, Released
<1>5. ~Merged(i)
  BY <1>2 DEF Merged, TokensIdentifyHolders
<1>6. /\ Len(new) = IF tasks[i].type = "implement" /\ branch THEN c + 1 ELSE c
      /\ \A k \in 1..Len(new) : /\ new[k].parent = i
                                 /\ new[k].branch = FALSE
      /\ \A k \in 1..c : new[k].depth = tasks[i].depth + 1
      /\ Len(new) = c + 1 => new[c + 1] = NewTask("merge", {i}, i, tasks[i].depth)
  <2>1. i \in TaskId
    BY <1>2
  <2>2. ChildrenThenMerge(new, i, c, branch)
    BY <2>1, OffspringShape
  <2> HIDE DEF new
  <2> QED
    BY <2>2 DEF ChildrenThenMerge
<1>7. \A k \in 1..Len(new) : tasks'[n + k] = new[k]
  BY CompleteShape
<1> HIDE DEF new
<1>8. ASSUME NEW m \in (n + 1)..Len(tasks')
      PROVE  /\ tasks'[m].parent = i /\ tasks'[m].branch = FALSE
             /\ IF m = n + c + 1 THEN tasks[i].type = "implement" /\ branch
                                      /\ tasks'[m] = NewTask("merge", {i}, i, tasks[i].depth)
                                 ELSE tasks'[m].depth = tasks[i].depth + 1
  <2>1. PICK k \in 1..Len(new) : m = n + k
    <3>1. m - n \in 1..Len(new) /\ m = n + (m - n)
      BY <1>1
    <3> QED
      BY <3>1
  <2>2. tasks'[m] = new[k]
    BY <1>7, <2>1
  <2>3. k \in 1..c \/ (k = c + 1 /\ Len(new) = c + 1 /\ tasks[i].type = "implement" /\ branch)
    BY <1>1, <1>6
  <2>4. m = n + c + 1 <=> k = c + 1
    BY <1>1, <2>1
  <2>5. k \in 1..c => k # c + 1
    BY <1>1
  <2> QED
    BY <1>6, <2>2, <2>3, <2>4, <2>5
<1>19. \A m \in (n + 1)..Len(tasks') : tasks'[m].parent = i /\ tasks'[m].branch = FALSE
  BY <1>8
<1>9. \A m \in 1..Len(tasks') : m \in TaskId \/ m \in (n + 1)..Len(tasks')
  BY <1>1
<1>10. Lineage'
  <2> SUFFICES ASSUME NEW m \in 1..Len(tasks')
               PROVE  tasks'[m].parent < m /\ (tasks'[m].branch => tasks'[m].status = "done")
    BY DEF Lineage
  <2>1. CASE m \in TaskId
    <3>1. CASE m = i
      BY <1>2, <1>4, <3>1 DEF Lineage
    <3>2. CASE m # i
      BY <1>2, <2>1, <3>2 DEF Lineage
    <3> QED
      BY <3>1, <3>2
  <2>2. CASE m \in (n + 1)..Len(tasks')
    BY <1>1, <1>2, <1>19, <2>2
  <2> QED
    BY <1>9, <2>1, <2>2
<1>11. \A m \in TaskId : /\ tasks'[m].type = tasks[m].type /\ tasks'[m].deps = tasks[m].deps
                         /\ tasks'[m].parent = tasks[m].parent /\ tasks'[m].depth = tasks[m].depth
  <2> TAKE m \in TaskId
  <2>1. CASE m = i
    BY <1>4, <2>1
  <2>2. CASE m # i
    BY <1>2, <2>2
  <2> QED
    BY <2>1, <2>2
<1>12. \A j \in TaskId, m \in TaskId : m \in SynthesizedMerges(j)' <=> m \in SynthesizedMerges(j)
  BY <1>1, <1>11 DEF SynthesizedMerges
<1>13. \A j \in TaskId : SynthesizedMerges(j) \subseteq TaskId
  BY DEF SynthesizedMerges
<1>14. \A j \in 1..Len(tasks') : SynthesizedMerges(j)' \subseteq 1..Len(tasks')
  BY DEF SynthesizedMerges
<1>15. ASSUME NEW j \in TaskId, j # i
       PROVE  SynthesizedMerges(j)' = SynthesizedMerges(j) /\ (Merged(j)' <=> Merged(j))
  <2>1. \A m \in (n + 1)..Len(tasks') : m \notin SynthesizedMerges(j)'
    BY <1>15, <1>19 DEF SynthesizedMerges
  <2>2. j \in 1..Len(tasks')
    BY <1>1
  <2>3. SynthesizedMerges(j)' = SynthesizedMerges(j)
    BY <1>9, <1>12, <1>13, <1>14, <2>1, <2>2
  <2>4. Merged(j)' <=> Merged(j)
    BY <1>2, <1>15 DEF Merged
  <2> QED
    BY <2>3, <2>4
<1>16. ASSUME NEW j \in (n + 1)..Len(tasks')
       PROVE  SynthesizedMerges(j)' = {} /\ ~Merged(j)'
  <2>1. \A m \in TaskId : tasks'[m].parent # j
    BY <1>1, <1>11 DEF Lineage
  <2>2. \A m \in (n + 1)..Len(tasks') : tasks'[m].parent # j
    BY <1>1, <1>2, <1>19
  <2>3. SynthesizedMerges(j)' = {}
    BY <1>9, <2>1, <2>2 DEF SynthesizedMerges
  <2>4. ~Merged(j)'
    BY <1>2 DEF Merged
  <2> QED
    BY <2>3, <2>4
<1>17. IF Merged(i)' THEN \E m \in 1..Len(tasks') : SynthesizedMerges(i)' = {m}
                     ELSE SynthesizedMerges(i)' = {}
  <2>1. SynthesizedMerges(i) = {}
    BY <1>2, <1>5 DEF MergesMatch
  <2>2. \A m \in SynthesizedMerges(i)' : m \in (n + 1)..Len(tasks')
    BY <1>1, <1>2, <1>9, <1>12, <1>14, <2>1
  <2>3. \A m \in SynthesizedMerges(i)' : m = n + c + 1
    <3> SUFFICES ASSUME NEW m \in (n + 1)..Len(tasks'), m # n + c + 1
                 PROVE  m \notin SynthesizedMerges(i)'
      BY <2>2
    <3>1. tasks'[m].depth = tasks[i].depth + 1 /\ tasks'[i].depth = tasks[i].depth
      BY <1>4, <1>8
    <3> QED
      BY <1>3, <3>1 DEF SynthesizedMerges
  <2>4. Merged(i)' <=> (tasks[i].type = "implement" /\ branch)
    BY <1>4 DEF Merged
  <2>5. CASE tasks[i].type = "implement" /\ branch
    <3>1. n + c + 1 \in (n + 1)..Len(tasks') /\ n + c + 1 \in 1..Len(tasks')
      BY <1>1, <1>6, <2>5
    <3>2. tasks'[n + c + 1] = NewTask("merge", {i}, i, tasks[i].depth)
      BY <1>8, <3>1
    <3>3. /\ tasks'[n + c + 1].type = "merge" /\ tasks'[n + c + 1].deps = {i}
          /\ tasks'[n + c + 1].parent = i /\ tasks'[n + c + 1].depth = tasks'[i].depth
      BY <1>4, <3>2 DEF NewTask
    <3>4. n + c + 1 \in SynthesizedMerges(i)'
      BY <3>1, <3>3 DEF SynthesizedMerges
    <3>5. SynthesizedMerges(i)' = {n + c + 1}
      BY <2>3, <3>4
    <3> QED
      BY <2>4, <2>5, <3>1, <3>5
  <2>6. CASE ~(tasks[i].type = "implement" /\ branch)
    <3>1. n + c + 1 \notin (n + 1)..Len(tasks')
      BY <1>1, <1>6, <2>6
    <3> QED
      BY <2>2, <2>3, <2>4, <2>6, <3>1
  <2> QED
    BY <2>5, <2>6
<1>18. MergesMatch'
  <2> SUFFICES ASSUME NEW j \in 1..Len(tasks')
               PROVE  IF Merged(j)' THEN \E m \in 1..Len(tasks') : SynthesizedMerges(j)' = {m}
                                    ELSE SynthesizedMerges(j)' = {}
    BY DEF MergesMatch
  <2>1. CASE j \in TaskId /\ j # i
    <3>1. IF Merged(j) THEN \E m \in TaskId : SynthesizedMerges(j) = {m}
                       ELSE SynthesizedMerges(j) = {}
      BY <2>1 DEF MergesMatch
    <3>2. TaskId \subseteq 1..Len(tasks')
      BY <1>1
    <3> QED
      BY <1>15, <2>1, <3>1, <3>2
  <2>2. CASE j \in (n + 1)..Len(tasks')
    BY <1>16, <2>2
  <2> QED
    BY <1>9, <1>17, <2>1, <2>2
<1> QED
  BY <1>10, <1>18

\* Every action keeps the lineage of tasks, and one merge per finished implement.
LEMMA MergesStep ==
    TypeOK /\ TokensIdentifyHolders /\ Lineage /\ MergesMatch /\ [Next]_vars
    => Lineage' /\ MergesMatch'
<1> SUFFICES ASSUME TypeOK, TokensIdentifyHolders, Lineage, MergesMatch, [Next]_vars
             PROVE  Lineage' /\ MergesMatch'
  OBVIOUS
<1>a. \A j \in TaskId : tasks[j].token # NoToken => tasks[j].status = "in_progress"
  BY DEF TokensIdentifyHolders
<1>b. \A j \in TaskId : tasks[j].branch \in BOOLEAN
  BY TasksTyped DEF TaskRecord
<1>1. ASSUME NEW creator \in 0..MaxTasks, NEW tok \in SentTokens, NEW type \in TaskType,
             NEW deps \in DepSets, Create(creator, tok, type, deps)
      PROVE  Lineage' /\ MergesMatch'
  BY <1>1, CreateMergesNothing
<1>2. ASSUME NEW agent \in Agents, NEW prefer \in TaskType \cup {"any"}, NEW now \in Stamps,
             NEW i \in TaskId, Claim(agent, prefer, now, i)
      PROVE  Lineage' /\ MergesMatch'
  <2>1. /\ Len(tasks') = Len(tasks)
        /\ \A j \in TaskId \ {i} : tasks'[j] = tasks[j]
        /\ tasks'[i].type = tasks[i].type /\ tasks'[i].deps = tasks[i].deps
        /\ tasks'[i].parent = tasks[i].parent /\ tasks'[i].depth = tasks[i].depth
        /\ tasks'[i].branch = tasks[i].branch
    BY <1>2, ClaimEffect
  <2>2. tasks[i].status \in {"pending", "in_progress"}
    BY <1>2 DEF Claim, ClaimPool, Eligible
  <2> QED
    BY <1>b, <2>1, <2>2, OwnedTaskMergesNothing
<1>3. ASSUME NEW i \in 1..MaxTasks, NEW tok \in SentTokens, NEW now \in Stamps,
             Heartbeat(i, tok, now)
      PROVE  Lineage' /\ MergesMatch'
  <2>1. /\ i \in TaskId /\ tasks[i].token # NoToken /\ Len(tasks') = Len(tasks)
        /\ \A j \in TaskId \ {i} : tasks'[j] = tasks[j]
        /\ tasks'[i].type = tasks[i].type /\ tasks'[i].deps = tasks[i].deps
        /\ tasks'[i].parent = tasks[i].parent /\ tasks'[i].depth = tasks[i].depth
        /\ tasks'[i].branch = tasks[i].branch
    BY <1>3, HeartbeatEffect
  <2>2. tasks[i].status \in {"pending", "in_progress"}
    BY <1>a, <2>1
  <2> QED
    BY <1>b, <2>1, <2>2, OwnedTaskMergesNothing
<1>4. ASSUME NEW i \in 1..MaxTasks, NEW tok \in SentTokens, NEW children \in ChildLists,
             NEW branch \in BOOLEAN, Complete(i, tok, children, branch)
      PROVE  Lineage' /\ MergesMatch'
  BY <1>4, CompleteMergesOnce
<1>5. ASSUME NEW i \in 1..MaxTasks, NEW tok \in SentTokens, Fail(i, tok)
      PROVE  Lineage' /\ MergesMatch'
  <2>1. /\ i \in TaskId /\ tasks[i].token # NoToken /\ Len(tasks') = Len(tasks)
        /\ \A j \in TaskId \ {i} : tasks'[j] = tasks[j]
        /\ tasks'[i] = Released(tasks[i], "failed")
    BY <1>5, FailEffect
  <2>2. /\ tasks'[i].type = tasks[i].type /\ tasks'[i].deps = tasks[i].deps
        /\ tasks'[i].parent = tasks[i].parent /\ tasks'[i].depth = tasks[i].depth
        /\ tasks'[i].branch = tasks[i].branch
    BY <2>1, TasksTyped DEF TaskRecord, Released
  <2>3. tasks[i].status \in {"pending", "in_progress"}
    BY <1>a, <2>1
  <2> QED
    BY <1>b, <2>1, <2>2, <2>3, OwnedTaskMergesNothing
<1>6. ASSUME tasks' = tasks
      PROVE  Lineage' /\ MergesMatch'
  <2>1. \A j \in TaskId : Merged(j)' <=> Merged(j)
    BY <1>6 DEF Merged
  <2>2. \A j \in TaskId : SynthesizedMerges(j)' = SynthesizedMerges(j)
    BY <1>6 DEF SynthesizedMerges
  <2> QED
    BY <1>6, <2>1, <2>2 DEF Lineage, MergesMatch
<1> QED
  BY <1>1, <1>2, <1>3, <1>4, <1>5, <1>6
     DEF Next, Undated, Dated, MainLockAcquire, MainLockRelease, SwarmResume, Tick, vars

\* Every done implement task with a branch has exactly one synthesized merge
\* task, and nothing else has any: whatever zombies and repeated completions
\* are sent, a branch is queued for merging once.
THEOREM OneMerge == Spec => []OneMergePerFinishedImplement
<1> DEFINE Inv == TypeOK /\ TokensIdentifyHolders /\ Lineage /\ MergesMatch
<1>1. Init => Inv
  <2>1. Init => Lineage /\ MergesMatch
    BY DEF Init, Lineage, MergesMatch
  <2> QED
    BY <2>1, InitTokens
<1>2. Inv /\ [Next]_vars => Inv'
  BY TypeStep, TokensStep, MergesStep
<1>3. Inv => OneMergePerFinishedImplement
  <2> SUFFICES ASSUME MergesMatch, NEW i \in TaskId
               PROVE  Cardinality(SynthesizedMerges(i)) = IF Merged(i) THEN 1 ELSE 0
    BY DEF OneMergePerFinishedImplement, Merged
  <2>1. CASE Merged(i)
    <3>1. PICK m \in TaskId : SynthesizedMerges(i) = {m}
      BY <2>1 DEF MergesMatch
    <3> QED
      BY <2>1, <3>1, FS_Singleton
  <2>2. CASE ~Merged(i)
    <3>1. SynthesizedMerges(i) = {}
      BY <2>2 DEF MergesMatch
    <3> QED
      BY <2>2, <3>1, FS_EmptySet
  <2> QED
    BY <2>1, <2>2
<1> QED
  BY <1>1, <1>2, <1>3, PTL DEF Spec
=============================================================================
