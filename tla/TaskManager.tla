---------------------------- MODULE TaskManager ----------------------------
(***************************************************************************)
(* The task manager's state machine, task_manager_db: a list of tasks that *)
(* agents claim under a lease, heartbeat, and complete or fail with the    *)
(* fencing token of their claim; one advisory lock on the main branch; and *)
(* a swarm-wide halt.  process_req(req, now) dispatches to one handler per *)
(* request, and every handler is one action here: its <X>Errc operator is  *)
(* the error code the handler returns, in the order of its early returns,  *)
(* and only an "ok" request changes the state.  task_list only reads.      *)
(*                                                                         *)
(* A task is its position in the sequence tasks: ids are minted in order,  *)
(* so tasks stands for tasks_, task_order_ and next_task_seq_ together.    *)
(* Titles, prompts, summaries, serials and error texts are left out.       *)
(***************************************************************************)
EXTENDS Integers, Sequences, FiniteSets

CONSTANTS
    Agents,       \* the names agents send as agent_id
    NoAgent,      \* the empty owner_agent
    LeaseWindow,  \* LEASE_WINDOW_SECONDS
    DepthCap,     \* DEPTH_CAP
    MaxTasks,     \* bound: tasks ever created
    MaxTokens,    \* bound: tokens ever minted
    MaxClock,     \* bound: the largest clock reading
    MaxSkew,      \* how far a leader's clock may lag behind the fastest one
    MaxDeps,      \* bound: entries of one requires list
    MaxChildren   \* bound: new_children of one task_complete

ASSUME TaskManagerAssumption ==
    /\ NoAgent \notin Agents
    /\ LeaseWindow \in Nat
    /\ DepthCap \in Nat
    /\ MaxTasks \in Nat
    /\ MaxTokens \in Nat
    /\ MaxClock \in Nat
    /\ MaxSkew \in Nat
    /\ MaxDeps \in Nat
    /\ MaxChildren \in Nat

VARIABLES
    tasks,      \* tasks_ in task_order_: the record of every task created
    lock,       \* main_lock_
    nextToken,  \* next_token_: the next fencing token to mint
    haltedBy,   \* halted_by_, NoTask when the swarm is not halted
    clock       \* the fastest replica's wall clock (time(nullptr))

vars == <<tasks, lock, nextToken, haltedBy, clock>>

NoTask == 0
NoToken == 0

TaskType == {"plan", "implement", "merge"}
TaskStatus == {"pending", "in_progress", "done", "failed"}
TaskId == 1..Len(tasks)

TaskRecord ==
    [type : TaskType, deps : SUBSET Nat, parent : Nat, depth : 0..DepthCap,
     status : TaskStatus, agent : Agents \cup {NoAgent}, token : Nat,
     hb : 0..MaxClock, branch : BOOLEAN]

LockRecord == [agent : Agents \cup {NoAgent}, task : Nat, token : Nat]

NoLock == [agent |-> NoAgent, task |-> NoTask, token |-> NoToken]

\* A task as task_create and task_complete append it.
NewTask(type, deps, parent, depth) ==
    [type |-> type, deps |-> deps, parent |-> parent, depth |-> depth,
     status |-> "pending", agent |-> NoAgent, token |-> NoToken, hb |-> 0,
     branch |-> FALSE]

\* The now_unix a leader may stamp: its own clock, at most MaxSkew behind.
Stamps == {now \in 0..MaxClock : now <= clock /\ clock <= now + MaxSkew}

Init ==
    /\ tasks = <<>>
    /\ lock = NoLock
    /\ nextToken = 1
    /\ haltedBy = NoTask
    /\ clock = 0

-----------------------------------------------------------------------------
(* Requests an agent may send.  Each names its agent_id, and a root task    *)
(* has no parent_id, as with every client in skills/ and scripts/.         *)

\* Any requires list, of known ids or not: only task_create validates it.
DepSets == {D \in SUBSET (1..MaxTasks) : Cardinality(D) <= MaxDeps}
ChildSpec == [type : TaskType, deps : DepSets]
ChildLists == UNION {[1..n -> ChildSpec] : n \in 0..MaxChildren}

\* A token an agent was once given, or none: zombies resend old ones.
SentTokens == 0..(nextToken - 1)

-----------------------------------------------------------------------------
(* Helpers of the handlers.                                                *)

LeaseExpired(t, now) == now - t.hb > LeaseWindow

RequiresSatisfied(t) ==
    \A d \in t.deps : d \in TaskId /\ tasks[d].status = "done"

\* Mutant: an unowned task takes the empty token for its own.
OwnerErrc_EmptyTokenPasses(i, tok) ==
    IF i \notin TaskId THEN "not_found" ELSE IF tasks[i].token # tok THEN "fenced" ELSE "ok"

\* The fencing check of heartbeat, complete and fail.
OwnerErrc(i, tok) ==
    IF i \notin TaskId THEN "not_found"
    ELSE IF tasks[i].token = NoToken \/ tasks[i].token # tok THEN "fenced"
    ELSE "ok"

\* Mutant: the owner is not cleared.
Released_KeepsOwner(t, status) == [t EXCEPT !.status = status]

\* Ownership ends: the record keeps everything but its owner.
Released(t, status) ==
    [t EXCEPT !.status = status, !.agent = NoAgent, !.token = NoToken]

-----------------------------------------------------------------------------
(* task_create                                                             *)

CreateErrc(creator, tok, deps) ==
    IF creator # NoTask /\ tok = NoToken THEN "invalid"
    ELSE IF creator # NoTask /\ creator \notin TaskId THEN "not_found"
    ELSE IF creator # NoTask
            /\ (tasks[creator].status # "in_progress" \/ tasks[creator].token # tok)
         THEN "fenced"
    ELSE IF creator # NoTask /\ tasks[creator].depth + 1 > DepthCap THEN "depth_exceeded"
    ELSE IF ~(deps \subseteq TaskId) THEN "not_found"
    ELSE "ok"

Create(creator, tok, type, deps) ==
    /\ Len(tasks) < MaxTasks
    /\ CreateErrc(creator, tok, deps) = "ok"
    /\ tasks' = Append(tasks,
                  NewTask(type, deps, creator,
                          IF creator = NoTask THEN 0 ELSE tasks[creator].depth + 1))
    /\ UNCHANGED <<lock, nextToken, haltedBy, clock>>

-----------------------------------------------------------------------------
(* task_claim                                                              *)

\* Mutants: dependencies, or the lease, are not looked at.
Eligible_IgnoringRequires(now) ==
    {i \in TaskId : \/ tasks[i].status = "pending"
                    \/ tasks[i].status = "in_progress" /\ LeaseExpired(tasks[i], now)}
Eligible_IgnoringLease(now) ==
    {i \in TaskId : RequiresSatisfied(tasks[i]) /\ tasks[i].status \in {"pending", "in_progress"}}

\* Mutant: only what nobody ever claimed.
Eligible_PendingOnly(now) ==
    {i \in TaskId : RequiresSatisfied(tasks[i]) /\ tasks[i].status = "pending"}

Eligible(now) ==
    {i \in TaskId :
        /\ RequiresSatisfied(tasks[i])
        /\ \/ tasks[i].status = "pending"
           \/ tasks[i].status = "in_progress" /\ LeaseExpired(tasks[i], now)}

\* The two scans of task_order_: tasks of the preferred type first, then all.
ClaimPool(prefer, now) ==
    LET matching == {i \in Eligible(now) : tasks[i].type = prefer}
    IN  IF matching # {} THEN matching ELSE Eligible(now)

\* Mutant: a lapsed lease is handed on although the swarm is halted.
Claim_IgnoringHalt(agent, prefer, now, i) ==
    /\ nextToken <= MaxTokens
    /\ haltedBy = NoTask \/ tasks[i].status = "in_progress"
    /\ i \in ClaimPool(prefer, now)
    /\ \A j \in ClaimPool(prefer, now) : i <= j
    /\ tasks' = [tasks EXCEPT ![i] = [@ EXCEPT !.status = "in_progress", !.agent = agent,
                                               !.token = nextToken, !.hb = now]]
    /\ nextToken' = nextToken + 1
    /\ UNCHANGED <<lock, haltedBy, clock>>

Claim(agent, prefer, now, i) ==
    /\ nextToken <= MaxTokens
    /\ haltedBy = NoTask
    /\ i \in ClaimPool(prefer, now)
    /\ \A j \in ClaimPool(prefer, now) : i <= j
    /\ tasks' = [tasks EXCEPT ![i] = [@ EXCEPT !.status = "in_progress",
                                               !.agent = agent,
                                               !.token = nextToken,
                                               !.hb = now]]
    /\ nextToken' = nextToken + 1
    /\ UNCHANGED <<lock, haltedBy, clock>>

-----------------------------------------------------------------------------
(* task_heartbeat, task_complete, task_fail                                *)

Heartbeat(i, tok, now) ==
    /\ OwnerErrc(i, tok) = "ok"
    /\ tasks' = [tasks EXCEPT ![i] = [@ EXCEPT !.hb = now]]
    /\ UNCHANGED <<lock, nextToken, haltedBy, clock>>

\* Mutant: the depth cap holds for task_create only.
CompleteErrc_IgnoringDepth(i, tok, children) == OwnerErrc(i, tok)

CompleteErrc(i, tok, children) ==
    IF OwnerErrc(i, tok) # "ok" THEN OwnerErrc(i, tok)
    ELSE IF children # <<>> /\ tasks[i].depth + 1 > DepthCap THEN "depth_exceeded"
    ELSE "ok"

\* What a completion appends: the children, whose requires lists nobody
\* validates, and the merge task of an implement that reports a branch.
Offspring(i, children, branch) ==
    [k \in 1..Len(children) |->
        NewTask(children[k].type, children[k].deps, i, tasks[i].depth + 1)]
    \o IF tasks[i].type = "implement" /\ branch
       THEN <<NewTask("merge", {i}, i, tasks[i].depth)>>
       ELSE <<>>

Complete(i, tok, children, branch) ==
    /\ CompleteErrc(i, tok, children) = "ok"
    /\ Len(tasks) + Len(Offspring(i, children, branch)) <= MaxTasks
    /\ tasks' = [tasks EXCEPT ![i] = [Released(@, "done") EXCEPT !.branch = branch]]
                \o Offspring(i, children, branch)
    /\ UNCHANGED <<lock, nextToken, haltedBy, clock>>

Fail(i, tok) ==
    /\ OwnerErrc(i, tok) = "ok"
    /\ tasks' = [tasks EXCEPT ![i] = Released(@, "failed")]
    /\ haltedBy' = i
    /\ UNCHANGED <<lock, nextToken, clock>>

-----------------------------------------------------------------------------
(* main_lock_acquire, main_lock_release, swarm_resume                      *)

\* Mutant: the lock binds until it is released.
LockValid_UntilReleased(now) == lock.token # NoToken

\* The lock still binds: its merge task runs under a fresh lease and is
\* owned by the agent that took the lock.
LockValid(now) ==
    /\ lock.token # NoToken
    /\ lock.task \in TaskId
    /\ tasks[lock.task].status = "in_progress"
    /\ ~LeaseExpired(tasks[lock.task], now)
    /\ tasks[lock.task].agent = lock.agent

\* Mutant: the lock of another agent is never in the way.
AcquireErrc_IgnoringHolder(m, tok, now) ==
    IF m \notin TaskId THEN "not_found"
    ELSE IF tasks[m].status # "in_progress" \/ tasks[m].token # tok THEN "fenced"
    ELSE "ok"

AcquireErrc(m, tok, now) ==
    IF m \notin TaskId THEN "not_found"
    ELSE IF tasks[m].status # "in_progress" \/ tasks[m].token # tok THEN "fenced"
    ELSE IF LockValid(now) THEN "busy"
    ELSE "ok"

\* Mutant: the lock is held with the merge task's own token.
MainLockAcquire_ReusingToken(agent, m, tok, now) ==
    /\ AcquireErrc(m, tok, now) = "ok"
    /\ lock' = [agent |-> agent, task |-> m, token |-> tok]
    /\ UNCHANGED <<tasks, nextToken, haltedBy, clock>>

MainLockAcquire(agent, m, tok, now) ==
    /\ nextToken <= MaxTokens
    /\ AcquireErrc(m, tok, now) = "ok"
    /\ lock' = [agent |-> agent, task |-> m, token |-> nextToken]
    /\ nextToken' = nextToken + 1
    /\ UNCHANGED <<tasks, haltedBy, clock>>

MainLockRelease(tok) ==
    /\ lock.token # NoToken
    /\ lock.token = tok
    /\ lock' = NoLock
    /\ UNCHANGED <<tasks, nextToken, haltedBy, clock>>

SwarmResume ==
    /\ haltedBy' = NoTask
    /\ UNCHANGED <<tasks, lock, nextToken, clock>>

\* Time passes on the replica with the fastest clock.
Tick ==
    /\ clock < MaxClock
    /\ clock' = clock + 1
    /\ UNCHANGED <<tasks, lock, nextToken, haltedBy>>

-----------------------------------------------------------------------------
\* Requests whose handlers do not look at now_unix.
Undated ==
    \/ \E creator \in 0..MaxTasks, tok \in SentTokens, type \in TaskType, deps \in DepSets :
          Create(creator, tok, type, deps)
    \/ \E i \in 1..MaxTasks, tok \in SentTokens, children \in ChildLists, branch \in BOOLEAN :
          Complete(i, tok, children, branch)
    \/ \E i \in 1..MaxTasks, tok \in SentTokens : Fail(i, tok)
    \/ \E tok \in SentTokens : MainLockRelease(tok)
    \/ SwarmResume

\* Those that do.
Dated(now) ==
    \/ \E agent \in Agents, prefer \in TaskType \cup {"any"}, i \in TaskId :
          Claim(agent, prefer, now, i)
    \/ \E i \in 1..MaxTasks, tok \in SentTokens : Heartbeat(i, tok, now)
    \/ \E agent \in Agents, m \in 1..MaxTasks, tok \in SentTokens :
          MainLockAcquire(agent, m, tok, now)

Request(now) == Undated \/ Dated(now)

Next == Undated \/ (\E now \in Stamps : Dated(now)) \/ Tick

Spec == Init /\ [][Next]_vars

-----------------------------------------------------------------------------
(* Properties.                                                             *)

\* Every variable has its type; in particular no task is deeper than the
\* cap, whichever of the two creation paths (tm.hh DEPTH_CAP) made it.
TypeOK ==
    /\ tasks \in Seq(TaskRecord)
    /\ lock \in LockRecord
    /\ nextToken \in Nat \ {0}
    /\ haltedBy \in Nat
    /\ clock \in 0..MaxClock

\* A fencing token names one holder.  A task carries a token exactly while
\* it is in progress, every token in use was minted, and no two holders, be
\* they tasks or the main lock, share one: whatever claims, reclaims,
\* completions and lock grants happened, a token authorises one thing.
TokensIdentifyHolders ==
    /\ \A i \in TaskId :
          /\ tasks[i].token < nextToken
          /\ tasks[i].status = "in_progress" <=> tasks[i].token # NoToken
          /\ tasks[i].token # NoToken => tasks[i].token # lock.token
    /\ lock.token < nextToken
    /\ \A i, j \in TaskId :
          i # j /\ tasks[i].token # NoToken => tasks[i].token # tasks[j].token

\* A zombie stays fenced: a token that a task or the lock loses never comes
\* back, because whatever a step hands out is newer than all tokens so far.
GrantsAreFresh ==
    /\ \A i \in 1..Len(tasks') :
          tasks'[i].token # NoToken /\ ~(i \in TaskId /\ tasks[i].token = tasks'[i].token)
          => tasks'[i].token >= nextToken
    /\ lock'.token \notin {NoToken, lock.token} => lock'.token >= nextToken
OnlyFreshTokensGranted == [][GrantsAreFresh]_vars

\* Dependency respect (PLAN.md goal 3), over the whole life of a task: a
\* task that was ever handed out has only dependencies that are done, and
\* they are still done however long ago it was claimed.
StartedTasksHaveDoneDeps ==
    \A i \in TaskId : tasks[i].status # "pending" => RequiresSatisfied(tasks[i])

\* One finished implement, one merge.  Each done implement task with a
\* branch has exactly one synthesized merge task and no other task has any,
\* so neither a zombie's nor a repeated task_complete merges a branch twice.
SynthesizedMerges(i) ==
    {m \in TaskId : /\ tasks[m].type = "merge"
                    /\ tasks[m].parent = i
                    /\ tasks[m].deps = {i}
                    /\ tasks[m].depth = tasks[i].depth}
OneMergePerFinishedImplement ==
    \A i \in TaskId :
       Cardinality(SynthesizedMerges(i)) =
          IF tasks[i].type = "implement" /\ tasks[i].status = "done" /\ tasks[i].branch
          THEN 1 ELSE 0

\* What is finished stays finished: no request, of the owner or of a zombie,
\* changes a done or failed task or makes a task disappear, and what a task
\* was created to do (type, dependencies, parent, depth) never changes.
FinishedTasksKept ==
    \A i \in TaskId :
       /\ i <= Len(tasks')
       /\ tasks[i].status \in {"done", "failed"} => tasks'[i] = tasks[i]
       /\ tasks'[i].type = tasks[i].type /\ tasks'[i].deps = tasks[i].deps
       /\ tasks'[i].parent = tasks[i].parent /\ tasks'[i].depth = tasks[i].depth
FinishedTasksStay == [][FinishedTasksKept]_vars

\* An owner that heartbeats keeps its task: a task changes hands only if
\* even the fastest clock agrees that its lease has run out, however far the
\* clock of the leader that stamped the claim lags behind.
ReclaimsAreLapsed ==
    \A i \in TaskId :
       tasks[i].token # NoToken /\ tasks'[i].token \notin {NoToken, tasks[i].token}
       => LeaseExpired(tasks[i], clock)
OnlyLapsedLeasesAreReclaimed == [][ReclaimsAreLapsed]_vars

\* A halt is caused by a failed task, which it names, and it stops the
\* handing out of work until the operator resumes the swarm: no task gets an
\* owner while the swarm is halted, also by a reclaim of a lapsed lease.
HaltedSwarmGrantsNothing ==
    haltedBy # NoTask =>
       /\ haltedBy \in TaskId /\ tasks[haltedBy].status = "failed"
       /\ \A i \in TaskId : tasks'[i].token \in {NoToken, tasks[i].token}
HaltStopsNewWork == [][HaltedSwarmGrantsNothing]_vars

\* Two agents never merge into main at once: the lock passes from one holder
\* to another without a release only when the holder's merge task is no
\* longer run, under a lease still fresh by every clock, by the agent that
\* took the lock.
TakenLockIsStale ==
    lock.token # NoToken /\ lock'.token \notin {NoToken, lock.token} => ~LockValid(clock)
LiveLockIsNotTakenOver == [][TakenLockIsStale]_vars
=============================================================================
