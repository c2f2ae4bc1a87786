------------------------------- MODULE Replay -------------------------------
(***************************************************************************)
(* The decision logs that tm-server's log_decided() writes at every        *)
(* replica, and what tm-replay makes of them: for each entry of replica    *)
(* 0's log the state every replica was in at that time, and the lease      *)
(* reclaims that the visualizer jumps to.                                  *)
(*                                                                         *)
(* Every replica has a clock of its own, and the leader stamps a request   *)
(* with its clock: now_unix goes back when a replica with a slower clock   *)
(* takes over.  What a replica applies while it becomes leader goes to the *)
(* database but not to its decision log, which then has a hole.            *)
(*                                                                         *)
(* process_req() is a function of the state, the request and now_unix, so  *)
(* that an entry is kept as its stamp and the tasks after it, in place of  *)
(* the request; log has it from the moment that the leader stamps it.      *)
(* Requests that are overwritten, and task_list, never reach a decision    *)
(* log and are left out.                                                   *)
(***************************************************************************)
EXTENDS TaskManager

CONSTANTS
    NReplicas,  \* how many replicas there are, and logs that tm-replay is given
    MaxLog      \* bound: entries decided

ASSUME ReplayAssumption == NReplicas \in Nat \ {0} /\ MaxLog \in Nat

VARIABLES
    log,       \* the decided entries in order of their slots
    wall,      \* wall[i]: the clock of replica i; TaskManager's clock is the fastest
    applied,   \* applied[i]: applied_slot_ of replica i
    journal,   \* journal[i]: the decision log of replica i, slot and applied_at_unix
    unlogged,  \* history: unlogged[i]: the slots that i applied but did not log
    seen       \* history: seen[i][t + 1]: applied[i] when i's second t was over

logs == <<log, wall, applied, journal, unlogged, seen>>
rvars == <<vars, logs>>

Replicas == 1..NReplicas

RInit ==
    /\ Init
    /\ log = <<>>
    /\ wall = [i \in Replicas |-> 0]
    /\ applied = [i \in Replicas |-> 0]
    /\ journal = [i \in Replicas |-> <<>>]
    /\ unlogged = [i \in Replicas |-> {}]
    /\ seen = [i \in Replicas |-> <<>>]

-----------------------------------------------------------------------------
(* The servers.                                                            *)

Entry(now) == [now |-> now, tasks |-> tasks']

\* Replica l leads and takes a request that will be decided; one that is
\* rejected, or finds nothing to claim, is an entry too.
Decide(l) ==
    /\ Len(log) < MaxLog
    /\ Request(wall[l]) \/ UNCHANGED vars
    /\ log' = Append(log, Entry(wall[l]))
    /\ UNCHANGED <<clock, wall, applied, journal, unlogged, seen>>

\* apply_decided: replica i applies the next entry, and log_decided stamps it.
Apply(i) ==
    /\ applied[i] < Len(log)
    /\ applied' = [applied EXCEPT ![i] = @ + 1]
    /\ journal' = [journal EXCEPT ![i] = Append(@, [slot |-> applied[i] + 1, at |-> wall[i]])]
    /\ UNCHANGED <<vars, log, wall, unlogged, seen>>

Logged(s) == \E j \in Replicas : \E h \in DOMAIN journal[j] : journal[j][h].slot = s

\* become_leader: replica i first applies what the log that it adopts no
\* longer holds, without on_apply_; somebody has logged it before
\* (PaxosReplica's NothingGoesUnlogged).
BecomeLeader(i) ==
    \E n \in (applied[i] + 1)..Len(log) :
       /\ \A s \in (applied[i] + 1)..n : Logged(s)
       /\ applied' = [applied EXCEPT ![i] = n]
       /\ unlogged' = [unlogged EXCEPT ![i] = @ \cup (applied[i] + 1)..n]
       /\ UNCHANGED <<vars, log, wall, journal, seen>>

\* A second passes at replica i; no clock runs away from another.
TimePasses(i) ==
    /\ \A j \in Replicas \ {i} : wall[i] < wall[j] + MaxSkew
    /\ \/ wall[i] = clock /\ Tick
       \/ wall[i] < clock /\ UNCHANGED vars
    /\ wall' = [wall EXCEPT ![i] = @ + 1]
    /\ seen' = [seen EXCEPT ![i] = Append(@, applied[i])]
    /\ UNCHANGED <<log, applied, journal, unlogged>>

RNext == \E i \in Replicas : Decide(i) \/ Apply(i) \/ BecomeLeader(i) \/ TimePasses(i)

RSpec == RInit /\ [][RNext]_rvars

-----------------------------------------------------------------------------
(* tm-replay, of the logs as they are.                                     *)

\* Replica 1 stands for the first -L, whose entries are the event stream.
Steps == 1..Len(journal[1])

Stamp(k) == log[journal[1][k].slot].now

\* Mutant: entries are replayed when they were stamped.
Replayed_Stamped(i, k) ==
    {j \in DOMAIN journal[i] :
        \A h \in 1..j : \E l \in 1..k : log[journal[i][h].slot].now <= Stamp(l)}

\* The entries of i's log that advance_replica_to has replayed after step k:
\* it stops at the first that is too late for this and every earlier step.
Replayed(i, k) ==
    {j \in DOMAIN journal[i] : \A h \in 1..j : \E l \in 1..k : journal[i][h].at <= Stamp(l)}

Shown(i, k) == {journal[i][j].slot : j \in Replayed(i, k)}

\* The leader's state machine, replaying a first log without a hole up to k.
Gapless(k) == \A j \in 1..k : journal[1][j].slot = j

TasksAfter(n) == IF n = 0 THEN <<>> ELSE log[n].tasks

Owner(i, n) == IF i \in DOMAIN TasksAfter(n) THEN TasksAfter(n)[i].agent ELSE NoAgent

\* Mutant: any task with an owner that it did not have is a handover.
Reclaims_Any(k) == {i \in DOMAIN TasksAfter(k) : Owner(i, k) \notin {NoAgent, Owner(i, k - 1)}}

\* The lease_reclaim events of step k.
Reclaims(k) ==
    {i \in DOMAIN TasksAfter(k) :
        Owner(i, k - 1) # NoAgent /\ Owner(i, k) \notin {NoAgent, Owner(i, k - 1)}}

-----------------------------------------------------------------------------
(* Properties.                                                             *)

\* "What does replica i think the world looks like at wall-clock time T?":
\* T is the latest stamp so far, not the step's own where the lead passed to
\* a slower clock, and what is shown of a replica are the entries that it
\* had applied when its own clock left second T, however far it lagged
\* behind -- but for those that it applied unlogged as it became leader.
SnapshotsAreHonest ==
    \A k \in Steps : \A m \in 1..k : \A i \in Replicas :
       (\A l \in 1..k : Stamp(l) <= Stamp(m)) /\ Stamp(m) < Len(seen[i])
       => Shown(i, k) = (1..seen[i][Stamp(m) + 1]) \ unlogged[i]

\* As long as the first log has no hole, a lease_reclaim event is what it
\* says: the task passed from one agent to another, and by the stamp of the
\* claim its lease had lapsed; and only a lease that an agent takes over
\* from itself is missed.
ReclaimsAreTrue ==
    \A k \in Steps : Gapless(k) =>
       \A i \in DOMAIN TasksAfter(k - 1) :
          LET old == TasksAfter(k - 1)[i]
              new == TasksAfter(k)[i]
          IN  i \in Reclaims(k)
              <=> /\ old.token # NoToken /\ new.token \notin {NoToken, old.token}
                  /\ LeaseExpired(old, Stamp(k))
                  /\ old.agent # new.agent
=============================================================================
