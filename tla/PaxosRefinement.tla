-------------------------- MODULE PaxosRefinement --------------------------
(***************************************************************************)
(* The replicas of PaxosReplica implement the replicated log of            *)
(* ReplicatedLog: the log is what the replica that is furthest ahead has   *)
(* applied to its db, and a replica has executed as much as it applied.    *)
(***************************************************************************)
EXTENDS PaxosReplica

\* The longest of the replicas' dbs.
Dbs == {rep[i].db : i \in Replicas}
LongestDb == CHOOSE d \in Dbs : \A e \in Dbs : Len(e) <= Len(d)

RL == INSTANCE ReplicatedLog WITH
        Nodes <- Replicas,
        Values <- Requests,
        log <- LongestDb,
        executed <- [i \in Replicas |-> rep[i].db]

\* One replicated state machine (PLAN.md goal 1): no step of a replica, over
\* all losses, retransmissions and elections, replaces or takes back a
\* decided request, applies one twice, or applies two different requests in
\* the same place; and a step changes what one replica has applied.
ImplementsReplicatedLog == RL!Spec
=============================================================================
