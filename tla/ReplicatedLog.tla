--------------------------- MODULE ReplicatedLog ---------------------------
(***************************************************************************)
(* What the replicas promise together (PLAN.md goal 1, "a replicated state *)
(* machine"): there is one log of requests; each replica has executed some *)
(* prefix of it, which only grows; a request is decided when the first     *)
(* replica executes it, and it is decided once.                            *)
(***************************************************************************)
EXTENDS Integers, Sequences

CONSTANTS
    Nodes,  \* the replicas
    Values  \* the requests

VARIABLES
    log,      \* the decided requests, in order
    executed  \* executed[n]: the requests that n has executed, in order

Init ==
    /\ log = <<>>
    /\ executed = [n \in Nodes |-> <<>>]

\* A node executes what others have executed before it, up to slot k.
CatchUp(n) ==
    \E k \in (Len(executed[n]) + 1)..Len(log) :
        /\ executed' = [executed EXCEPT ![n] = SubSeq(log, 1, k)]
        /\ UNCHANGED log

\* New requests are decided: a node executes them, after all before them.
Decide ==
    /\ Len(log') > Len(log)
    /\ SubSeq(log', 1, Len(log)) = log
    /\ \A k, l \in DOMAIN log' : k # l => log'[k] # log'[l]
    /\ \A k \in DOMAIN log' : log'[k] \in Values
    /\ \E n \in Nodes : executed' = [executed EXCEPT ![n] = log']

Next == Decide \/ \E n \in Nodes : CatchUp(n)

Spec == Init /\ [][Next]_<<log, executed>>
=============================================================================
