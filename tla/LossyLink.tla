----------------------------- MODULE LossyLink -----------------------------
(***************************************************************************)
(* What pt_paxos_replica relies on when it sends to one peer through a     *)
(* transport (transport.hh), be it sim_transport or tcp_transport: a       *)
(* message arrives at most once, whole, in the order of the sends, or not  *)
(* at all.  This is a link net[i][j] of PaxosReplica, but for the time at  *)
(* which a message is lost.                                                *)
(***************************************************************************)
EXTENDS Naturals, Sequences

CONSTANT Messages

VARIABLES
    sent,     \* the messages, in the order of the sends
    received  \* the positions in sent of those that were received, in order

lvars == <<sent, received>>

LInit == sent = <<>> /\ received = <<>>

Send(m) == sent' = Append(sent, m) /\ UNCHANGED received

\* Those that are passed over are lost.
Receive(k) ==
    /\ \A n \in DOMAIN received : received[n] < k
    /\ received' = Append(received, k)
    /\ UNCHANGED sent

LNext == (\E m \in Messages : Send(m)) \/ (\E k \in DOMAIN sent : Receive(k))

LSpec == LInit /\ [][LNext]_lvars
=============================================================================
