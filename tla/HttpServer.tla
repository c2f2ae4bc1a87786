----------------------------- MODULE HttpServer -----------------------------
(***************************************************************************)
(* tm-server's handle(): a client posts a request to any replica, a        *)
(* replica that does not lead redirects it (307) to the one it takes for   *)
(* the leader, and the client follows.  The leader puts the request to     *)
(* Paxos, waits until it is decided and applied, and answers.              *)
(*                                                                         *)
(* Who leads changes as PaxosReplica lets it: for a while replicas may     *)
(* take one another for the leader in a circle.  A request whose replica   *)
(* has lost the lead may be decided later, by another leader, or be        *)
(* overwritten; what becomes of its caller is what PaxosReplica and        *)
(* PaxosFailover show of such calls.  Of the task manager only the main    *)
(* lock matters, which answers busy as "not leader" does.                  *)
(***************************************************************************)
EXTENDS Naturals

CONSTANTS
    N,          \* the number of replicas
    Clients,
    MaxChanges, \* bound: changes of leader_index_ at any replica
    MaxDecided  \* bound: decisions of one request that are counted

ASSUME HttpAssumption == N \in Nat \ {0} /\ MaxChanges \in Nat /\ MaxDecided \in Nat \ {0}

VARIABLES
    leader,    \* leader[i]: leader_index() at replica i
    changes,   \* how often leader_index_ has changed
    httpPeers, \* http_peers is not empty
    client,    \* client[c]: how far its request is, where, and the errcode of its response
    holder,    \* the clients that hold the main lock: one or none
    decided    \* history: decided[c]: how often c's request was decided

hvars == <<leader, changes, httpPeers, client, holder, decided>>

Replicas == 0..(N - 1)
Kinds == {"main_lock_acquire", "other"}
Errcs == {"ok", "busy"}

HInit ==
    /\ leader = [i \in Replicas |-> 0] /\ changes = 0
    /\ httpPeers \in BOOLEAN
    /\ client \in [Clients -> [pc : {"idle"}, kind : Kinds, at : {0}, resp : {"ok"}]]
    /\ holder = {} /\ decided = [c \in Clients |-> 0]

Goto(c, pc, i) == client' = [client EXCEPT ![c].pc = pc, ![c].at = i]
Respond(c, pc, errc) == client' = [client EXCEPT ![c].pc = pc, ![c].resp = errc]

-----------------------------------------------------------------------------
Post(c, i) ==
    /\ client[c].pc = "idle"
    /\ Goto(c, "posted", i)
    /\ UNCHANGED <<leader, changes, httpPeers, holder, decided>>

\* Mutant: the redirect goes to the first leader.
ReplyBusy_ToFirst(c, i) ==
    IF httpPeers THEN Goto(c, "posted", 0) ELSE Goto(c, "refused", i)

\* handle() of replica i on errc::busy: redirect_response(), which the client
\* follows at once, or the error itself.
ReplyBusy(c, i) ==
    IF httpPeers THEN Goto(c, "posted", leader[i]) ELSE Goto(c, "refused", i)

\* propose_and_apply() refuses.
HandleAtFollower(c) ==
    LET i == client[c].at IN
    /\ client[c].pc = "posted" /\ leader[i] # i
    /\ ReplyBusy(c, i)
    /\ UNCHANGED <<leader, changes, httpPeers, holder, decided>>

\* propose_and_apply() puts the request into the log and suspends.
HandleAtLeader(c) ==
    LET i == client[c].at IN
    /\ client[c].pc = "posted" /\ leader[i] = i
    /\ Goto(c, "proposed", i)
    /\ UNCHANGED <<leader, changes, httpPeers, holder, decided>>

\* The task manager answers busy.
LockBusy(c) == client[c].kind = "main_lock_acquire" /\ holder \ {c} # {}

\* process_req() of c's request, wherever it is applied first.
ProcessReq(c, pc) ==
    /\ decided' = [decided EXCEPT ![c] = IF @ < MaxDecided THEN @ + 1 ELSE @]
    /\ holder' = IF client[c].kind = "main_lock_acquire" /\ ~LockBusy(c) THEN {c} ELSE holder
    /\ Respond(c, pc, IF LockBusy(c) THEN "busy" ELSE "ok")
    /\ UNCHANGED <<leader, changes, httpPeers>>

\* The replica that has the request leads until it is decided, applies it
\* and fills in the response.
Decide(c) == client[c].pc = "proposed" /\ ProcessReq(c, "resolved")

\* That replica has lost the lead, but a log that holds the request is
\* adopted: it is decided all the same, and applied elsewhere first.
DecideLater(c) == client[c].pc = "deposed" /\ ProcessReq(c, "decided")

Waits(c, from, to) ==
    /\ client[c].pc = from
    /\ Goto(c, to, client[c].at)
    /\ UNCHANGED <<leader, changes, httpPeers, holder, decided>>

\* c's replica applies the request as a follower, and fills in the response.
Apply(c) == Waits(c, "decided", "resolved")

\* c's replica applies the request as it becomes leader: become_leader() does
\* not look for callers, and this one waits for ever.
Forget(c) == Waits(c, "decided", "forgotten")

\* A log without the request is adopted: it is overwritten or cut off.
Lose(c) == Waits(c, "deposed", "lost")

\* c's slot is applied with another request in it, whose response c is given.
AnotherResponse(c) ==
    /\ client[c].pc = "lost"
    /\ \E errc \in Errcs : Respond(c, "resolved", errc)
    /\ UNCHANGED <<leader, changes, httpPeers, holder, decided>>

\* Mutant: a replica that leads no more redirects what it has decided.
Redirects_NotLeading(c) == client[c].resp = "busy" \/ leader[client[c].at] # client[c].at

Redirects(c) == client[c].resp = "busy"

\* handle() goes on with the response.  leader_index() is read only now.
Answer(c) ==
    LET i == client[c].at IN
    /\ client[c].pc = "resolved"
    /\ \/ Redirects(c) /\ ReplyBusy(c, i)
       \/ ~Redirects(c) /\ Goto(c, "answered", i)
    /\ UNCHANGED <<leader, changes, httpPeers, holder, decided>>

Release(c) ==
    /\ c \in holder /\ client[c].pc = "answered"
    /\ holder' = {}
    /\ UNCHANGED <<leader, changes, httpPeers, client, decided>>

\* The lock binds no more: the lease of its holder has run out.
LockLapses ==
    /\ holder # {}
    /\ holder' = {}
    /\ UNCHANGED <<leader, changes, httpPeers, client, decided>>

\* Replica i learns of another leader, or leads; a leader steps down.
ChangeLeader(i, l) ==
    /\ changes < MaxChanges /\ leader[i] # l
    /\ leader' = [leader EXCEPT ![i] = l] /\ changes' = changes + 1
    /\ client' = [c \in Clients |->
                    IF client[c].pc = "proposed" /\ client[c].at = i
                    THEN [client[c] EXCEPT !.pc = "deposed"] ELSE client[c]]
    /\ UNCHANGED <<httpPeers, holder, decided>>

\* What becomes of a request once it was posted.
Proceed(c) ==
    \/ HandleAtFollower(c) \/ HandleAtLeader(c)
    \/ Decide(c) \/ DecideLater(c) \/ Lose(c) \/ Apply(c) \/ Forget(c)
    \/ Answer(c) \/ Release(c)

HNext ==
    \/ \E c \in Clients : (\E i \in Replicas : Post(c, i)) \/ Proceed(c) \/ AnotherResponse(c)
    \/ LockLapses
    \/ \E i, l \in Replicas : ChangeLeader(i, l)

\* In the end one replica leads and all others, none of them cut off, follow
\* it (LeaderEmerges of PaxosFailover).  Then a request is decided or is in
\* no log, and a follower applies what is decided (ReachableReplicasCatchUp,
\* NoCallForgotten); servers and clients go on; and the lock comes free
\* although its holder never releases it (LockNeverStuck of Swarm).
Settled == \E l \in Replicas : \A i \in Replicas : leader[i] = l
Fairness ==
    /\ <>[]Settled
    /\ \A c \in Clients : WF_hvars(Proceed(c))
    /\ WF_hvars(LockLapses)

HSpec == HInit /\ [][HNext]_hvars /\ Fairness

-----------------------------------------------------------------------------
(* Properties.                                                             *)

\* Following a redirect repeats nothing: a request that was decided with an
\* effect is not put to Paxos again, though its leader may have changed
\* between the decision and the answer.
RedirectsRepeatNothing ==
    \A c \in Clients :
       decided[c] > 0 /\ client[c].pc \in {"posted", "proposed", "deposed"}
       => client[c].kind = "main_lock_acquire" /\ c \notin holder

\* Wherever a client posts and however the replicas point at one another
\* meanwhile, its request comes to a leader, and is answered -- unless the
\* replica that took it lost the lead over it, and the request with it, or
\* applied it unnoticed as it came to lead again.
EveryPostIsAnswered ==
    \A c \in Clients :
       client[c].pc = "posted" ~> client[c].pc \in {"answered", "refused", "lost", "forgotten"}
=============================================================================
