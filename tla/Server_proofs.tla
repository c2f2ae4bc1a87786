---------------------------- MODULE Server_proofs ----------------------------
(***************************************************************************)
(* The two ends of a client's request.  Redirects repeat nothing, for any  *)
(* number of replicas, clients and changes of leader (HttpServer); and     *)
(* what parse_request reads is what to_json_request_body wrote or a client *)
(* sent, for every request (Wire).                                         *)
(***************************************************************************)
EXTENDS HttpServer, Wire, TLAPS

-----------------------------------------------------------------------------
(* Redirects.                                                              *)

Places ==
    {"posted", "proposed", "deposed", "decided", "lost", "resolved", "forgotten", "answered", "refused"}

ClientRecord == [pc : {"idle"} \cup Places, kind : Kinds, at : Replicas, resp : Errcs]

HTypes ==
    /\ leader \in [Replicas -> Replicas]
    /\ client \in [Clients -> ClientRecord]
    /\ decided \in [Clients -> Nat]

\* The progress of c's request: nothing was decided before it was posted; who
\* holds the lock has got it, answered or not; and only a busy lock brings a
\* request that was decided back to a server, or leaves it to be lost.
Progress(c) ==
    /\ client[c].pc = "idle" => decided[c] = 0
    /\ c \in holder
       => client[c].resp = "ok" /\ client[c].pc \in {"decided", "resolved", "forgotten", "answered"}
    /\ decided[c] > 0 /\ client[c].pc \in {"posted", "proposed", "deposed", "lost"}
       => client[c].kind = "main_lock_acquire"
    /\ decided[c] > 0 /\ client[c].resp = "busy" /\ client[c].pc \in {"decided", "resolved"}
       => client[c].kind = "main_lock_acquire"

HInv == HTypes /\ \A c \in Clients : Progress(c)

\* Only c's record changes, and in it not what is asked.
OnlyMoves(c) ==
    /\ client' \in [Clients -> ClientRecord]
    /\ client'[c].kind = client[c].kind
    /\ \A d \in Clients \ {c} : client'[d] = client[d]

\* Goto moves one client, and leaves its request what it is.
LEMMA GotoMoves ==
    ASSUME HTypes, NEW c \in Clients, NEW i \in Replicas, NEW pc \in Places, Goto(c, pc, i)
    PROVE  OnlyMoves(c) /\ client'[c].pc = pc /\ client'[c].resp = client[c].resp
<1>1. client[c] \in ClientRecord /\ client' = [client EXCEPT ![c] = [@ EXCEPT !.pc = pc, !.at = i]]
  BY DEF HTypes, Goto
<1>2. /\ [client[c] EXCEPT !.pc = pc, !.at = i] \in ClientRecord
      /\ [client[c] EXCEPT !.pc = pc, !.at = i].pc = pc
      /\ [client[c] EXCEPT !.pc = pc, !.at = i].kind = client[c].kind
      /\ [client[c] EXCEPT !.pc = pc, !.at = i].resp = client[c].resp
  BY <1>1 DEF ClientRecord
<1> QED
  BY <1>1, <1>2 DEF HTypes, OnlyMoves

\* Nor does a response move more.
LEMMA RespMoves ==
    ASSUME HTypes, NEW c \in Clients, NEW pc \in Places, NEW errc \in Errcs, Respond(c, pc, errc)
    PROVE  OnlyMoves(c) /\ client'[c].pc = pc /\ client'[c].resp = errc
<1>1. /\ client[c] \in ClientRecord
      /\ client' = [client EXCEPT ![c] = [@ EXCEPT !.pc = pc, !.resp = errc]]
  BY DEF HTypes, Respond
<1>2. /\ [client[c] EXCEPT !.pc = pc, !.resp = errc] \in ClientRecord
      /\ [client[c] EXCEPT !.pc = pc, !.resp = errc].pc = pc
      /\ [client[c] EXCEPT !.pc = pc, !.resp = errc].kind = client[c].kind
      /\ [client[c] EXCEPT !.pc = pc, !.resp = errc].resp = errc
  BY <1>1 DEF ClientRecord
<1> QED
  BY <1>1, <1>2 DEF HTypes, OnlyMoves

\* A busy answer sends the client on to a replica, or away.
LEMMA BusyMoves ==
    ASSUME HTypes, NEW c \in Clients, NEW i \in Replicas, ReplyBusy(c, i)
    PROVE  OnlyMoves(c) /\ client'[c].pc \in {"posted", "refused"}
<1>1. CASE httpPeers
  <2>1. Goto(c, "posted", leader[i]) /\ leader[i] \in Replicas
    BY <1>1 DEF ReplyBusy, HTypes
  <2> QED
    BY <2>1, GotoMoves DEF Places
<1>2. CASE ~httpPeers
  <2>1. Goto(c, "refused", i)
    BY <1>2 DEF ReplyBusy
  <2> QED
    BY <2>1, GotoMoves DEF Places
<1> QED
  BY <1>1, <1>2

\* A step that moves c alone, gives the lock to nobody else, and keeps the
\* progress of c's request, keeps the invariant.
LEMMA OneClientMoves ==
    ASSUME HInv, NEW c \in Clients, OnlyMoves(c), leader' = leader, decided' \in [Clients -> Nat],
           holder' \subseteq holder \cup {c}, \A d \in Clients \ {c} : decided'[d] = decided[d],
           Progress(c)'
    PROVE  HInv'
<1>1. HTypes'
  BY DEF HInv, HTypes, OnlyMoves
<1>2. ASSUME NEW d \in Clients \ {c}
      PROVE  Progress(d)'
  <2>1. Progress(d) /\ client'[d] = client[d] /\ decided'[d] = decided[d] /\ (d \in holder' => d \in holder)
    BY DEF HInv, OnlyMoves
  <2> QED
    BY <2>1 DEF Progress
<1> QED
  BY <1>1, <1>2 DEF HInv

\* The initial state.
LEMMA InitHInv == HInit => HInv
<1> SUFFICES ASSUME HInit
             PROVE  HInv
  OBVIOUS
<1>1. 0 \in Replicas
  BY HttpAssumption DEF Replicas
<1>2. \A c \in Clients : client[c] \in [pc : {"idle"}, kind : Kinds, at : {0}, resp : {"ok"}]
  BY DEF HInit
<1>3. [pc : {"idle"}, kind : Kinds, at : {0}, resp : {"ok"}] \subseteq ClientRecord
  BY <1>1 DEF ClientRecord, Errcs
<1>4. HTypes
  BY <1>1, <1>3 DEF HInit, HTypes
<1>5. ASSUME NEW c \in Clients
      PROVE  Progress(c)
  BY <1>2 DEF HInit, Progress
<1> QED
  BY <1>4, <1>5 DEF HInv

\* Applying c's request first keeps the invariant: the lock is taken only
\* with the answer ok, and the answer is busy only for the lock.
LEMMA ProcessKeeps ==
    ASSUME HInv, NEW c \in Clients, client[c].pc \in {"proposed", "deposed"},
           NEW pc \in {"decided", "resolved"}, ProcessReq(c, pc)
    PROVE  HInv'
<1>1. HTypes /\ Progress(c) /\ leader' = leader
  BY DEF HInv, ProcessReq
<1>2. decided' \in [Clients -> Nat] /\ \A d \in Clients \ {c} : decided'[d] = decided[d]
  <2>1. decided' = [decided EXCEPT ![c] = IF @ < MaxDecided THEN @ + 1 ELSE @]
    BY DEF ProcessReq
  <2> QED
    BY <1>1, <2>1 DEF HTypes
<1> DEFINE errc == IF LockBusy(c) THEN "busy" ELSE "ok"
<1>3. OnlyMoves(c) /\ client'[c].pc = pc /\ client'[c].resp = errc
  <2>1. errc \in Errcs /\ pc \in Places
    BY DEF Errcs, Places
  <2>2. Respond(c, pc, errc)
    BY DEF ProcessReq
  <2> HIDE DEF errc
  <2> QED
    BY <1>1, <2>1, <2>2, RespMoves
<1>4. c \notin holder
  BY <1>1 DEF Progress
<1>5. holder' \subseteq holder \cup {c} /\ (c \in holder' => errc = "ok")
  BY <1>4 DEF ProcessReq
<1>6. errc = "busy" => client[c].kind = "main_lock_acquire"
  BY DEF LockBusy
<1>7. Progress(c)'
  <2> HIDE DEF errc
  <2> QED
    BY <1>3, <1>5, <1>6 DEF Progress, OnlyMoves
<1> QED
  BY <1>1, <1>2, <1>3, <1>5, <1>7, OneClientMoves

\* Every step of a request that was posted keeps the invariant.
LEMMA ProceedKeeps ==
    ASSUME HInv, NEW c \in Clients, Proceed(c)
    PROVE  HInv'
<1> DEFINE i == client[c].at
<1>1. HTypes /\ Progress(c) /\ i \in Replicas /\ decided \in [Clients -> Nat]
  BY DEF HInv, HTypes, ClientRecord
<1>2. CASE HandleAtFollower(c)
  <2>1. /\ client[c].pc = "posted" /\ ReplyBusy(c, i)
        /\ leader' = leader /\ holder' = holder /\ decided' = decided
    BY <1>2 DEF HandleAtFollower
  <2>2. OnlyMoves(c) /\ client'[c].pc \in {"posted", "refused"}
    BY <1>1, <2>1, BusyMoves
  <2>3. Progress(c)'
    BY <1>1, <2>1, <2>2 DEF Progress, OnlyMoves
  <2> QED
    BY <1>1, <2>1, <2>2, <2>3, OneClientMoves
<1>3. CASE HandleAtLeader(c)
  <2>1. /\ client[c].pc = "posted" /\ Goto(c, "proposed", i)
        /\ leader' = leader /\ holder' = holder /\ decided' = decided
    BY <1>3 DEF HandleAtLeader
  <2>2. OnlyMoves(c) /\ client'[c].pc = "proposed"
    BY <1>1, <2>1, GotoMoves DEF Places
  <2>3. Progress(c)'
    BY <1>1, <2>1, <2>2 DEF Progress, OnlyMoves
  <2> QED
    BY <1>1, <2>1, <2>2, <2>3, OneClientMoves
<1>4. CASE Decide(c) \/ DecideLater(c)
  BY <1>4, ProcessKeeps DEF Decide, DecideLater
<1>5. CASE Lose(c)
  <2>1. /\ client[c].pc = "deposed" /\ Goto(c, "lost", i)
        /\ leader' = leader /\ holder' = holder /\ decided' = decided
    BY <1>5 DEF Lose, Waits
  <2>2. OnlyMoves(c) /\ client'[c].pc = "lost"
    BY <1>1, <2>1, GotoMoves DEF Places
  <2>3. Progress(c)'
    BY <1>1, <2>1, <2>2 DEF Progress, OnlyMoves
  <2> QED
    BY <1>1, <2>1, <2>2, <2>3, OneClientMoves
<1>6. CASE Apply(c) \/ Forget(c)
  <2>1. PICK pc \in {"resolved", "forgotten"} : Goto(c, pc, i)
    BY <1>6 DEF Apply, Forget, Waits
  <2>2. client[c].pc = "decided" /\ leader' = leader /\ holder' = holder /\ decided' = decided
    BY <1>6 DEF Apply, Forget, Waits
  <2>3. OnlyMoves(c) /\ client'[c].pc = pc /\ client'[c].resp = client[c].resp
    BY <1>1, <2>1, GotoMoves DEF Places
  <2>4. Progress(c)'
    BY <1>1, <2>1, <2>2, <2>3 DEF Progress, OnlyMoves
  <2> QED
    BY <1>1, <2>2, <2>3, <2>4, OneClientMoves
<1>7. CASE Answer(c)
  <2>1. client[c].pc = "resolved" /\ leader' = leader /\ holder' = holder /\ decided' = decided
    BY <1>7 DEF Answer
  <2>2. CASE Redirects(c) /\ ReplyBusy(c, i)
    <3>1. OnlyMoves(c) /\ client'[c].pc \in {"posted", "refused"}
      BY <1>1, <2>2, BusyMoves
    <3>2. client[c].resp = "busy"
      BY <2>2 DEF Redirects
    <3>3. Progress(c)'
      BY <1>1, <2>1, <3>1, <3>2 DEF Progress, OnlyMoves
    <3> QED
      BY <1>1, <2>1, <3>1, <3>3, OneClientMoves
  <2>3. CASE Goto(c, "answered", i)
    <3>1. OnlyMoves(c) /\ client'[c].pc = "answered" /\ client'[c].resp = client[c].resp
      BY <1>1, <2>3, GotoMoves DEF Places
    <3>2. Progress(c)'
      BY <1>1, <2>1, <3>1 DEF Progress, OnlyMoves
    <3> QED
      BY <1>1, <2>1, <3>1, <3>2, OneClientMoves
  <2> QED
    BY <1>7, <2>2, <2>3 DEF Answer
<1>8. CASE Release(c)
  BY <1>8 DEF Release, HInv, HTypes, Progress
<1> QED
  BY <1>2, <1>3, <1>4, <1>5, <1>6, <1>7, <1>8 DEF Proceed

\* Every step keeps the invariant.
LEMMA StepKeepsHInv ==
    ASSUME HInv, [HNext]_hvars
    PROVE  HInv'
<1>1. ASSUME NEW c \in Clients, NEW i \in Replicas, Post(c, i)
      PROVE  HInv'
  <2>1. /\ HTypes /\ Progress(c) /\ client[c].pc = "idle" /\ Goto(c, "posted", i)
        /\ leader' = leader /\ holder' = holder /\ decided' = decided
    BY <1>1 DEF Post, HInv
  <2>2. OnlyMoves(c) /\ client'[c].pc = "posted"
    BY <2>1, GotoMoves DEF Places
  <2>3. Progress(c)'
    BY <2>1, <2>2 DEF Progress, OnlyMoves
  <2> QED
    BY <2>1, <2>2, <2>3, OneClientMoves DEF HTypes
<1>2. ASSUME NEW c \in Clients, Proceed(c)
      PROVE  HInv'
  BY <1>2, ProceedKeeps
<1>3. ASSUME NEW c \in Clients, AnotherResponse(c)
      PROVE  HInv'
  <2>1. /\ HTypes /\ Progress(c) /\ client[c].pc = "lost"
        /\ leader' = leader /\ holder' = holder /\ decided' = decided
    BY <1>3 DEF AnotherResponse, HInv
  <2>2. PICK errc \in Errcs : Respond(c, "resolved", errc)
    BY <1>3 DEF AnotherResponse
  <2>3. OnlyMoves(c) /\ client'[c].pc = "resolved"
    BY <2>1, <2>2, RespMoves DEF Places
  <2>4. Progress(c)'
    BY <2>1, <2>3 DEF Progress, OnlyMoves
  <2> QED
    BY <2>1, <2>3, <2>4, OneClientMoves DEF HTypes
<1>4. CASE LockLapses
  BY <1>4 DEF LockLapses, HInv, HTypes, Progress
<1>5. ASSUME NEW i \in Replicas, NEW l \in Replicas, ChangeLeader(i, l)
      PROVE  HInv'
  <2>1. /\ HTypes /\ leader' = [leader EXCEPT ![i] = l] /\ holder' = holder /\ decided' = decided
    BY <1>5 DEF ChangeLeader, HInv
  <2>2. ASSUME NEW c \in Clients
        PROVE  /\ client'[c] \in ClientRecord
               /\ Progress(c)'
    <3>1. client[c] \in ClientRecord /\ Progress(c)
      BY DEF HInv, HTypes
    <3>2. CASE client'[c] = client[c]
      BY <2>1, <3>1, <3>2 DEF Progress
    <3>3. CASE client[c].pc = "proposed" /\ client'[c] = [client[c] EXCEPT !.pc = "deposed"]
      <4>1. /\ client'[c] \in ClientRecord /\ client'[c].pc = "deposed"
            /\ client'[c].kind = client[c].kind
        BY <3>1, <3>3 DEF ClientRecord, Places
      <4> QED
        BY <2>1, <3>1, <3>3, <4>1 DEF Progress
    <3> QED
      BY <1>5, <3>2, <3>3 DEF ChangeLeader
  <2>3. client' \in [Clients -> ClientRecord]
    <3>1. client' = [c \in Clients |-> client'[c]]
      BY <1>5 DEF ChangeLeader
    <3> QED
      BY <2>2, <3>1
  <2> QED
    BY <2>1, <2>2, <2>3 DEF HInv, HTypes
<1>6. CASE UNCHANGED hvars
  BY <1>6 DEF hvars, HInv, HTypes, Progress
<1> QED
  BY <1>1, <1>2, <1>3, <1>4, <1>5, <1>6 DEF HNext

\* A request that was decided with an effect is not put to Paxos again, however
\* often the leader changes between a decision and its answer.
THEOREM NothingIsRepeated == HSpec => []RedirectsRepeatNothing
<1>1. HInit => HInv
  BY InitHInv
<1>2. HInv /\ [HNext]_hvars => HInv'
  BY StepKeepsHInv
<1>3. HInv => RedirectsRepeatNothing
  BY DEF HInv, Progress, RedirectsRepeatNothing
<1> QED
  BY <1>1, <1>2, <1>3, PTL DEF HSpec

-----------------------------------------------------------------------------
(* Conversions.                                                            *)

Enums == {"type", "prefer_type", "filter_status"}

\* What is not written of field f of a message of type p is what is read for
\* it, which is a value, and has no task_spec in it.
Agrees(p, f) ==
    /\ Write(p)[f] = Always \/ (Write(p)[f] = Read(p)[f] /\ Read(p)[f] # Refused)
    /\ f = "spec" => Write(p)[f] = Always
    /\ f = "new_children" => Read(p)[f] = <<>>

\* v is a value that field f may hold.
Fits(p, f, v) ==
    /\ v # Always
    /\ f \in Enums => v = Write(p)[f] \/ (v \in 0..3 /\ v + 1 \in DOMAIN Names(f))
    /\ f = "spec" => v \in Specs
    /\ f = "new_children" => v \in Lists

\* Both tables fit the message that r is.
Tables(p, r) ==
    /\ DOMAIN Write(p) = DOMAIN Read(p)
    /\ r = [f \in DOMAIN Read(p) |-> r[f]]
    /\ \A f \in DOMAIN Read(p) : Agrees(p, f) /\ Fits(p, f, r[f])

\* Refused is none of the defaults.
LEMMA RefusedIsAMark == Refused # Unset /\ Refused # FALSE /\ Refused # <<>>
  BY WireAssumption

\* The names of an enum differ, so that the name is read as the value it was
\* written for.
LEMMA NamesTellApart ==
    ASSUME NEW f \in Enums, NEW v \in 0..3, v + 1 \in DOMAIN Names(f)
    PROVE  FromName(f, ToName(f, v)) = v
<1>1. \A n \in 0..3 : n + 1 \in DOMAIN Names(f) /\ Names(f)[n + 1] = Names(f)[v + 1] => n = v
  BY DEF Names, TypeNames, StatusNames
<1> QED
  BY <1>1 DEF FromName, ToName, Enums

\* The tables of a task_spec.
LEMMA SpecTables ==
    ASSUME NEW s \in Specs
    PROVE  Tables("spec", s)
<1>1. s \in [type : 0..2, title : Strings, prompt : Strings, requires : Seq(Strings), depth : Int,
           parent_id : Maybe(Strings), branch_base : Maybe(Strings),
           implement_branch_sha : Maybe(Strings)]
  BY WireAssumption
<1>2. DOMAIN Write("spec") = DOMAIN Read("spec") /\ s = [f \in DOMAIN Read("spec") |-> s[f]]
  BY <1>1 DEF Read, Write
<1>3. ASSUME NEW f \in DOMAIN Read("spec")
      PROVE  Agrees("spec", f)
  <2>1. \/ f \in {"type", "title", "prompt", "requires", "depth"}
        \/ f \in {"parent_id", "branch_base", "implement_branch_sha"}
    BY DEF Read
  <2>2. f \in {"type", "title", "prompt", "requires", "depth"} => Write("spec")[f] = Always
    BY DEF Write
  <2>3. f \in {"parent_id", "branch_base", "implement_branch_sha"} => Write("spec")[f] = Unset
    BY DEF Write
  <2>4. /\ Read("spec").parent_id = Unset /\ Read("spec").branch_base = Unset
        /\ Read("spec").implement_branch_sha = Unset
    BY DEF Read
  <2> QED
    BY <2>1, <2>2, <2>3, <2>4, RefusedIsAMark DEF Agrees
<1>4. ASSUME NEW f \in DOMAIN Read("spec")
      PROVE  Fits("spec", f, s[f])
  <2>1. s[f] # Always
    BY <1>1, WireAssumption DEF Read, Maybe
  <2>2. f \in Enums => f = "type"
    BY DEF Read, Enums
  <2>3. s.type \in 0..3 /\ s.type + 1 \in DOMAIN Names("type")
    BY <1>1 DEF Names, TypeNames
  <2>4. f # "spec" /\ f # "new_children"
    BY DEF Read
  <2> QED
    BY <2>1, <2>2, <2>3, <2>4 DEF Fits
<1> QED
  BY <1>2, <1>3, <1>4 DEF Tables

\* The tables of each type of request.
LEMMA RequestTables ==
    ASSUME NEW p \in Paths, NEW r \in RequestsOf(p)
    PROVE  Tables(p, r)
<1>1. CASE p = "/task_create"
  <2>1. r \in [serial : Serials, agent_id : Strings, spec : Specs, creator_task : Maybe(Strings),
              creator_token : Maybe(Tokens)]
    BY <1>1 DEF RequestsOf
  <2>2. DOMAIN Write(p) = DOMAIN Read(p) /\ r = [f \in DOMAIN Read(p) |-> r[f]]
    BY <1>1, <2>1 DEF Read, Write
  <2>3. Write(p).serial = Always /\ Write(p).agent_id = Always /\ Write(p).spec = Always
    BY <1>1 DEF Write
  <2>4. /\ Write(p).creator_task = Unset /\ Read(p).creator_task = Unset
        /\ Write(p).creator_token = Unset /\ Read(p).creator_token = Unset
    BY <1>1 DEF Read, Write
  <2>5. DOMAIN Read(p) = {"serial", "agent_id", "spec", "creator_task", "creator_token"}
    BY <1>1 DEF Read
  <2>6. ASSUME NEW f \in DOMAIN Read(p)
        PROVE  Agrees(p, f)
    BY <2>3, <2>4, <2>5, RefusedIsAMark DEF Agrees
  <2>7. ASSUME NEW f \in DOMAIN Read(p)
        PROVE  Fits(p, f, r[f])
    BY <2>1, <2>4, <2>5, WireAssumption DEF Fits, Maybe, Enums, Names, TypeNames, StatusNames
  <2> QED
    BY <2>2, <2>6, <2>7 DEF Tables
<1>2. CASE p = "/task_claim"
  <2>1. r \in [serial : Serials, agent_id : Strings, prefer_type : Maybe(0..2)]
    BY <1>2 DEF RequestsOf
  <2>2. DOMAIN Write(p) = DOMAIN Read(p) /\ r = [f \in DOMAIN Read(p) |-> r[f]]
    BY <1>2, <2>1 DEF Read, Write
  <2>3. Write(p).serial = Always /\ Write(p).agent_id = Always
    BY <1>2 DEF Write
  <2>4. /\ Write(p).prefer_type = Unset /\ Read(p).prefer_type = Unset
    BY <1>2 DEF Read, Write
  <2>5. DOMAIN Read(p) = {"serial", "agent_id", "prefer_type"}
    BY <1>2 DEF Read
  <2>6. ASSUME NEW f \in DOMAIN Read(p)
        PROVE  Agrees(p, f)
    BY <2>3, <2>4, <2>5, RefusedIsAMark DEF Agrees
  <2>7. ASSUME NEW f \in DOMAIN Read(p)
        PROVE  Fits(p, f, r[f])
    BY <2>1, <2>4, <2>5, WireAssumption DEF Fits, Maybe, Enums, Names, TypeNames, StatusNames
  <2> QED
    BY <2>2, <2>6, <2>7 DEF Tables
<1>3. CASE p = "/task_complete"
  <2>1. r \in [serial : Serials, agent_id : Strings, id : Strings, token : Tokens,
              result_branch : Maybe(Strings), result_summary : Strings, new_children : Lists]
    BY <1>3 DEF RequestsOf
  <2>2. DOMAIN Write(p) = DOMAIN Read(p) /\ r = [f \in DOMAIN Read(p) |-> r[f]]
    BY <1>3, <2>1 DEF Read, Write
  <2>3. Write(p).serial = Always /\ Write(p).agent_id = Always /\ Write(p).id = Always /\ Write(p).token = Always /\ Write(p).result_summary = Always
    BY <1>3 DEF Write
  <2>4. /\ Write(p).result_branch = Unset /\ Read(p).result_branch = Unset
        /\ Write(p).new_children = <<>> /\ Read(p).new_children = <<>>
    BY <1>3 DEF Read, Write
  <2>5. DOMAIN Read(p) = {"serial", "agent_id", "id", "token", "result_summary", "result_branch", "new_children"}
    BY <1>3 DEF Read
  <2>6. ASSUME NEW f \in DOMAIN Read(p)
        PROVE  Agrees(p, f)
    BY <2>3, <2>4, <2>5, RefusedIsAMark DEF Agrees
  <2>7. ASSUME NEW f \in DOMAIN Read(p)
        PROVE  Fits(p, f, r[f])
    BY <2>1, <2>4, <2>5, WireAssumption DEF Fits, Maybe, Enums, Names, TypeNames, StatusNames
  <2> QED
    BY <2>2, <2>6, <2>7 DEF Tables
<1>4. CASE p = "/task_list"
  <2>1. r \in [serial : Serials, agent_id : Strings, filter_status : Maybe(0..3),
              only_mine : BOOLEAN]
    BY <1>4 DEF RequestsOf
  <2>2. DOMAIN Write(p) = DOMAIN Read(p) /\ r = [f \in DOMAIN Read(p) |-> r[f]]
    BY <1>4, <2>1 DEF Read, Write, WriteList
  <2>3. Write(p).serial = Always /\ Write(p).agent_id = Always
    BY <1>4 DEF Write, WriteList
  <2>4. /\ Write(p).filter_status = Unset /\ Read(p).filter_status = Unset
        /\ Write(p).only_mine = FALSE /\ Read(p).only_mine = FALSE
    BY <1>4 DEF Read, Write, WriteList
  <2>5. DOMAIN Read(p) = {"serial", "agent_id", "filter_status", "only_mine"}
    BY <1>4 DEF Read
  <2>6. ASSUME NEW f \in DOMAIN Read(p)
        PROVE  Agrees(p, f)
    BY <2>3, <2>4, <2>5, RefusedIsAMark DEF Agrees
  <2>7. ASSUME NEW f \in DOMAIN Read(p)
        PROVE  Fits(p, f, r[f])
    BY <2>1, <2>4, <2>5, WireAssumption DEF Fits, Maybe, Enums, Names, TypeNames, StatusNames
  <2> QED
    BY <2>2, <2>6, <2>7 DEF Tables
<1>5. CASE p = "/task_heartbeat"
  <2>1. r \in [serial : Serials, agent_id : Strings, id : Strings, token : Tokens]
    BY <1>5 DEF RequestsOf
  <2>2. DOMAIN Write(p) = DOMAIN Read(p) /\ r = [f \in DOMAIN Read(p) |-> r[f]]
    BY <1>5, <2>1 DEF Read, Write
  <2>3. ASSUME NEW f \in DOMAIN Read(p)
        PROVE  Agrees(p, f)
    BY <1>5, <2>2 DEF Write, Agrees
  <2>4. ASSUME NEW f \in DOMAIN Read(p)
        PROVE  Fits(p, f, r[f])
    BY <1>5, <2>1, <2>2, WireAssumption DEF Write, Fits, Enums
  <2> QED
    BY <2>2, <2>3, <2>4 DEF Tables
<1>6. CASE p = "/task_fail"
  <2>1. r \in [serial : Serials, agent_id : Strings, id : Strings, token : Tokens, reason : Strings]
    BY <1>6 DEF RequestsOf
  <2>2. DOMAIN Write(p) = DOMAIN Read(p) /\ r = [f \in DOMAIN Read(p) |-> r[f]]
    BY <1>6, <2>1 DEF Read, Write
  <2>3. ASSUME NEW f \in DOMAIN Read(p)
        PROVE  Agrees(p, f)
    BY <1>6, <2>2 DEF Write, Agrees
  <2>4. ASSUME NEW f \in DOMAIN Read(p)
        PROVE  Fits(p, f, r[f])
    BY <1>6, <2>1, <2>2, WireAssumption DEF Write, Fits, Enums
  <2> QED
    BY <2>2, <2>3, <2>4 DEF Tables
<1>7. CASE p = "/main_lock_acquire"
  <2>1. r \in [serial : Serials, agent_id : Strings, merge_task : Strings, merge_token : Tokens]
    BY <1>7 DEF RequestsOf
  <2>2. DOMAIN Write(p) = DOMAIN Read(p) /\ r = [f \in DOMAIN Read(p) |-> r[f]]
    BY <1>7, <2>1 DEF Read, Write
  <2>3. ASSUME NEW f \in DOMAIN Read(p)
        PROVE  Agrees(p, f)
    BY <1>7, <2>2 DEF Write, Agrees
  <2>4. ASSUME NEW f \in DOMAIN Read(p)
        PROVE  Fits(p, f, r[f])
    BY <1>7, <2>1, <2>2, WireAssumption DEF Write, Fits, Enums
  <2> QED
    BY <2>2, <2>3, <2>4 DEF Tables
<1>8. CASE p = "/main_lock_release"
  <2>1. r \in [serial : Serials, agent_id : Strings, lock_token : Tokens]
    BY <1>8 DEF RequestsOf
  <2>2. DOMAIN Write(p) = DOMAIN Read(p) /\ r = [f \in DOMAIN Read(p) |-> r[f]]
    BY <1>8, <2>1 DEF Read, Write
  <2>3. ASSUME NEW f \in DOMAIN Read(p)
        PROVE  Agrees(p, f)
    BY <1>8, <2>2 DEF Write, Agrees
  <2>4. ASSUME NEW f \in DOMAIN Read(p)
        PROVE  Fits(p, f, r[f])
    BY <1>8, <2>1, <2>2, WireAssumption DEF Write, Fits, Enums
  <2> QED
    BY <2>2, <2>3, <2>4 DEF Tables
<1>9. CASE p = "/swarm_resume"
  <2>1. r \in [serial : Serials, agent_id : Strings]
    BY <1>9 DEF RequestsOf
  <2>2. DOMAIN Write(p) = DOMAIN Read(p) /\ r = [f \in DOMAIN Read(p) |-> r[f]]
    BY <1>9, <2>1 DEF Read, Write
  <2>3. ASSUME NEW f \in DOMAIN Read(p)
        PROVE  Agrees(p, f)
    BY <1>9, <2>2 DEF Write, Agrees
  <2>4. ASSUME NEW f \in DOMAIN Read(p)
        PROVE  Fits(p, f, r[f])
    BY <1>9, <2>1, <2>2, WireAssumption DEF Write, Fits, Enums
  <2> QED
    BY <2>2, <2>3, <2>4 DEF Tables
<1> QED
  BY <1>1, <1>2, <1>3, <1>4, <1>5, <1>6, <1>7, <1>8, <1>9 DEF Paths

\* No token has a default.
LEMMA TokensHaveNoDefault ==
    ASSUME NEW p \in Paths, NEW f \in TokenFields \cap DOMAIN Read(p)
    PROVE  Read(p)[f] \in {Refused, Unset}
<1>1. p = "/task_create" => f = "creator_token" /\ Read(p).creator_token = Unset
  BY DEF TokenFields, Read
<1>2. p \in {"/task_heartbeat", "/task_complete", "/task_fail"}
      => f = "token" /\ Read(p).token = Refused
  BY DEF TokenFields, Read, Token
<1>3. p = "/main_lock_acquire" => f = "merge_token" /\ Read(p).merge_token = Refused
  BY DEF TokenFields, Read, Token
<1>4. p = "/main_lock_release" => f = "lock_token" /\ Read(p).lock_token = Refused
  BY DEF TokenFields, Read, Token
<1>5. p \notin {"/task_claim", "/task_list", "/swarm_resume"}
  BY DEF TokenFields, Read
<1> QED
  BY <1>1, <1>2, <1>3, <1>4, <1>5 DEF Paths

\* A field that is written is read again,
LEMMA WrittenIsRead ==
    ASSUME NEW p, NEW r, Tables(p, r), NEW f \in DOMAIN Object(p, r)
    PROVE  FromName(f, Object(p, r)[f]) = r[f]
<1>1. f \in DOMAIN Read(p) /\ r[f] # Write(p)[f] /\ Object(p, r)[f] = ToName(f, r[f])
  BY DEF Object, Tables
<1>2. CASE f \in Enums
  <2>1. r[f] \in 0..3 /\ r[f] + 1 \in DOMAIN Names(f)
    BY <1>1, <1>2 DEF Tables, Fits
  <2> QED
    BY <1>1, <1>2, <2>1, NamesTellApart
<1>3. CASE f \notin Enums
  BY <1>1, <1>3 DEF FromName, ToName, Enums
<1> QED
  BY <1>2, <1>3

\* and one that is not written holds what is read for it.
LEMMA UnwrittenIsDefault ==
    ASSUME NEW p, NEW r, Tables(p, r), NEW f \in DOMAIN Read(p), f \notin DOMAIN Object(p, r)
    PROVE  Read(p)[f] = r[f] /\ Read(p)[f] # Refused /\ ReadNested(f, r[f]) = r[f]
<1>1. r[f] = Write(p)[f] /\ r[f] # Always
  BY DEF Object, Tables, Fits
<1>2. Read(p)[f] = r[f] /\ Read(p)[f] # Refused /\ f # "spec"
  BY <1>1 DEF Tables, Agrees
<1>3. f = "new_children" => r[f] = <<>>
  BY <1>2 DEF Tables, Agrees
<1>4. f = "new_children" => ReadNested(f, r[f]) = r[f]
  BY <1>3 DEF ReadNested
<1> QED
  BY <1>2, <1>4 DEF ReadNested

\* A task_spec is read as it was written.
LEMMA SpecKept ==
    ASSUME NEW s \in Specs
    PROVE  Struct("spec", Object("spec", s)) = s
<1>1. Tables("spec", s)
  BY SpecTables
<1>2. ASSUME NEW f \in DOMAIN Read("spec")
      PROVE  (IF f \in DOMAIN Object("spec", s) THEN FromName(f, Object("spec", s)[f])
              ELSE Read("spec")[f]) = s[f]
  BY <1>1, WrittenIsRead, UnwrittenIsDefault
<1>3. Struct("spec", Object("spec", s)) = [f \in DOMAIN Read("spec") |-> s[f]]
  BY <1>2 DEF Struct
<1> QED
  BY <1>1, <1>3 DEF Tables

\* And so are the task_specs inside a request.
LEMMA NestedKept ==
    ASSUME NEW p, NEW f, NEW v, Fits(p, f, v), f \in {"spec", "new_children"}
    PROVE  ReadNested(f, WriteNested(f, v)) = v
<1>1. CASE f = "spec"
  BY <1>1, SpecKept DEF ReadNested, WriteNested, Fits
<1>2. CASE f = "new_children"
  <2>1. v \in Seq(Specs)
    BY <1>2, WireAssumption DEF Fits
  <2>2. ReadNested(f, WriteNested(f, v))
        = [k \in DOMAIN v |-> Struct("spec", Object("spec", v[k]))]
    BY <1>2 DEF ReadNested, WriteNested
  <2>3. \A k \in DOMAIN v : Struct("spec", Object("spec", v[k])) = v[k]
    BY <2>1, SpecKept
  <2>4. ReadNested(f, WriteNested(f, v)) = [k \in DOMAIN v |-> v[k]]
    BY <2>2, <2>3
  <2> QED
    BY <2>1, <2>4
<1> QED
  BY <1>1, <1>2

\* The JSON of a request without the fields of D.
Lacks(p, r, D) ==
    [g \in DOMAIN ToJsonRequestBody(p, r) \ D |-> ToJsonRequestBody(p, r)[g]]

\* A field that nobody left out is read as it was.
LEMMA FieldKept ==
    ASSUME NEW p \in Paths, NEW r \in RequestsOf(p), NEW D, NEW f \in DOMAIN Read(p) \ D
    PROVE  /\ f \notin DOMAIN Lacks(p, r, D) => Read(p)[f] # Refused
           /\ ReadNested(f, Struct(p, Lacks(p, r, D))[f]) = r[f]
<1> DEFINE j == Lacks(p, r, D)
<1>1. Tables(p, r)
  BY RequestTables
<1>2. /\ f \in DOMAIN j <=> f \in DOMAIN Object(p, r)
      /\ f \in DOMAIN j => j[f] = WriteNested(f, Object(p, r)[f])
  BY DEF Lacks, ToJsonRequestBody
<1>3. Struct(p, j)[f] = IF f \in DOMAIN j THEN FromName(f, j[f]) ELSE Read(p)[f]
  BY DEF Struct
<1>4. CASE f \notin DOMAIN Object(p, r)
  BY <1>1, <1>2, <1>3, <1>4, UnwrittenIsDefault
<1>5. CASE f \in DOMAIN Object(p, r)
  <2>1. CASE f \in {"spec", "new_children"}
    <3>1. Object(p, r)[f] = r[f]
      BY <1>5, <2>1 DEF Object, ToName
    <3>2. Struct(p, j)[f] = WriteNested(f, r[f])
      BY <1>2, <1>3, <1>5, <2>1, <3>1 DEF FromName
    <3>3. Fits(p, f, r[f])
      BY <1>1 DEF Tables
    <3> QED
      BY <1>2, <1>5, <2>1, <3>2, <3>3, NestedKept
  <2>2. CASE f \notin {"spec", "new_children"}
    <3>1. FromName(f, Object(p, r)[f]) = r[f]
      BY <1>1, <1>5, WrittenIsRead
    <3>2. Struct(p, j)[f] = r[f]
      BY <1>2, <1>3, <1>5, <2>2, <3>1 DEF WriteNested
    <3> QED
      BY <1>2, <1>5, <2>2, <3>2 DEF ReadNested
  <2> QED
    BY <2>1, <2>2
<1> QED
  BY <1>4, <1>5

\* What was sent is in body, but for what was dropped, and what was received
\* is read from body.
WInv ==
    /\ path \in Paths /\ request \in RequestsOf(path)
    /\ stage \in {"made", "sent", "received"}
    /\ stage = "made" => dropped = {}
    /\ stage # "made" => body = Lacks(path, request, dropped)
    /\ stage = "received" => parsed = ParseRequest(path, body)

\* WInv is inductive.
LEMMA WireSafe == WSpec => []WInv
<1>1. WInit => WInv
  BY DEF WInit, WInv
<1>2. WInv /\ [WNext]_wvars => WInv'
  <2> SUFFICES ASSUME WInv, [WNext]_wvars
               PROVE  WInv'
    OBVIOUS
  <2>1. CASE Send
    <3>1. ToJsonRequestBody(path, request) = Lacks(path, request, {})
      BY DEF ToJsonRequestBody, Lacks
    <3> QED
      BY <2>1, <3>1 DEF Send, WInv
  <2>2. CASE LeaveOut
    <3>1. PICK f \in DOMAIN body :
             body' = [g \in DOMAIN body \ {f} |-> body[g]] /\ dropped' = {f}
      BY <2>2 DEF LeaveOut
    <3>2. body = Lacks(path, request, {})
      BY <2>2 DEF LeaveOut, WInv
    <3>3. body' = Lacks(path, request, {f})
      BY <3>1, <3>2 DEF Lacks
    <3> QED
      BY <2>2, <3>1, <3>3 DEF LeaveOut, WInv
  <2>3. CASE Parse
    BY <2>3 DEF Parse, WInv
  <2>4. CASE UNCHANGED wvars
    BY <2>4 DEF wvars, WInv
  <2> QED
    BY <2>1, <2>2, <2>3, <2>4 DEF WNext
<1> QED
  BY <1>1, <1>2, PTL DEF WSpec

\* What parse_request reads of a whole body is the request that was written.
THEOREM RequestsRoundTrip == WSpec => []RoundTrip
<1>1. ASSUME NEW p \in Paths, NEW r \in RequestsOf(p)
      PROVE  ParseRequest(p, Lacks(p, r, {})) = r
  <2> DEFINE j == Lacks(p, r, {})
  <2>1. \A f \in DOMAIN Read(p) :
           /\ f \notin DOMAIN j => Read(p)[f] # Refused
           /\ ReadNested(f, Struct(p, j)[f]) = r[f]
    BY FieldKept
  <2>2. ParseRequest(p, j) = [f \in DOMAIN Struct(p, j) |-> ReadNested(f, Struct(p, j)[f])]
    BY <2>1 DEF ParseRequest
  <2>3. DOMAIN Struct(p, j) = DOMAIN Read(p)
    BY DEF Struct
  <2>4. ParseRequest(p, j) = [f \in DOMAIN Read(p) |-> r[f]]
    BY <2>1, <2>2, <2>3
  <2> QED
    BY <2>4, RequestTables DEF Tables
<1>2. WInv => RoundTrip
  BY <1>1 DEF WInv, RoundTrip
<1> QED
  BY <1>2, WireSafe, PTL

\* Whatever is left out, no request has a token that was not sent.
THEOREM TokensComeFromClients == WSpec => []NoTokenMadeUp
<1>1. ASSUME WInv, stage = "received", parsed # Refused,
             NEW f \in TokenFields \cap DOMAIN parsed
      PROVE  IF f \in dropped THEN parsed[f] = Unset ELSE parsed[f] = request[f]
  <2> DEFINE p == path
             j == Lacks(path, request, dropped)
  <2>1. p \in Paths /\ request \in RequestsOf(p) /\ parsed = ParseRequest(p, j)
    BY <1>1 DEF WInv
  <2>2. /\ \A g \in DOMAIN Read(p) : g \notin DOMAIN j => Read(p)[g] # Refused
        /\ parsed = [g \in DOMAIN Read(p) |-> ReadNested(g, Struct(p, j)[g])]
    BY <1>1, <2>1 DEF ParseRequest, Struct
  <2>3. f \in TokenFields /\ f \in DOMAIN Read(p) /\ parsed[f] = ReadNested(f, Struct(p, j)[f])
    BY <2>2
  <2>4. CASE f \in dropped
    <3>1. f \notin DOMAIN j
      BY <2>4 DEF Lacks
    <3>2. Read(p)[f] = Unset
      BY <2>1, <2>2, <2>3, <3>1, TokensHaveNoDefault
    <3>3. Struct(p, j)[f] = Unset
      BY <2>3, <3>1, <3>2 DEF Struct
    <3> QED
      BY <2>3, <2>4, <3>3 DEF ReadNested, TokenFields
  <2>5. CASE f \notin dropped
    BY <2>1, <2>3, <2>5, FieldKept
  <2> QED
    BY <2>4, <2>5
<1>2. WInv => NoTokenMadeUp
  BY <1>1 DEF NoTokenMadeUp
<1> QED
  BY <1>2, WireSafe, PTL
=============================================================================
