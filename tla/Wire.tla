-------------------------------- MODULE Wire --------------------------------
(***************************************************************************)
(* The JSON form of requests (tm.cc): to_json_request_body and             *)
(* request_path write a request into PROPOSE and PREPARE messages and into *)
(* the decision log, and parse_request reads it back at the peers and in   *)
(* tm-replay, as it reads what clients post.  What one writes and the      *)
(* other reads is kept in two functions of two hundred lines, here in two  *)
(* tables.                                                                 *)
(*                                                                         *)
(* A struct is a function from its fields to their values, and a JSON      *)
(* object one from the fields that are there.                              *)
(***************************************************************************)
EXTENDS Integers, Sequences

CONSTANTS
    Serials,
    Strings,  \* what a std::string may be
    Tokens,   \* fencing tokens
    Specs,    \* task_specs
    Lists,    \* lists of task_specs
    Unset,    \* an empty std::optional
    Refused,  \* parse_request throws
    Always    \* stands for no value: the field is written whatever it holds

Maybe(S) == S \cup {Unset}

\* The marks are none of the values they stand for or beside.
ASSUME WireAssumption ==
    /\ Specs \subseteq
          [type : 0..2, title : Strings, prompt : Strings, requires : Seq(Strings), depth : Int,
           parent_id : Maybe(Strings), branch_base : Maybe(Strings),
           implement_branch_sha : Maybe(Strings)]
    /\ Lists \subseteq Seq(Specs)
    /\ Unset \notin 0..3 /\ Unset \notin Strings /\ Unset \notin Tokens
    /\ Refused # Unset /\ Refused # FALSE /\ Refused # <<>>
    /\ Always # Unset /\ Always \notin Int /\ Always \notin BOOLEAN
    /\ Always \notin Serials /\ Always \notin Strings /\ Always \notin Tokens
    /\ Always \notin Seq(Strings) /\ Always \notin Specs /\ Always \notin Lists

VARIABLES
    path,     \* the type of the request that is sent, as request_path has it
    request,  \* its fields
    stage,    \* "made", "sent" or "received"
    body,     \* its JSON
    dropped,  \* the fields that a client left out
    parsed    \* what parse_request makes of it

wvars == <<path, request, stage, body, dropped, parsed>>

-----------------------------------------------------------------------------
(* Which fields are read, and what stands for one that is missing: its     *)
(* default, or Refused.                                                    *)

\* Mutant: value() with a default, as for every other field.
Token_Defaults == 0

\* require_token.
Token == Refused

Read(p) ==
    CASE p = "spec" ->
            [type |-> 0, title |-> "", prompt |-> "", requires |-> <<>>, depth |-> 0,
             parent_id |-> Unset, branch_base |-> Unset, implement_branch_sha |-> Unset]
      [] p = "/task_create" ->
            [serial |-> 0, agent_id |-> "", spec |-> Refused, creator_task |-> Unset,
             creator_token |-> Unset]
      [] p = "/task_claim" -> [serial |-> 0, agent_id |-> "", prefer_type |-> Unset]
      [] p = "/task_heartbeat" -> [serial |-> 0, agent_id |-> "", id |-> "", token |-> Token]
      [] p = "/task_complete" ->
            [serial |-> 0, agent_id |-> "", id |-> "", token |-> Token, result_branch |-> Unset,
             result_summary |-> "", new_children |-> <<>>]
      [] p = "/task_fail" ->
            [serial |-> 0, agent_id |-> "", id |-> "", token |-> Token, reason |-> ""]
      [] p = "/task_list" ->
            [serial |-> 0, agent_id |-> "", filter_status |-> Unset, only_mine |-> FALSE]
      [] p = "/main_lock_acquire" ->
            [serial |-> 0, agent_id |-> "", merge_task |-> "", merge_token |-> Token]
      [] p = "/main_lock_release" -> [serial |-> 0, agent_id |-> "", lock_token |-> Token]
      [] p = "/swarm_resume" -> [serial |-> 0, agent_id |-> ""]

-----------------------------------------------------------------------------
(* Which fields are written: all but those that hold this value.           *)

\* Mutant: only_mine is forgotten.
WriteList_ForgetsMine ==
    [serial |-> Always, agent_id |-> Always, filter_status |-> Unset]

WriteList ==
    [serial |-> Always, agent_id |-> Always, filter_status |-> Unset, only_mine |-> FALSE]

Write(p) ==
    CASE p = "spec" ->
            [type |-> Always, title |-> Always, prompt |-> Always, requires |-> Always,
             depth |-> Always, parent_id |-> Unset, branch_base |-> Unset,
             implement_branch_sha |-> Unset]
      [] p = "/task_create" ->
            [serial |-> Always, agent_id |-> Always, spec |-> Always, creator_task |-> Unset,
             creator_token |-> Unset]
      [] p = "/task_claim" -> [serial |-> Always, agent_id |-> Always, prefer_type |-> Unset]
      [] p = "/task_heartbeat" ->
            [serial |-> Always, agent_id |-> Always, id |-> Always, token |-> Always]
      [] p = "/task_complete" ->
            [serial |-> Always, agent_id |-> Always, id |-> Always, token |-> Always,
             result_branch |-> Unset, result_summary |-> Always, new_children |-> <<>>]
      [] p = "/task_fail" ->
            [serial |-> Always, agent_id |-> Always, id |-> Always, token |-> Always,
             reason |-> Always]
      [] p = "/task_list" -> WriteList
      [] p = "/main_lock_acquire" ->
            [serial |-> Always, agent_id |-> Always, merge_task |-> Always, merge_token |-> Always]
      [] p = "/main_lock_release" ->
            [serial |-> Always, agent_id |-> Always, lock_token |-> Always]
      [] p = "/swarm_resume" -> [serial |-> Always, agent_id |-> Always]

-----------------------------------------------------------------------------
(* The two conversions.                                                    *)

TypeNames == <<"plan", "implement", "merge">>
StatusNames == <<"pending", "in_progress", "done", "failed">>
Names(f) == IF f = "filter_status" THEN StatusNames ELSE TypeNames

\* An enum travels by name.
ToName(f, v) == IF f \in {"type", "prefer_type", "filter_status"} THEN Names(f)[v + 1] ELSE v
FromName(f, v) ==
    IF f \in {"type", "prefer_type", "filter_status"}
    THEN CHOOSE n \in 0..3 : n + 1 \in DOMAIN Names(f) /\ Names(f)[n + 1] = v
    ELSE v

Object(p, s) ==
    [f \in {g \in DOMAIN Write(p) : s[g] # Write(p)[g]} |-> ToName(f, s[f])]

\* The struct of an object that has all it needs.
Struct(p, j) ==
    [f \in DOMAIN Read(p) |-> IF f \in DOMAIN j THEN FromName(f, j[f]) ELSE Read(p)[f]]

\* A field that holds task_specs holds their objects.
WriteNested(f, v) ==
    CASE f = "spec" -> Object("spec", v)
      [] f = "new_children" -> [k \in DOMAIN v |-> Object("spec", v[k])]
      [] OTHER -> v

ReadNested(f, v) ==
    CASE f = "spec" -> Struct("spec", v)
      [] f = "new_children" -> [k \in DOMAIN v |-> Struct("spec", v[k])]
      [] OTHER -> v

ToJsonRequestBody(p, r) ==
    LET j == Object(p, r)
    IN  [f \in DOMAIN j |-> WriteNested(f, j[f])]

ParseRequest(p, j) ==
    IF \E f \in DOMAIN Read(p) : f \notin DOMAIN j /\ Read(p)[f] = Refused
    THEN Refused
    ELSE LET r == Struct(p, j)
         IN  [f \in DOMAIN r |-> ReadNested(f, r[f])]

-----------------------------------------------------------------------------
Paths ==
    {"/task_create", "/task_claim", "/task_heartbeat", "/task_complete", "/task_fail",
     "/task_list", "/main_lock_acquire", "/main_lock_release", "/swarm_resume"}

\* The requests of a type.
RequestsOf(p) ==
    CASE p = "/task_create" ->
            [serial : Serials, agent_id : Strings, spec : Specs, creator_task : Maybe(Strings),
             creator_token : Maybe(Tokens)]
      [] p = "/task_claim" -> [serial : Serials, agent_id : Strings, prefer_type : Maybe(0..2)]
      [] p = "/task_heartbeat" ->
            [serial : Serials, agent_id : Strings, id : Strings, token : Tokens]
      [] p = "/task_complete" ->
            [serial : Serials, agent_id : Strings, id : Strings, token : Tokens,
             result_branch : Maybe(Strings), result_summary : Strings, new_children : Lists]
      [] p = "/task_fail" ->
            [serial : Serials, agent_id : Strings, id : Strings, token : Tokens, reason : Strings]
      [] p = "/task_list" ->
            [serial : Serials, agent_id : Strings, filter_status : Maybe(0..3),
             only_mine : BOOLEAN]
      [] p = "/main_lock_acquire" ->
            [serial : Serials, agent_id : Strings, merge_task : Strings, merge_token : Tokens]
      [] p = "/main_lock_release" -> [serial : Serials, agent_id : Strings, lock_token : Tokens]
      [] p = "/swarm_resume" -> [serial : Serials, agent_id : Strings]

WInit ==
    /\ path \in Paths
    /\ request \in RequestsOf(path)
    /\ stage = "made" /\ body = <<>> /\ dropped = {} /\ parsed = Refused

Send ==
    /\ stage = "made"
    /\ stage' = "sent"
    /\ body' = ToJsonRequestBody(path, request)
    /\ UNCHANGED <<path, request, dropped, parsed>>

\* A client's request, which lacks a field.
LeaveOut ==
    /\ stage = "sent" /\ dropped = {}
    /\ \E f \in DOMAIN body :
          /\ body' = [g \in DOMAIN body \ {f} |-> body[g]]
          /\ dropped' = {f}
    /\ UNCHANGED <<path, request, stage, parsed>>

Parse ==
    /\ stage = "sent"
    /\ stage' = "received"
    /\ parsed' = ParseRequest(path, body)
    /\ UNCHANGED <<path, request, body, dropped>>

WNext == Send \/ LeaveOut \/ Parse

WSpec == WInit /\ [][WNext]_wvars

-----------------------------------------------------------------------------
(* Properties.                                                             *)

\* tm.hh: to_json_request_body is "the inverse of parse_request": a request
\* that goes to the peers, or through the decision log to tm-replay, is the
\* request the leader applied, with every field and every default.
RoundTrip == stage = "received" /\ dropped = {} => parsed = request

\* The comment on require_token: a missing token "must not silently become
\* 0".  Whatever a client leaves out, no request carries a token, not even
\* 0, that the client did not send.
TokenFields == {"token", "merge_token", "lock_token", "creator_token"}
NoTokenMadeUp ==
    stage = "received" /\ parsed # Refused =>
       \A f \in TokenFields \cap DOMAIN parsed :
          IF f \in dropped THEN parsed[f] = Unset ELSE parsed[f] = request[f]
=============================================================================
