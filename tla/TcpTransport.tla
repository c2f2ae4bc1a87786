---------------------------- MODULE TcpTransport ----------------------------
(***************************************************************************)
(* One link of tcp_transport: the sends of a replica to one peer over its  *)
(* only connection to it, and read_loop_(), the queue and receive() at     *)
(* that peer.                                                              *)
(*                                                                         *)
(* A connection carries bytes, here units: a frame is its length, one      *)
(* unit, and the units of its body.  write() takes what fits into the      *)
(* socket buffers and suspends for the rest, so that frames mix only when  *)
(* the buffers are full and a second coroutine (run(), or any call of      *)
(* propose_and_apply()) sends meanwhile.                                   *)
(***************************************************************************)
EXTENDS Integers, Sequences, FiniteSets, SequencesExt

CONSTANTS
    Size,        \* Size[m]: the units of message m's body; DOMAIN Size are the messages
    Buffer,      \* units that the socket buffers hold
    MaxSenders   \* how many coroutines send at a time

ASSUME TcpAssumption ==
    /\ \A m \in DOMAIN Size : Size[m] \in Nat \ {0}
    /\ Buffer \in Nat \ {0} /\ MaxSenders \in Nat \ {0}

VARIABLES
    fd,       \* outbound_fds_[peer]: "none", "open" or "closed"
    writes,   \* writes[m]: the units that send(m) has yet to write
    conn,     \* the connection: "none", "up", "broken", or "closed" by read_loop_
    bytes,    \* the units on their way
    reader,   \* read_loop_: what it reads next, "length" or "body"; "none" or "ended"
    expects,  \* the message of the last length it has read
    queue,    \* inbound_queue_
    out,      \* history: the messages of which a unit was written, in this order
    got,      \* history: the messages that receive() returned to run()
    mixed     \* history: two sends were under way at once

tvars == <<fd, writes, conn, bytes, reader, expects, queue, out, got, mixed>>

Messages == DOMAIN Size

\* The unit k of message m; unit 0 is the length.
Frame(m) == [k \in 1..(Size[m] + 1) |-> <<m, k - 1>>]
Body(m) == Tail(Frame(m))

TInit ==
    /\ fd = "none" /\ conn = "none" /\ reader = "none"
    /\ writes = [m \in {} |-> <<>>]
    /\ expects = 0 /\ bytes = <<>> /\ queue = <<>> /\ out = <<>> /\ got = <<>>
    /\ mixed = FALSE

-----------------------------------------------------------------------------
(* The sender.                                                             *)

\* connect_loop_: tcp_connect succeeds, and the loop ends.  Until then it
\* tries again every 100ms.
Connect ==
    /\ fd = "none"
    /\ fd' = "open" /\ conn' = "up" /\ reader' = "length"
    /\ UNCHANGED <<expects, writes, bytes, queue, out, got, mixed>>

\* Write what fits of the units left to m, and end when there are none.
Written(m, left) ==
    LET n == IF Len(left) < Buffer - Len(bytes) THEN Len(left) ELSE Buffer - Len(bytes)
        rest == SubSeq(left, n + 1, Len(left))
    IN  /\ bytes' = bytes \o SubSeq(left, 1, n)
        /\ writes' = IF rest = <<>>
                     THEN [w \in DOMAIN writes \ {m} |-> writes[w]]
                     ELSE [w \in DOMAIN writes \cup {m} |-> IF w = m THEN rest ELSE writes[w]]
        /\ out' = IF n > 0 /\ ~Contains(out, m) THEN Append(out, m) ELSE out

\* send(): a message that is sent while there is no connection is lost.
Send(m) ==
    /\ fd = "open" /\ conn = "up"
    /\ ~Contains(out, m) /\ m \notin DOMAIN writes
    /\ Cardinality(DOMAIN writes) < MaxSenders
    /\ Written(m, Frame(m))
    /\ mixed' = (mixed \/ writes # [w \in {} |-> <<>>])
    /\ UNCHANGED <<expects, fd, conn, reader, queue, got>>

\* write() goes on with what fits by now.
Resume(m) ==
    /\ fd = "open" /\ conn = "up"
    /\ Len(bytes) < Buffer
    /\ Written(m, writes[m])
    /\ UNCHANGED <<expects, fd, conn, reader, queue, got, mixed>>

\* A write on a connection that is no longer up fails, and send() closes.
WriteFails ==
    /\ fd = "open" /\ conn \in {"broken", "closed"}
    /\ fd' = "closed"
    /\ writes' = [m \in {} |-> <<>>]
    /\ UNCHANGED <<expects, conn, bytes, reader, queue, out, got, mixed>>

\* The network or a peer that goes away break the connection: what is under
\* way may still arrive, or its end may not.
Break ==
    /\ conn = "up"
    /\ conn' = "broken"
    /\ \E n \in 0..Len(bytes) : bytes' = SubSeq(bytes, 1, n)
    /\ UNCHANGED <<expects, fd, writes, reader, queue, out, got, mixed>>

-----------------------------------------------------------------------------
(* The receiver.                                                           *)

\* A length.  Text in its place makes a number above the cap, 16MB.
ReadLength ==
    /\ reader = "length" /\ bytes # <<>>
    /\ IF Head(bytes)[2] = 0
       THEN /\ reader' = "body" /\ expects' = Head(bytes)[1] /\ bytes' = Tail(bytes)
            /\ UNCHANGED conn
       ELSE /\ reader' = "ended" /\ bytes' = <<>> /\ conn' = "closed"
            /\ UNCHANGED expects
    /\ UNCHANGED <<fd, writes, queue, out, got, mixed>>

\* Mutant: one unit too few is read.
ReadBody_OffByOne ==
    /\ reader = "body" /\ Len(bytes) >= Size[expects]
    /\ queue' = IF SubSeq(bytes, 1, Size[expects]) = Body(expects)
                 THEN Append(queue, expects)
                 ELSE queue
    /\ bytes' = SubSeq(bytes, Size[expects], Len(bytes))
    /\ reader' = "length"
    /\ UNCHANGED <<expects, fd, writes, conn, out, got, mixed>>

\* A body of that length; what does not parse is skipped.
ReadBody ==
    /\ reader = "body" /\ Len(bytes) >= Size[expects]
    /\ queue' = IF SubSeq(bytes, 1, Size[expects]) = Body(expects)
                 THEN Append(queue, expects)
                 ELSE queue
    /\ bytes' = SubSeq(bytes, Size[expects] + 1, Len(bytes))
    /\ reader' = "length"
    /\ UNCHANGED <<expects, fd, writes, conn, out, got, mixed>>

\* read() ends short on a broken connection, and the loop ends.
ReadFails ==
    /\ conn = "broken"
    /\ \/ reader = "length" /\ bytes = <<>>
       \/ reader = "body" /\ Len(bytes) < Size[expects]
    /\ reader' = "ended" /\ bytes' = <<>>
    /\ UNCHANGED <<expects, fd, writes, conn, queue, out, got, mixed>>

\* Mutant: the message stays in the queue.
Receive_KeepsFront ==
    /\ queue # <<>> /\ Len(got) < 4
    /\ got' = Append(got, Head(queue))
    /\ UNCHANGED <<expects, fd, writes, conn, bytes, reader, queue, out, mixed>>

\* receive() takes the first message.  When run()'s timer fires at the same
\* time the message is lost: unlike netsim's, this receive() does not
\* suspend to see that its result is used.
Receive ==
    /\ queue # <<>>
    /\ queue' = Tail(queue)
    /\ got' \in {got, Append(got, Head(queue))}
    /\ UNCHANGED <<expects, fd, writes, conn, bytes, reader, out, mixed>>

-----------------------------------------------------------------------------
TNext ==
    \/ Connect \/ WriteFails \/ Break
    \/ \E m \in Messages : Send(m)
    \/ \E m \in DOMAIN writes : Resume(m)
    \/ ReadLength \/ ReadBody \/ ReadFails \/ Receive

\* Every coroutine that can go on does, and replicas send for ever, so that
\* a write meets a broken connection.
Fairness ==
    /\ WF_tvars(Connect) /\ WF_tvars(WriteFails)
    /\ \A m \in Messages : WF_tvars(m \in DOMAIN writes /\ Resume(m))
    /\ WF_tvars(ReadLength) /\ WF_tvars(ReadBody) /\ WF_tvars(ReadFails) /\ WF_tvars(Receive)

TSpec == TInit /\ [][TNext]_tvars /\ Fairness

-----------------------------------------------------------------------------
(* Properties.                                                             *)

\* The link is the lossy FIFO link that the replicas rely on, also when
\* frames mix, the connection breaks in the middle of a frame, or a message
\* is lost between receive() and run(): nothing arrives twice, in another
\* order, or made up.
LL == INSTANCE LossyLink WITH
        sent <- out,
        received <- [n \in DOMAIN got |-> CHOOSE k \in DOMAIN out : out[k] = got[n]]
ImplementsLossyLink == LL!LSpec

\* Only two sends at once, or a connection that breaks, lose a frame between
\* write() and the queue: read_loop_() never loses its place by itself.
UnderWay(m) ==
    \/ m \in DOMAIN writes
    \/ \E k \in DOMAIN bytes : bytes[k][1] = m
    \/ reader = "body" /\ expects = m
FramesArrive ==
    \A m \in Messages : UnderWay(m) ~> (Contains(queue, m) \/ mixed \/ conn = "broken")
=============================================================================
