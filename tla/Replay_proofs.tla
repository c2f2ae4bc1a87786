---------------------------- MODULE Replay_proofs ---------------------------
(***************************************************************************)
(* What tm-replay makes of the decision logs is true, for any number of    *)
(* replicas, agents, tasks and log entries, however far a replica lags,    *)
(* however its clock differs and whatever it applies without logging it.   *)
(*                                                                         *)
(* For the snapshots: a decision log holds what its replica has applied    *)
(* but for the unlogged slots, its stamps never go back, and what the      *)
(* replica had applied when a second was over are the entries that it      *)
(* stamped by then.  For the reclaims: the last tasks in the log are those *)
(* of the task manager, whose theorems say how one state follows from      *)
(* another.                                                                *)
(***************************************************************************)
EXTENDS Replay, TaskManager_proofs

USE DEF NoTask, NoToken, TaskId

EntryRecord == [now : 0..MaxClock, tasks : Seq(TaskRecord)]
JournalRecord == [slot : Nat, at : Nat]

RTypes ==
    /\ TypeOK
    /\ log \in Seq(EntryRecord)
    /\ wall \in [Replicas -> Nat]
    /\ applied \in [Replicas -> Nat]
    /\ journal \in [Replicas -> Seq(JournalRecord)]
    /\ unlogged \in [Replicas -> SUBSET Nat]
    /\ seen \in [Replicas -> Seq(Nat)]

-----------------------------------------------------------------------------
(* Snapshots.                                                              *)

\* Every replica's clock is one that a leader may stamp with.
ClocksAgree == \A i \in Replicas : wall[i] <= clock /\ clock <= wall[i] + MaxSkew

\* Replica i's log holds what i has applied, but for the unlogged slots, with
\* stamps that grow.
LogFollows(i) ==
    /\ applied[i] <= Len(log)
    /\ unlogged[i] \subseteq 1..applied[i]
    /\ \A j \in 1..Len(journal[i]) :
          /\ journal[i][j].slot \in (1..applied[i]) \ unlogged[i]
          /\ journal[i][j].at <= wall[i]
    /\ \A s \in (1..applied[i]) \ unlogged[i] : \E j \in 1..Len(journal[i]) : journal[i][j].slot = s
    /\ \A h, j \in 1..Len(journal[i]) : h <= j => journal[i][h].at <= journal[i][j].at

\* seen divides the log into what was stamped in time, and later.
SeenInTime(i) ==
    /\ Len(seen[i]) = wall[i]
    /\ \A t \in 1..Len(seen[i]) :
          /\ seen[i][t] <= applied[i]
          /\ \A j \in 1..Len(journal[i]) : journal[i][j].slot <= seen[i][t] <=> journal[i][j].at < t

SInv == RTypes /\ ClocksAgree /\ \A i \in Replicas : LogFollows(i) /\ SeenInTime(i)

\* Stamps are numbers.
LEMMA NatOrder ==
    ASSUME NEW x \in Nat, NEW y \in Nat, NEW z \in Nat
    PROVE  (x < y + 1 <=> x <= y) /\ (x <= y /\ y <= z => x <= z)
OBVIOUS

\* What the types say of one replica.
LEMMA ReplicaTyped ==
    ASSUME RTypes, NEW i \in Replicas
    PROVE  /\ Len(log) \in Nat /\ clock \in Nat /\ wall[i] \in Nat /\ applied[i] \in Nat
           /\ journal[i] \in Seq(JournalRecord) /\ Len(journal[i]) \in Nat
           /\ \A j \in 1..Len(journal[i]) : journal[i][j].slot \in Nat /\ journal[i][j].at \in Nat
           /\ seen[i] \in Seq(Nat) /\ Len(seen[i]) \in Nat
           /\ \A t \in 1..Len(seen[i]) : seen[i][t] \in Nat
           /\ unlogged[i] \in SUBSET Nat
<1>1. /\ Len(log) \in Nat /\ clock \in Nat /\ wall[i] \in Nat /\ applied[i] \in Nat
      /\ unlogged[i] \in SUBSET Nat
  BY LenProperties, TaskManagerAssumption DEF RTypes, TypeOK
<1>2. journal[i] \in Seq(JournalRecord) /\ seen[i] \in Seq(Nat)
  BY DEF RTypes
<1>3. Len(journal[i]) \in Nat /\ Len(seen[i]) \in Nat
  BY <1>2, LenProperties
<1>4. \A j \in 1..Len(journal[i]) : journal[i][j] \in JournalRecord
  BY <1>2, ElementOfSeq
<1>5. \A t \in 1..Len(seen[i]) : seen[i][t] \in Nat
  BY <1>2, ElementOfSeq
<1> QED
  BY <1>1, <1>2, <1>3, <1>4, <1>5 DEF JournalRecord

\* A step of the event stream is an entry of the log.
LEMMA StepsAreEntries ==
    ASSUME SInv, NEW k \in Steps
    PROVE  journal[1][k].slot \in 1..Len(log) /\ Stamp(k) \in Nat
<1>1. 1 \in Replicas
  BY ReplayAssumption DEF Replicas
<1>2. journal[1][k].slot \in 1..applied[1] /\ applied[1] <= Len(log)
  BY <1>1 DEF SInv, LogFollows, Steps
<1>3. journal[1][k].slot \in 1..Len(log)
  BY <1>1, <1>2, ReplicaTyped DEF SInv
<1>4. log[journal[1][k].slot] \in EntryRecord
  BY <1>3, ElementOfSeq DEF SInv, RTypes
<1> QED
  BY <1>3, <1>4 DEF Stamp, EntryRecord

\* A replay up to a second takes what the replica had applied and logged by
\* then, and no stamp of an earlier or later step takes more.
LEMMA SnapshotsFollow == SInv => SnapshotsAreHonest
<1> SUFFICES ASSUME SInv, NEW k \in Steps, NEW m \in 1..k, NEW i \in Replicas,
                    \A l \in 1..k : Stamp(l) <= Stamp(m), Stamp(m) < Len(seen[i])
             PROVE  Shown(i, k) = (1..seen[i][Stamp(m) + 1]) \ unlogged[i]
  BY DEF SnapshotsAreHonest
<1>1. PICK T \in Nat : T = Stamp(m)
  <2>1. m \in Steps
    <3>1. Len(journal[1]) \in Nat
      BY ReplayAssumption, ReplicaTyped DEF SInv, Replicas
    <3> QED
      BY <3>1 DEF Steps
  <2> QED
    BY <2>1, StepsAreEntries
<1>2. PICK c \in Nat : c = seen[i][T + 1]
  BY <1>1, ReplicaTyped DEF SInv
<1>3. PICK n \in Nat : n = Len(journal[i])
  BY ReplicaTyped DEF SInv
<1>4. /\ c <= applied[i] /\ applied[i] \in Nat
      /\ \A j \in 1..n : journal[i][j].slot <= c <=> journal[i][j].at <= T
      /\ \A j \in 1..n : journal[i][j].slot \in Nat /\ journal[i][j].at \in Nat
  <2>1. T + 1 \in 1..Len(seen[i])
    BY <1>1, ReplicaTyped DEF SInv
  <2>2. /\ c <= applied[i]
        /\ \A j \in 1..n : journal[i][j].slot <= c <=> journal[i][j].at < T + 1
    BY <1>2, <1>3, <2>1 DEF SInv, SeenInTime
  <2>3. /\ applied[i] \in Nat
        /\ \A j \in 1..n : journal[i][j].slot \in Nat /\ journal[i][j].at \in Nat
    BY <1>3, ReplicaTyped DEF SInv
  <2>4. ASSUME NEW j \in 1..n
        PROVE  journal[i][j].slot <= c <=> journal[i][j].at <= T
    <3>1. journal[i][j].at \in Nat /\ (journal[i][j].slot <= c <=> journal[i][j].at < T + 1)
      BY <2>2, <2>3
    <3> QED
      BY <3>1, NatOrder
  <2> QED
    BY <2>2, <2>3, <2>4
<1>5. \A j \in 1..n : j \in Replayed(i, k) <=> journal[i][j].at <= T
  <2> TAKE j \in 1..n
  <2>0. k \in Nat /\ DOMAIN journal[i] = 1..n
    <3>1. Len(journal[1]) \in Nat /\ journal[i] \in Seq(JournalRecord)
      BY ReplayAssumption, ReplicaTyped DEF SInv, Replicas
    <3> QED
      BY <1>3, <3>1, LenProperties DEF Steps
  <2>1. ASSUME j \in Replayed(i, k)
        PROVE  journal[i][j].at <= T
    <3>1. PICK l \in 1..k : journal[i][j].at <= Stamp(l)
      BY <1>3, <2>1 DEF Replayed
    <3>2. l \in Steps
      <4>1. Len(journal[1]) \in Nat
        BY ReplayAssumption, ReplicaTyped DEF SInv, Replicas
      <4> QED
        BY <4>1 DEF Steps
    <3>3. Stamp(l) \in Nat /\ Stamp(l) <= T
      BY <1>1, <3>2, StepsAreEntries
    <3>4. journal[i][j].at \in Nat
      BY <1>4
    <3> QED
      BY <3>1, <3>3, <3>4, NatOrder
  <2>2. ASSUME journal[i][j].at <= T
        PROVE  j \in Replayed(i, k)
    <3>1. ASSUME NEW h \in 1..j
          PROVE  journal[i][h].at <= Stamp(m)
      <4>1. h \in 1..n
        BY <1>3
      <4>2. journal[i][h].at <= journal[i][j].at
        BY <1>3, <3>1, <4>1 DEF SInv, LogFollows
      <4>3. journal[i][h].at \in Nat /\ journal[i][j].at \in Nat
        BY <1>4, <4>1
      <4> QED
        BY <1>1, <2>2, <4>2, <4>3, NatOrder
    <3> QED
      BY <2>0, <3>1 DEF Replayed
  <2> QED
    BY <2>1, <2>2
<1>6. /\ \A j \in 1..n : journal[i][j].slot \in (1..applied[i]) \ unlogged[i]
      /\ \A s \in (1..applied[i]) \ unlogged[i] : \E j \in 1..n : journal[i][j].slot = s
  BY <1>3 DEF SInv, LogFollows
<1>7. Shown(i, k) = {journal[i][j].slot : j \in {h \in 1..n : journal[i][h].at <= T}}
  <2>1. Replayed(i, k) \subseteq 1..n
    <3>1. DOMAIN journal[i] = 1..n
      BY <1>3, ReplicaTyped, LenProperties DEF SInv
    <3> QED
      BY <3>1 DEF Replayed
  <2>2. Replayed(i, k) = {h \in 1..n : journal[i][h].at <= T}
    BY <1>5, <2>1
  <2> QED
    BY <2>2 DEF Shown
<1>8. ASSUME NEW s
      PROVE  s \in Shown(i, k) <=> s \in (1..c) \ unlogged[i]
  <2>1. s \in Shown(i, k) <=> \E j \in 1..n : journal[i][j].at <= T /\ s = journal[i][j].slot
    BY <1>7
  <2>2. ASSUME NEW j \in 1..n, journal[i][j].at <= T, s = journal[i][j].slot
        PROVE  s \in (1..c) \ unlogged[i]
    BY <1>4, <1>6, <2>2
  <2>3. ASSUME s \in (1..c) \ unlogged[i]
        PROVE  \E j \in 1..n : journal[i][j].at <= T /\ s = journal[i][j].slot
    <3>1. s \in (1..applied[i]) \ unlogged[i] /\ s <= c
      BY <1>4, <2>3
    <3>2. PICK j \in 1..n : journal[i][j].slot = s
      BY <1>6, <3>1
    <3> QED
      BY <1>4, <3>1, <3>2
  <2> QED
    BY <2>1, <2>2, <2>3
<1>9. Shown(i, k) = (1..c) \ unlogged[i]
  BY <1>8, Zenon
<1> QED
  BY <1>1, <1>2, <1>9

\* A replica to which nothing happens keeps what holds of it, though the log
\* may grow.
LEMMA ReplicaKept ==
    ASSUME RTypes, RTypes', NEW p \in Replicas, LogFollows(p), SeenInTime(p),
           wall'[p] = wall[p], applied'[p] = applied[p], journal'[p] = journal[p],
           unlogged'[p] = unlogged[p], seen'[p] = seen[p], Len(log) <= Len(log')
    PROVE  LogFollows(p)' /\ SeenInTime(p)'
<1>1. applied[p] <= Len(log')
  <2>1. applied[p] <= Len(log) /\ Len(log) \in Nat /\ Len(log') \in Nat /\ applied[p] \in Nat
    BY ReplicaTyped, LenProperties DEF LogFollows, RTypes
  <2> QED
    BY <2>1
<1> QED
  BY <1>1 DEF LogFollows, SeenInTime

\* A decided request is one of the task manager's, stamped by a clock that a
\* leader may have.
LEMMA DecideStep ==
    ASSUME SInv, NEW l \in Replicas, Decide(l)
    PROVE  wall[l] \in Stamps /\ [Next]_vars
<1>1. wall[l] \in Stamps
  <2>1. wall[l] \in Nat /\ clock \in 0..MaxClock /\ wall[l] <= clock /\ clock <= wall[l] + MaxSkew
    BY ReplicaTyped DEF SInv, RTypes, TypeOK, ClocksAgree
  <2> QED
    BY <2>1, TaskManagerAssumption DEF Stamps
<1> QED
  BY <1>1 DEF Decide, Request, Next

\* Deciding a request.
LEMMA DecideKeeps ==
    ASSUME SInv, NEW l \in Replicas, Decide(l)
    PROVE  SInv'
<1>1. RTypes /\ TypeOK' /\ wall[l] \in 0..MaxClock /\ clock' = clock
  BY DecideStep, TypeStep DEF SInv, RTypes, Stamps, Decide
<1>2. /\ wall' = wall /\ applied' = applied /\ journal' = journal
      /\ unlogged' = unlogged /\ seen' = seen
  BY DEF Decide
<1>3. log' \in Seq(EntryRecord) /\ Len(log') = Len(log) + 1
  <2>1. Entry(wall[l]) \in EntryRecord
    BY <1>1 DEF Entry, EntryRecord, TypeOK
  <2>2. log' = Append(log, Entry(wall[l])) /\ log \in Seq(EntryRecord)
    BY <1>1 DEF Decide, RTypes
  <2> HIDE DEF Entry
  <2> QED
    BY <2>1, <2>2, AppendProperties
<1>4. RTypes'
  BY <1>1, <1>2, <1>3 DEF RTypes
<1>5. ClocksAgree'
  BY <1>1, <1>2 DEF SInv, ClocksAgree
<1>6. ASSUME NEW p \in Replicas
      PROVE  LogFollows(p)' /\ SeenInTime(p)'
  <2>1. Len(log) <= Len(log')
    BY <1>1, <1>3, LenProperties DEF RTypes
  <2> QED
    BY <1>1, <1>2, <1>4, <2>1, ReplicaKept DEF SInv
<1> QED
  BY <1>4, <1>5, <1>6 DEF SInv

\* A replica applies and logs the next entry: it is later than all before,
\* and its second is not over.
LEMMA ApplyKeeps ==
    ASSUME SInv, NEW i \in Replicas, Apply(i)
    PROVE  SInv'
<1>1. /\ RTypes /\ UNCHANGED vars /\ log' = log /\ wall' = wall /\ unlogged' = unlogged /\ seen' = seen
      /\ applied[i] < Len(log)
      /\ applied' = [applied EXCEPT ![i] = applied[i] + 1]
      /\ journal' = [journal EXCEPT
                       ![i] = Append(journal[i], [slot |-> applied[i] + 1, at |-> wall[i]])]
  BY DEF Apply, SInv
<1>2. PICK a \in Nat, w \in Nat, n \in Nat : a = applied[i] /\ w = wall[i] /\ n = Len(journal[i])
  BY <1>1, ReplicaTyped
<1> DEFINE new == [slot |-> a + 1, at |-> w]
<1>3. new \in JournalRecord /\ new.slot = a + 1 /\ new.at = w
  BY DEF JournalRecord
<1> HIDE DEF new
<1>4. /\ applied'[i] = a + 1 /\ journal'[i] = Append(journal[i], new)
      /\ \A p \in Replicas \ {i} : applied'[p] = applied[p] /\ journal'[p] = journal[p]
  BY <1>1, <1>2 DEF RTypes, new
<1>5. /\ Append(journal[i], new) \in Seq(JournalRecord)
      /\ Len(journal'[i]) = n + 1 /\ journal'[i][n + 1] = new
      /\ \A j \in 1..n : journal'[i][j] = journal[i][j]
  <2>1. journal[i] \in Seq(JournalRecord)
    BY <1>1 DEF RTypes
  <2> QED
    BY <1>2, <1>3, <1>4, <2>1, AppendProperties
<1>6. TypeOK'
  BY <1>1, TypeStep DEF RTypes
<1>7. RTypes'
  <2>1. applied' \in [Replicas -> Nat]
    BY <1>1, <1>2 DEF RTypes
  <2>2. journal' \in [Replicas -> Seq(JournalRecord)]
    BY <1>1, <1>2, <1>5 DEF RTypes, new
  <2> QED
    BY <1>1, <1>6, <2>1, <2>2 DEF RTypes
<1>8. ClocksAgree'
  BY <1>1 DEF SInv, ClocksAgree, vars
<1>9. /\ \A j \in 1..n : /\ journal[i][j].slot \in (1..a) \ unlogged[i]
                         /\ journal[i][j].slot \in Nat /\ journal[i][j].at \in Nat
                         /\ journal[i][j].at <= w
      /\ unlogged[i] \subseteq 1..a
      /\ \A s \in (1..a) \ unlogged[i] : \E j \in 1..n : journal[i][j].slot = s
      /\ \A h, j \in 1..n : h <= j => journal[i][h].at <= journal[i][j].at
  BY <1>1, <1>2, ReplicaTyped DEF SInv, LogFollows
<1>10. \A j \in 1..(n + 1) : j \in 1..n \/ j = n + 1
  OBVIOUS
<1>11. LogFollows(i)'
  <2>1. applied'[i] <= Len(log')
    <3>1. a < Len(log) /\ Len(log) \in Nat
      BY <1>1, <1>2, ReplicaTyped
    <3> QED
      BY <1>1, <1>4, <3>1
  <2>2. unlogged'[i] \subseteq 1..applied'[i]
    BY <1>1, <1>4, <1>9
  <2>3. ASSUME NEW j \in 1..Len(journal'[i])
        PROVE  /\ journal'[i][j].slot \in (1..applied'[i]) \ unlogged'[i]
               /\ journal'[i][j].at <= wall'[i]
    <3>1. CASE j \in 1..n
      BY <1>1, <1>2, <1>4, <1>5, <1>9, <3>1
    <3>2. CASE j = n + 1
      BY <1>1, <1>2, <1>3, <1>4, <1>5, <1>9, <3>2
    <3> QED
      BY <1>5, <1>10, <3>1, <3>2
  <2>4. ASSUME NEW s \in (1..applied'[i]) \ unlogged'[i]
        PROVE  \E j \in 1..Len(journal'[i]) : journal'[i][j].slot = s
    <3>1. CASE s = a + 1
      BY <1>3, <1>5, <3>1
    <3>2. CASE s # a + 1
      <4>1. s \in (1..a) \ unlogged[i]
        BY <1>1, <1>4, <3>2
      <4>2. PICK j \in 1..n : journal[i][j].slot = s
        BY <1>9, <4>1
      <4> QED
        BY <1>5, <4>2
    <3> QED
      BY <3>1, <3>2
  <2>5. ASSUME NEW h \in 1..Len(journal'[i]), NEW j \in 1..Len(journal'[i]), h <= j
        PROVE  journal'[i][h].at <= journal'[i][j].at
    <3>1. CASE j \in 1..n
      <4>1. h \in 1..n
        BY <1>5, <2>5, <3>1
      <4>2. journal[i][h].at <= journal[i][j].at
        BY <1>9, <2>5, <3>1, <4>1
      <4> QED
        BY <1>5, <3>1, <4>1, <4>2
    <3>2. CASE j = n + 1 /\ h \in 1..n
      BY <1>3, <1>5, <1>9, <3>2
    <3>3. CASE j = n + 1 /\ h = n + 1
      BY <1>3, <1>5, <3>3
    <3> QED
      BY <1>5, <1>10, <3>1, <3>2, <3>3
  <2> QED
    BY <2>1, <2>2, <2>3, <2>4, <2>5 DEF LogFollows
<1>12. SeenInTime(i)'
  <2>1. Len(seen[i]) = w
    BY <1>2 DEF SInv, SeenInTime
  <2>2. ASSUME NEW t \in 1..Len(seen[i])
        PROVE  /\ seen[i][t] <= a + 1
               /\ \A j \in 1..Len(journal'[i]) :
                     journal'[i][j].slot <= seen[i][t] <=> journal'[i][j].at < t
    <3>1. PICK c \in Nat : c = seen[i][t]
      BY <1>1, ReplicaTyped
    <3>2. c <= a /\ \A j \in 1..n : journal[i][j].slot <= c <=> journal[i][j].at < t
      BY <1>2, <3>1 DEF SInv, SeenInTime
    <3>3. t <= w /\ t \in Nat
      BY <2>1, <1>2
    <3>4. ASSUME NEW j \in 1..Len(journal'[i])
          PROVE  journal'[i][j].slot <= c <=> journal'[i][j].at < t
      <4>1. CASE j \in 1..n
        BY <1>5, <3>2, <4>1
      <4>2. CASE j = n + 1
        BY <1>3, <1>5, <3>2, <3>3, <4>2
      <4> QED
        BY <1>5, <1>10, <4>1, <4>2
    <3> QED
      BY <3>1, <3>2, <3>4
  <2> QED
    BY <1>1, <1>2, <1>4, <2>1, <2>2 DEF SeenInTime
<1>13. ASSUME NEW p \in Replicas \ {i}
       PROVE  LogFollows(p)' /\ SeenInTime(p)'
  <2>1. Len(log) <= Len(log')
    BY <1>1, LenProperties DEF RTypes
  <2> QED
    BY <1>1, <1>4, <1>7, <2>1, ReplicaKept DEF SInv
<1> QED
  BY <1>7, <1>8, <1>11, <1>12, <1>13 DEF SInv

\* A replica that becomes leader applies without logging: the slots are known
\* for unlogged, and are later than all that was seen.
LEMMA BecomeLeaderKeeps ==
    ASSUME SInv, NEW i \in Replicas, BecomeLeader(i)
    PROVE  SInv'
<1>1. PICK n \in (applied[i] + 1)..Len(log) :
         /\ applied' = [applied EXCEPT ![i] = n]
         /\ unlogged' = [unlogged EXCEPT ![i] = unlogged[i] \cup (applied[i] + 1)..n]
         /\ UNCHANGED vars /\ log' = log /\ wall' = wall /\ journal' = journal /\ seen' = seen
  BY DEF BecomeLeader
<1>2. RTypes
  BY DEF SInv
<1>3. PICK a \in Nat : a = applied[i]
  BY <1>2, ReplicaTyped
<1>4. n \in Nat /\ a < n /\ n <= Len(log)
  BY <1>2, <1>3, ReplicaTyped
<1>5. /\ applied'[i] = n /\ unlogged'[i] = unlogged[i] \cup (a + 1)..n
      /\ \A p \in Replicas \ {i} : applied'[p] = applied[p] /\ unlogged'[p] = unlogged[p]
  BY <1>1, <1>2, <1>3 DEF RTypes
<1>6. RTypes'
  <2>1. TypeOK'
    BY <1>1, <1>2, TypeStep DEF RTypes
  <2>2. applied' \in [Replicas -> Nat]
    BY <1>1, <1>2, <1>4 DEF RTypes
  <2>3. unlogged' \in [Replicas -> SUBSET Nat]
    <3>1. unlogged[i] \cup (a + 1)..n \in SUBSET Nat
      BY <1>2, <1>4 DEF RTypes
    <3> QED
      BY <1>1, <1>2, <1>3, <3>1 DEF RTypes
  <2> QED
    BY <1>1, <1>2, <2>1, <2>2, <2>3 DEF RTypes
<1>7. ClocksAgree'
  BY <1>1 DEF SInv, ClocksAgree, vars
<1>8. /\ \A j \in 1..Len(journal[i]) : journal[i][j].slot \in (1..a) \ unlogged[i]
      /\ unlogged[i] \subseteq 1..a
      /\ \A s \in (1..a) \ unlogged[i] : \E j \in 1..Len(journal[i]) : journal[i][j].slot = s
  BY <1>3 DEF SInv, LogFollows
<1>9. (1..n) \ unlogged'[i] = (1..a) \ unlogged[i]
  BY <1>4, <1>5, <1>8
<1>10. LogFollows(i)'
  <2>1. unlogged'[i] \subseteq 1..n
    BY <1>4, <1>5, <1>8
  <2> QED
    BY <1>1, <1>4, <1>5, <1>8, <1>9, <2>1 DEF SInv, LogFollows
<1>11. SeenInTime(i)'
  <2>1. ASSUME NEW t \in 1..Len(seen[i])
        PROVE  seen[i][t] <= n
    <3>1. seen[i][t] <= a /\ seen[i][t] \in Nat
      BY <1>2, <1>3, ReplicaTyped DEF SInv, SeenInTime
    <3> QED
      BY <1>4, <3>1
  <2> QED
    BY <1>1, <1>5, <2>1 DEF SInv, SeenInTime
<1>12. ASSUME NEW p \in Replicas \ {i}
       PROVE  LogFollows(p)' /\ SeenInTime(p)'
  <2>1. Len(log) <= Len(log')
    BY <1>1, <1>2, LenProperties DEF RTypes
  <2> QED
    BY <1>1, <1>2, <1>5, <1>6, <2>1, ReplicaKept DEF SInv
<1> QED
  BY <1>6, <1>7, <1>10, <1>11, <1>12 DEF SInv

\* A second ends at a replica: all that it has applied was in time, and no
\* clock comes to differ too much.
LEMMA TimeKeeps ==
    ASSUME SInv, NEW i \in Replicas, TimePasses(i)
    PROVE  SInv'
<1>1. /\ RTypes /\ log' = log /\ applied' = applied /\ journal' = journal /\ unlogged' = unlogged
      /\ wall' = [wall EXCEPT ![i] = wall[i] + 1]
      /\ seen' = [seen EXCEPT ![i] = Append(seen[i], applied[i])]
      /\ \A p \in Replicas \ {i} : wall[i] < wall[p] + MaxSkew
      /\ [Next]_vars
  BY DEF TimePasses, SInv, Next
<1>2. PICK w \in Nat, a \in Nat : w = wall[i] /\ a = applied[i]
  BY <1>1, ReplicaTyped
<1>3. /\ wall'[i] = w + 1 /\ seen'[i] = Append(seen[i], a)
      /\ \A p \in Replicas \ {i} : wall'[p] = wall[p] /\ seen'[p] = seen[p]
  BY <1>1, <1>2 DEF RTypes
<1>4. /\ seen'[i] \in Seq(Nat)
      /\ Len(seen[i]) = w /\ Len(seen'[i]) = w + 1 /\ seen'[i][w + 1] = a
      /\ \A t \in 1..w : seen'[i][t] = seen[i][t]
  <2>1. seen[i] \in Seq(Nat) /\ Len(seen[i]) = w
    BY <1>1, <1>2 DEF SInv, RTypes, SeenInTime
  <2> QED
    BY <1>2, <1>3, <2>1, AppendProperties
<1>5. RTypes'
  <2>1. TypeOK'
    BY <1>1, TypeStep DEF RTypes
  <2>2. wall' \in [Replicas -> Nat]
    BY <1>1, <1>2 DEF RTypes
  <2>3. seen' \in [Replicas -> Seq(Nat)]
    BY <1>1, <1>3, <1>4 DEF RTypes
  <2> QED
    BY <1>1, <2>1, <2>2, <2>3 DEF RTypes
<1>6. ClocksAgree'
  <2>1. clock \in Nat /\ MaxSkew \in Nat /\ \A p \in Replicas : wall[p] \in Nat
    BY <1>1, ReplicaTyped, TaskManagerAssumption DEF RTypes, TypeOK
  <2>2. \/ w = clock /\ clock' = clock + 1
        \/ w < clock /\ clock' = clock
    BY <1>2 DEF TimePasses, Tick, vars
  <2> SUFFICES ASSUME NEW p \in Replicas
               PROVE  wall'[p] <= clock' /\ clock' <= wall'[p] + MaxSkew
    BY DEF ClocksAgree
  <2>3. wall[p] <= clock /\ clock <= wall[p] + MaxSkew
    BY DEF SInv, ClocksAgree
  <2>4. CASE p = i
    <3>1. w <= clock /\ clock <= w + MaxSkew /\ wall'[p] = w + 1
      BY <1>2, <1>3, <2>3, <2>4
    <3> QED
      BY <2>1, <2>2, <3>1
  <2>5. CASE p # i
    <3>1. w < wall[p] + MaxSkew /\ wall'[p] = wall[p]
      BY <1>1, <1>2, <1>3, <2>5
    <3> QED
      BY <2>1, <2>2, <2>3, <3>1
  <2> QED
    BY <2>4, <2>5
<1>7. LogFollows(i)'
  <2>1. ASSUME NEW j \in 1..Len(journal[i])
        PROVE  journal[i][j].at <= w + 1
    <3>1. journal[i][j].at <= w /\ journal[i][j].at \in Nat
      BY <1>1, <1>2, ReplicaTyped DEF SInv, LogFollows
    <3> QED
      BY <3>1
  <2> QED
    BY <1>1, <1>3, <2>1 DEF SInv, LogFollows
<1>8. SeenInTime(i)'
  <2>1. ASSUME NEW t \in 1..(w + 1)
        PROVE  /\ seen'[i][t] <= a
               /\ \A j \in 1..Len(journal[i]) : journal[i][j].slot <= seen'[i][t] <=> journal[i][j].at < t
    <3>1. CASE t = w + 1
      <4>1. ASSUME NEW j \in 1..Len(journal[i])
            PROVE  journal[i][j].slot <= a /\ journal[i][j].at < w + 1
        <5>1. journal[i][j].slot \in 1..a /\ journal[i][j].at <= w /\ journal[i][j].at \in Nat
          BY <1>1, <1>2, ReplicaTyped DEF SInv, LogFollows
        <5> QED
          BY <5>1
      <4> QED
        BY <1>4, <3>1, <4>1
    <3>2. CASE t # w + 1
      <4>1. t \in 1..w
        BY <3>2
      <4> QED
        BY <1>2, <1>4, <4>1 DEF SInv, SeenInTime
    <3> QED
      BY <3>1, <3>2
  <2> QED
    BY <1>1, <1>2, <1>3, <1>4, <2>1 DEF SeenInTime
<1>9. ASSUME NEW p \in Replicas \ {i}
      PROVE  LogFollows(p)' /\ SeenInTime(p)'
  <2>1. Len(log) <= Len(log')
    BY <1>1, LenProperties DEF RTypes
  <2> QED
    BY <1>1, <1>3, <1>5, <2>1, ReplicaKept DEF SInv
<1> QED
  BY <1>5, <1>6, <1>7, <1>8, <1>9 DEF SInv

\* Every action keeps what is recorded of each second true.
LEMMA SnapshotsStep == SInv /\ [RNext]_rvars => SInv'
<1> SUFFICES ASSUME SInv, [RNext]_rvars PROVE SInv'
  OBVIOUS
<1>1. CASE UNCHANGED rvars
  <2>1. UNCHANGED vars /\ UNCHANGED logs
    BY <1>1 DEF rvars
  <2>2. RTypes'
    BY <2>1, TypeStep DEF SInv, RTypes, logs
  <2> QED
    BY <2>1, <2>2 DEF SInv, ClocksAgree, LogFollows, SeenInTime, vars, logs
<1> QED
  BY <1>1, DecideKeeps, ApplyKeeps, BecomeLeaderKeeps, TimeKeeps DEF RNext

\* At the start the logs are empty.
LEMMA InitReplay == RInit => SInv
<1> SUFFICES ASSUME RInit PROVE SInv
  OBVIOUS
<1>1. /\ TypeOK /\ clock = 0 /\ log = <<>> /\ Len(log) = 0
      /\ log \in Seq(EntryRecord) /\ MaxSkew \in Nat
  BY InitType, TaskManagerAssumption DEF RInit, Init
<1>2. ASSUME NEW i \in Replicas
      PROVE  wall[i] = 0 /\ applied[i] = 0 /\ journal[i] = <<>> /\ unlogged[i] = {} /\ seen[i] = <<>>
  BY DEF RInit
<1>3. RTypes
  BY <1>1 DEF RInit, RTypes
<1>4. ClocksAgree
  BY <1>1, <1>2 DEF ClocksAgree
<1>5. ASSUME NEW i \in Replicas
      PROVE  LogFollows(i) /\ SeenInTime(i)
  BY <1>1, <1>2 DEF LogFollows, SeenInTime
<1> QED
  BY <1>3, <1>4, <1>5 DEF SInv

\* At each step tm-replay shows of a replica what it had applied and logged
\* when its clock left the second of the latest stamp so far, however late
\* it applied the rest and whichever clocks stamped the steps.
THEOREM HonestSnapshots == RSpec => []SnapshotsAreHonest
<1>1. RInit => SInv
  BY InitReplay
<1>2. SInv /\ [RNext]_rvars => SInv'
  BY SnapshotsStep
<1>3. SInv => SnapshotsAreHonest
  BY SnapshotsFollow
<1> QED
  BY <1>1, <1>2, <1>3, PTL DEF RSpec

-----------------------------------------------------------------------------
(* Reclaims.                                                               *)

\* A task has an owner exactly while it has a token.
OwnersHaveTokens == \A i \in TaskId : tasks[i].agent = NoAgent <=> tasks[i].token = NoToken

LogIsCurrent == TasksAfter(Len(log)) = tasks

\* Entry k hands over what ReclaimsAreTrue says.
TrueReclaims(k) ==
    \A i \in DOMAIN TasksAfter(k - 1) :
       LET old == TasksAfter(k - 1)[i]
           new == TasksAfter(k)[i]
       IN  i \in Reclaims(k)
           <=> /\ old.token # NoToken /\ new.token \notin {NoToken, old.token}
               /\ LeaseExpired(old, log[k].now)
               /\ old.agent # new.agent

QInv ==
    /\ SInv /\ TokensIdentifyHolders /\ OwnersHaveTokens /\ LogIsCurrent
    /\ \A k \in 1..Len(log) : TrueReclaims(k)

\* An owner goes, stays, or makes way for one with a new token.
LEMMA OwnersStep ==
    ASSUME TypeOK, TokensIdentifyHolders, OwnersHaveTokens, [Next]_vars
    PROVE  /\ OwnersHaveTokens'
           /\ \A i \in TaskId : tasks'[i].token = tasks[i].token => tasks'[i].agent = tasks[i].agent
<1>0. \A i \in TaskId : i \in 1..Len(tasks')
  BY TasksStay
<1>1. CASE NothingGranted
  <2>1. OwnersHaveTokens'
    BY <1>1 DEF OwnersHaveTokens, NothingGranted
  <2>2. \A i \in TaskId : tasks'[i].token = tasks[i].token => tasks'[i].agent = tasks[i].agent
    BY <1>0, <1>1 DEF OwnersHaveTokens, NothingGranted
  <2> QED
    BY <2>1, <2>2
<1>2. ASSUME NEW a \in Agents, NEW prefer \in TaskType \cup {"any"}, NEW now \in Stamps,
             NEW i \in TaskId, Claim(a, prefer, now, i)
      PROVE  /\ OwnersHaveTokens'
             /\ \A j \in TaskId : tasks'[j].token = tasks[j].token => tasks'[j].agent = tasks[j].agent
  <2>1. /\ Len(tasks') = Len(tasks) /\ \A j \in TaskId \ {i} : tasks'[j] = tasks[j]
        /\ tasks'[i].token = nextToken /\ tasks'[i].agent = a
    BY <1>2, ClaimEffect
  <2>2. nextToken # 0 /\ nextToken \in Nat /\ tasks[i].token < nextToken /\ a # NoAgent
    BY TaskManagerAssumption DEF TypeOK, TokensIdentifyHolders
  <2>3. OwnersHaveTokens'
    BY <2>1, <2>2 DEF OwnersHaveTokens
  <2> QED
    BY <2>1, <2>2, <2>3
<1>3. ASSUME NEW a \in Agents, NEW m \in 1..MaxTasks, NEW tok \in SentTokens,
             NEW now \in Stamps, MainLockAcquire(a, m, tok, now)
      PROVE  tasks' = tasks
  BY <1>3 DEF MainLockAcquire
<1>4. CASE tasks' = tasks
  BY <1>4 DEF OwnersHaveTokens
<1> QED
  BY <1>1, <1>2, <1>3, <1>4, GrantingSteps

\* A decided request adds an entry whose reclaims are true.
LEMMA DecideReclaims ==
    ASSUME QInv, SInv', NEW l \in Replicas, Decide(l)
    PROVE  QInv'
<1>1. TypeOK /\ TypeOK' /\ wall[l] \in Stamps /\ [Next]_vars /\ log \in Seq(EntryRecord)
  BY DecideStep DEF QInv, SInv, RTypes
<1>2. PICK n \in Nat : n = Len(log)
  BY <1>1, LenProperties
<1>3. /\ Len(log') = n + 1 /\ log'[n + 1].now = wall[l] /\ log'[n + 1].tasks = tasks'
      /\ \A k \in 1..n : log'[k] = log[k]
  <2>1. Entry(wall[l]).now = wall[l] /\ Entry(wall[l]).tasks = tasks'
    BY DEF Entry
  <2>2. log' = Append(log, Entry(wall[l]))
    BY DEF Decide
  <2> HIDE DEF Entry
  <2> QED
    BY <1>1, <1>2, <2>1, <2>2
<1>4. \A k \in 0..n : TasksAfter(k)' = TasksAfter(k)
  BY <1>3 DEF TasksAfter
<1>5. TasksAfter(n)' = tasks /\ TasksAfter(n + 1)' = tasks'
  <2>1. TasksAfter(n) = tasks
    BY <1>2 DEF QInv, LogIsCurrent
  <2>2. TasksAfter(n)' = TasksAfter(n)
    BY <1>4
  <2>3. TasksAfter(n + 1)' = log'[n + 1].tasks
    BY DEF TasksAfter
  <2> QED
    BY <1>3, <2>1, <2>2, <2>3
<1>6. TokensIdentifyHolders' /\ OwnersHaveTokens'
  BY <1>1, TokensStep, OwnersStep DEF QInv
<1>7. LogIsCurrent'
  BY <1>3, <1>5 DEF LogIsCurrent
<1>8. TrueReclaims(n + 1)'
  <2>1. (n + 1) - 1 = n /\ DOMAIN tasks = TaskId /\ DOMAIN tasks' = 1..Len(tasks')
    BY <1>1, LenProperties DEF TypeOK
  <2>2. /\ \A i \in TaskId : i \in 1..Len(tasks')
        /\ \A i \in TaskId : tasks'[i].token = tasks[i].token => tasks'[i].agent = tasks[i].agent
    BY <1>1, TasksStay, OwnersStep DEF QInv
  <2>3. \A i \in TaskId : Owner(i, n)' = tasks[i].agent /\ Owner(i, n + 1)' = tasks'[i].agent
    BY <1>5, <2>1, <2>2 DEF Owner
  <2>4. \A i \in TaskId : i \in Reclaims(n + 1)' <=>
           tasks[i].agent # NoAgent /\ tasks'[i].agent \notin {NoAgent, tasks[i].agent}
    BY <1>5, <2>1, <2>2, <2>3 DEF Reclaims
  <2>5. ASSUME NEW i \in TaskId,
               tasks[i].token # NoToken, tasks'[i].token \notin {NoToken, tasks[i].token}
        PROVE  LeaseExpired(tasks[i], wall[l])
    <3>1. CASE Request(wall[l])
      BY <1>1, <2>5, <3>1, RequestReclaims DEF QInv
    <3>2. CASE UNCHANGED vars
      BY <2>5, <3>2 DEF vars
    <3> QED
      BY <3>1, <3>2 DEF Decide
  <2>6. ASSUME NEW i \in TaskId
        PROVE  i \in Reclaims(n + 1)' <=>
                 /\ tasks[i].token # NoToken /\ tasks'[i].token \notin {NoToken, tasks[i].token}
                 /\ LeaseExpired(tasks[i], wall[l])
                 /\ tasks[i].agent # tasks'[i].agent
    <3>1. /\ tasks[i].agent = NoAgent <=> tasks[i].token = NoToken
          /\ tasks'[i].agent = NoAgent <=> tasks'[i].token = NoToken
      BY <1>6, <2>2 DEF QInv, OwnersHaveTokens
    <3> QED
      BY <2>2, <2>4, <2>5, <3>1
  <2> QED
    BY <1>3, <1>5, <2>1, <2>6 DEF TrueReclaims, LeaseExpired
<1>9. ASSUME NEW k \in 1..n PROVE TrueReclaims(k)'
  <2>1. TrueReclaims(k)
    BY <1>2 DEF QInv
  <2>2. TasksAfter(k)' = TasksAfter(k) /\ TasksAfter(k - 1)' = TasksAfter(k - 1)
    BY <1>4
  <2>3. \A i : Owner(i, k)' = Owner(i, k) /\ Owner(i, k - 1)' = Owner(i, k - 1)
    BY <2>2 DEF Owner
  <2>4. Reclaims(k)' = Reclaims(k)
    BY <2>2, <2>3 DEF Reclaims
  <2>5. log'[k] = log[k]
    BY <1>3
  <2> QED
    BY <2>1, <2>2, <2>4, <2>5 DEF TrueReclaims, LeaseExpired
<1>10. \A k \in 1..Len(log') : k \in 1..n \/ k = n + 1
  BY <1>3
<1> QED
  BY <1>6, <1>7, <1>8, <1>9, <1>10 DEF QInv

\* Every action keeps the reclaims in the log true.
LEMMA ReclaimsStep == QInv /\ [RNext]_rvars => QInv'
<1> SUFFICES ASSUME QInv, [RNext]_rvars PROVE QInv'
  OBVIOUS
<1>1. SInv'
  BY SnapshotsStep DEF QInv
<1>2. ASSUME NEW l \in Replicas, Decide(l) PROVE QInv'
  BY <1>1, <1>2, DecideReclaims
<1>3. ASSUME UNCHANGED <<tasks, lock, nextToken, log>>
      PROVE  QInv'
  <2>1. \A k : TasksAfter(k)' = TasksAfter(k)
    BY <1>3 DEF TasksAfter
  <2>2. \A i, k : Owner(i, k)' = Owner(i, k)
    BY <2>1 DEF Owner
  <2>3. \A k : Reclaims(k)' = Reclaims(k)
    BY <2>1, <2>2 DEF Reclaims
  <2>4. ASSUME NEW k \in 1..Len(log) PROVE TrueReclaims(k)'
    <3>1. TrueReclaims(k)
      BY DEF QInv
    <3> QED
      BY <1>3, <2>1, <2>3, <3>1 DEF TrueReclaims, LeaseExpired
  <2>5. TokensIdentifyHolders' /\ OwnersHaveTokens'
    BY <1>3 DEF QInv, TokensIdentifyHolders, OwnersHaveTokens
  <2>6. LogIsCurrent'
    BY <1>3, <2>1 DEF QInv, LogIsCurrent
  <2> QED
    BY <1>1, <1>3, <2>4, <2>5, <2>6 DEF QInv
<1>4. ASSUME NEW i \in Replicas, Apply(i) \/ BecomeLeader(i) \/ TimePasses(i)
      PROVE  UNCHANGED <<tasks, lock, nextToken, log>>
  BY <1>4 DEF Apply, BecomeLeader, TimePasses, Tick, vars
<1>5. UNCHANGED rvars => UNCHANGED <<tasks, lock, nextToken, log>>
  BY DEF rvars, vars, logs
<1> QED
  BY <1>2, <1>3, <1>4, <1>5 DEF RNext

\* Until the first log has a hole, a lease_reclaim event of the visualizer is
\* a task that passed from one agent to another after its lease had lapsed by
\* the stamp of the claim, and none of these is missed.
THEOREM TrueReclaimEvents == RSpec => []ReclaimsAreTrue
<1>1. RInit => QInv
  <2> SUFFICES ASSUME RInit PROVE QInv
    OBVIOUS
  <2>1. tasks = <<>> /\ log = <<>> /\ Init
    BY DEF RInit, Init
  <2>2. SInv /\ TokensIdentifyHolders
    BY <2>1, InitReplay, InitTokens
  <2>3. OwnersHaveTokens /\ LogIsCurrent /\ Len(log) = 0
    BY <2>1 DEF OwnersHaveTokens, LogIsCurrent, TasksAfter
  <2> QED
    BY <2>2, <2>3 DEF QInv
<1>2. QInv /\ [RNext]_rvars => QInv'
  BY ReclaimsStep
<1>3. QInv => ReclaimsAreTrue
  <2> SUFFICES ASSUME QInv, NEW k \in Steps, Gapless(k)
               PROVE  TrueReclaims(k) /\ Stamp(k) = log[k].now
    BY DEF ReclaimsAreTrue, TrueReclaims, LeaseExpired
  <2>1. journal[1][k].slot \in 1..Len(log)
    BY StepsAreEntries DEF QInv
  <2>2. journal[1][k].slot = k
    <3>1. Len(journal[1]) \in Nat
      BY ReplayAssumption, ReplicaTyped DEF QInv, SInv, Replicas
    <3> QED
      BY <3>1 DEF Gapless, Steps
  <2> QED
    BY <2>1, <2>2 DEF QInv, Stamp
<1> QED
  BY <1>1, <1>2, <1>3, PTL DEF RSpec

\* The states in the decision logs are states of the task manager: to log
\* decisions, with the stamps of different clocks, and to apply them late
\* adds nothing to what it does.
THEOREM LogsRecordTaskManager == RSpec => Spec
<1>1. RInit => Init /\ SInv
  BY InitReplay DEF RInit
<1>2. SInv /\ [RNext]_rvars => SInv'
  BY SnapshotsStep
<1>3. SInv /\ [RNext]_rvars => [Next]_vars
  <2> SUFFICES ASSUME SInv, [RNext]_rvars PROVE [Next]_vars
    OBVIOUS
  <2>1. ASSUME NEW i \in Replicas, Apply(i) \/ BecomeLeader(i) \/ TimePasses(i)
        PROVE  [Next]_vars
    BY <2>1 DEF Apply, BecomeLeader, TimePasses, Next
  <2>2. UNCHANGED rvars => UNCHANGED vars
    BY DEF rvars
  <2> QED
    BY <2>1, <2>2, DecideStep DEF RNext
<1> QED
  BY <1>1, <1>2, <1>3, PTL DEF RSpec, Spec
=============================================================================
