------------------------------ MODULE Metadata ------------------------------
(***************************************************************************)
(* The cluster metadata: the servers, each of which feeds its FSM with the *)
(* committed entries of one Raft log (FSM), the metadataAPI of the         *)
(* controller, which puts entries into that log (metadata.go), and the     *)
(* handling of Raft leadership, snapshots, restarts and recovery.          *)
(*                                                                         *)
(* Raft is external: entries are committed in one order, only the Raft     *)
(* leader adds to them, and each server applies them in that order.  A     *)
(* request may be lost, delayed and repeated on its way to the controller, *)
(* so it is not kept: the controller performs it at any time after someone *)
(* may have sent it.  What a partition does while it leads or follows is   *)
(* in Replication and PartitionLeader.                                     *)
(***************************************************************************)
EXTENDS FSM, TLC

CONSTANTS
    Absent,         \* the servers that are down all the time
    None,           \* no server
    Scenarios       \* name |-> the inputs and the bounds of a group of behaviours

Operation == {"create", "shrink", "expand", "elect", "delete", "pause"}

ASSUME MetadataAssumption ==
    /\ None \notin Server /\ Absent \subseteq Server
    /\ 0 \in Partition /\ Partition = 0 .. Cardinality(Partition) - 1
    /\ \A x \in DOMAIN Scenarios :
         /\ Scenarios[x].factors \subseteq 1 .. Cardinality(Server)
         /\ Scenarios[x].partitions \subseteq Partition
         /\ Scenarios[x].pauses \subseteq SUBSET Partition
         /\ Scenarios[x].ops \in [Operation -> Nat]

VARIABLES
    log,        \* the committed entries of the Raft log
    raft,       \* the Raft leader, and how long the log was when it was elected
    node,       \* what each server has in memory
    snap,       \* the snapshot each server has on disk
    count       \* the scenario, and how often each bounded event happened

vars == <<log, raft, node, snap, count>>

-----------------------------------------------------------------------------
\* Servers.

\* A server that has just started and has no snapshot.  recover is the index
\* at which recovery ends, -1 until the first entry is applied.
Started == [status |-> "up", applied |-> 0, recover |-> -1, restored |-> FALSE,
            streams |-> <<>>, leader |-> FALSE, notify |-> <<>>, reports |-> <<>>,
            persist |-> NoSnapshot]

Up(n) == node[n].status = "up"
View(n) == node[n].streams
Part(n, s, p) == View(n)[s][p]
Recovering(n) == node[n].recover > node[n].applied

\* What a behaviour is bounded by: the partitions, replication factors and sets
\* of partitions to pause that clients ask for, the entries of each operation
\* and of the log, and the Raft elections, restarts, snapshots and leader
\* reports.
Bound == Scenarios[count.scenario]

Init ==
    /\ log = <<>>
    /\ raft = [leader |-> None, start |-> 0]
    /\ node = [n \in Server |->
                 IF n \in Absent THEN [Started EXCEPT !.status = "down"] ELSE Started]
    /\ snap = [n \in Server |-> NoSnapshot]
    /\ \E x \in DOMAIN Scenarios :
         count = [scenario |-> x, terms |-> 0, crashes |-> 0, snapshots |-> 0, reports |-> 0]

MayPropose(type) ==
    /\ Len(log) < Bound.log
    /\ Cardinality({i \in 1 .. Len(log) : log[i].type = type}) < Bound.ops[type]

\* applyRaftOperation on the Raft leader.
Propose(op) == MayPropose(op.type) /\ log' = Append(log, op)

\* A server performs a request, its own or one propagated to it, if it takes
\* itself for the controller when the request arrives, and Raft accepts the
\* entry if it is the Raft leader when it proposes it; it may have lost and
\* regained the leadership in between.
Handles(n) == Up(n) /\ raft.leader = n

\* propagateRequest: another server sends the request to the controller.
Propagate(op) == raft.leader # None /\ node[raft.leader].leader /\ Propose(op)

\* getPartitionReplicas and selectRandomReplica
Assignments(factor) ==
    UNION {{R} \X R : R \in {Q \in SUBSET Server : Cardinality(Q) = factor}}
CreateOp(s, p, a) ==
    [type |-> "create", stream |-> s, partition |-> p, replicas |-> a[1], leader |-> a[2]]

\* The API's CreateStream creates the partitions of a stream one by one.
CreatePartition(n, s, p) ==
    /\ Handles(n) /\ p \in Bound.partitions
    /\ MayPropose("create")
    /\ p = 0 \/ \E i \in 1 .. Len(log) :
                  log[i].type = "create" /\ log[i].stream = s /\ log[i].partition = p - 1
    /\ \E f \in Bound.factors : \E a \in Assignments(f) : Propose(CreateOp(s, p, a))
    /\ UNCHANGED <<raft, node, snap, count>>

DeleteStream(n, s) ==
    /\ Handles(n)
    /\ Propose([type |-> "delete", stream |-> s])
    /\ UNCHANGED <<raft, node, snap, count>>

\* No partitions: all of them.
PauseStream(n, s, ps) ==
    /\ Handles(n)
    /\ Propose([type |-> "pause", stream |-> s, partitions |-> ps])
    /\ UNCHANGED <<raft, node, snap, count>>

\* resumeStream and unpausePartition: publishing to a paused partition, or to
\* one whose stream was paused with ResumeAll, creates it again.  A server
\* that takes itself for the controller hands CreatePartition the protobuf of
\* its live partition, which gets the new assignment before it is committed.
Resume(n, s, p) ==
    /\ Up(n) /\ HasPartition(View(n), s, p) /\ Part(n, s, p).paused
    /\ \E a \in Assignments(Cardinality(Part(n, s, p).assigned)) :
         IF node[n].leader \/ raft.leader = n
         THEN /\ LET st == [View(n) EXCEPT ![s][p].assigned = a[1], ![s][p].leader = a[2]]
                 IN node' = [node EXCEPT ![n].streams = st, ![n].persist = Listed(@, st)]
              /\ IF raft.leader = n THEN Propose(CreateOp(s, p, a)) ELSE UNCHANGED log
         ELSE Propagate(CreateOp(s, p, a)) /\ UNCHANGED node
    /\ UNCHANGED <<raft, snap, count>>

\* The leader epoch in a request of server m about a partition is the one the
\* controller n knows, so m has been in that epoch.
SameGeneration(n, m, s, p) == Up(n) /\ Up(m) /\ node[m].applied >= Part(n, s, p).leaderEpoch

\* A partition leader asks for a change of its ISR.
ISRRequest(n, s, p, r) ==
    /\ Handles(n) /\ HasPartition(View(n), s, p)
    /\ LET leader == Part(n, s, p).leader
       IN SameGeneration(n, leader, s, p) /\ r \in Part(n, s, p).replicas \ {leader}

ShrinkISR(n, s, p, r) ==
    /\ ISRRequest(n, s, p, r)
    /\ Propose([type |-> "shrink", stream |-> s, partition |-> p, replica |-> r])
    /\ UNCHANGED <<raft, node, snap, count>>

ExpandISR(n, s, p, r) ==
    /\ ISRRequest(n, s, p, r)
    /\ Propose([type |-> "expand", stream |-> s, partition |-> p, replica |-> r])
    /\ UNCHANGED <<raft, node, snap, count>>

\* The reports of a controller: a partition object |-> its report.  electing is
\* the entry that addWitness waits for while it holds the report's lock.
NoReport == [witnesses |-> {}, timer |-> FALSE, electing |-> 0]
ReportOf(n, k) == IF k \in DOMAIN node[n].reports THEN node[n].reports[k] ELSE NoReport
Waiting(n, k) == ReportOf(n, k).electing > node[n].applied

\* electNewPartitionLeader: the entry names the stream and the leader only, and
\* its partition is 0 when it is read.
ElectNewPartitionLeader(n, s, p, report) ==
    LET part == Part(n, s, p)
        k == <<s, p, part.obj>>
        candidates == IF Cardinality(part.isr) <= 1 THEN {} ELSE part.isr \ {part.leader}
    IN IF candidates = {} \/ raft.leader # n
       THEN node' = [node EXCEPT ![n].reports = With(@, k, report)] /\ UNCHANGED log
       ELSE /\ \E l \in candidates :
                  Propose([type |-> "elect", stream |-> s, partition |-> 0, leader |-> l])
            /\ node' = [node EXCEPT ![n].reports =
                          With(@, k, [report EXCEPT !.electing = Len(log) + 1])]

\* ReportLeader and addWitness: replica w reports the leader.
ReportLeader(n, s, p, w) ==
    /\ node[n].leader \/ raft.leader = n
    /\ HasPartition(View(n), s, p) /\ SameGeneration(n, w, s, p)
    /\ LET part == Part(n, s, p)
           k == <<s, p, part.obj>>
           report == [ReportOf(n, k) EXCEPT !.witnesses = @ \cup {w}]
           leaderFailed == Cardinality(report.witnesses) > (Cardinality(part.isr) - 1) \div 2
       IN /\ w \in part.replicas \ {part.leader}
          /\ ~Waiting(n, k)
          /\ IF leaderFailed
             THEN ElectNewPartitionLeader(n, s, p, [report EXCEPT !.timer = FALSE])
             ELSE /\ node' = [node EXCEPT ![n].reports =
                                 With(@, k, [report EXCEPT !.timer = TRUE])]
                  /\ UNCHANGED log
    /\ count.reports < Bound.reports
    /\ count' = [count EXCEPT !.reports = @ + 1]
    /\ UNCHANGED <<raft, snap>>

\* The timer of a report expires.
ExpireReport(n, k) ==
    /\ Up(n) /\ k \in DOMAIN node[n].reports /\ node[n].reports[k].timer
    /\ node' = [node EXCEPT ![n].reports = Without(@, k)]
    /\ UNCHANGED <<log, raft, snap, count>>

-----------------------------------------------------------------------------
\* Applying the log, snapshots and restarts.

\* CloseAndDeleteStream waits for the lock of each report of the stream.
Blocked(n, op) ==
    /\ op.type = "delete" /\ op.stream \in DOMAIN View(n)
    /\ \E k \in DOMAIN node[n].reports : k[1] = op.stream /\ Waiting(n, k)

\* recoverLatestCommittedFSMLog: the last entry that is committed when the first
\* one is applied.  If the two are the same, there may be nothing to recover:
\* that depends on Raft's own entries in the log.
RecoverTo(n) ==
    IF node[n].recover # -1 THEN {node[n].recover}
    ELSE {Len(log)} \cup (IF node[n].applied + 1 = Len(log) THEN {0} ELSE {})

Apply(n) ==
    LET i  == node[n].applied + 1
        op == log[i]
        Left(reports) == {k \in DOMAIN reports : op.type # "delete" \/ k[1] # op.stream}
    IN /\ Up(n) /\ i <= Len(log) /\ ~Blocked(n, op)
       /\ IF Panics(View(n), op, i)
          THEN /\ node' = [node EXCEPT ![n] = [Started EXCEPT !.status = "panicked", !.applied = i]]
               /\ raft' = IF raft.leader = n THEN [raft EXCEPT !.leader = None] ELSE raft
          ELSE /\ \E r \in RecoverTo(n) :
                    LET new == ApplyEntry(n, View(n), op, i, i <= r)
                        st  == IF i = r THEN FinishedRecovery(n, new) ELSE new
                    IN node' = [node EXCEPT
                         ![n].applied = i,
                         ![n].recover = IF i < r THEN r ELSE 0,
                         ![n].streams = st,
                         ![n].persist = Listed(@, st),
                         ![n].reports = [k \in Left(@) |-> @[k]]]
               /\ UNCHANGED raft
       /\ UNCHANGED <<log, snap, count>>

\* Snapshot lists the protobufs of the partitions; Persist writes them down.
Snapshot(n) ==
    /\ Up(n) /\ node[n].applied > snap[n].index /\ node[n].persist = NoSnapshot
    /\ count.snapshots < Bound.snapshots
    /\ node' = [node EXCEPT ![n].persist =
                  [index |-> node[n].applied,
                   parts |-> [k \in Partitions(View(n)) |-> Part(n, k[1], k[2])]]]
    /\ count' = [count EXCEPT !.snapshots = @ + 1]
    /\ UNCHANGED <<log, raft, snap>>

Persist(n) ==
    /\ Up(n) /\ node[n].persist # NoSnapshot
    /\ snap' = [snap EXCEPT ![n] = node[n].persist]
    /\ node' = [node EXCEPT ![n].persist = NoSnapshot]
    /\ UNCHANGED <<log, raft, count>>

\* A server that lags behind the log the Raft leader m has kept gets its
\* snapshot.
InstallSnapshot(n, m) ==
    /\ Up(n) /\ raft.leader = m /\ m # n
    /\ node[n].applied < snap[m].index
    /\ snap' = [snap EXCEPT ![n] = snap[m]]
    /\ node' = [node EXCEPT ![n].streams = Restored(n, snap[m].parts), ![n].reports = <<>>,
                            ![n].applied = snap[m].index, ![n].restored = TRUE,
                            ![n].persist = Detached(@)]
    /\ UNCHANGED <<log, raft, count>>

\* Stop or a crash.
Crash(n) ==
    /\ Up(n) /\ count.crashes < Bound.crashes
    /\ node' = [node EXCEPT ![n] = [Started EXCEPT !.status = "down"]]
    /\ raft' = IF raft.leader = n THEN [raft EXCEPT !.leader = None] ELSE raft
    /\ count' = [count EXCEPT !.crashes = @ + 1]
    /\ UNCHANGED <<log, snap>>

\* setupMetadataRaft: Raft restores the snapshot, if there is one.
Start(n) ==
    /\ node[n].status = "down" /\ n \notin Absent
    /\ node' = [node EXCEPT ![n] =
                  [Started EXCEPT !.applied = snap[n].index, !.restored = snap[n] # NoSnapshot,
                                  !.streams = Restored(n, snap[n].parts)]]
    /\ UNCHANGED <<log, raft, snap, count>>

-----------------------------------------------------------------------------
\* Leadership of the Raft group.

Elect(n) ==
    /\ Up(n) /\ raft.leader # n /\ count.terms < Bound.terms
    /\ raft' = [leader |-> n, start |-> Len(log)]
    /\ node' = [m \in Server |->
                  IF m = n THEN [node[m] EXCEPT !.notify = Append(@, TRUE)]
                  ELSE IF m = raft.leader THEN [node[m] EXCEPT !.notify = Append(@, FALSE)]
                  ELSE node[m]]
    /\ count' = [count EXCEPT !.terms = @ + 1]
    /\ UNCHANGED <<log, snap>>

\* Mutant: there is no barrier.
LeadershipAcquiredAtOnce(n) ==
    /\ Up(n) /\ node[n].notify # <<>> /\ Head(node[n].notify)
    /\ node' = [node EXCEPT ![n].notify = Tail(@), ![n].leader = TRUE]
    /\ UNCHANGED <<log, raft, snap, count>>
\* The barrier waits until what precedes it is applied, or fails when the
\* leadership is lost meanwhile.
LeadershipAcquired(n) ==
    /\ Up(n) /\ node[n].notify # <<>> /\ Head(node[n].notify)
    /\ raft.leader = n => node[n].applied >= raft.start
    /\ node' = [node EXCEPT ![n].notify = Tail(@), ![n].leader = (raft.leader = n) \/ @]
    /\ UNCHANGED <<log, raft, snap, count>>

\* When it was lost before the barrier, the server steps down, which Raft
\* refuses a server that does not lead, and panics.
StepDown(n) ==
    /\ Up(n) /\ node[n].notify # <<>> /\ Head(node[n].notify)
    /\ raft.leader # n
    /\ node' = [node EXCEPT ![n] = [Started EXCEPT !.status = "down"]]
    /\ UNCHANGED <<log, raft, snap, count>>

LeadershipLost(n) ==
    /\ Up(n) /\ node[n].notify # <<>> /\ ~Head(node[n].notify)
    /\ \A k \in DOMAIN node[n].reports : ~Waiting(n, k)
    /\ node' = [node EXCEPT ![n].notify = Tail(@), ![n].leader = FALSE, ![n].reports = <<>>]
    /\ UNCHANGED <<log, raft, snap, count>>

Next ==
    \E n \in Server :
       \/ Apply(n) \/ Snapshot(n) \/ Persist(n) \/ Crash(n) \/ Start(n)
       \/ Elect(n) \/ LeadershipAcquired(n) \/ StepDown(n) \/ LeadershipLost(n)
       \/ \E m \in Server : InstallSnapshot(n, m)
       \/ \E s \in Stream :
             \/ DeleteStream(n, s)
             \/ \E ps \in Bound.pauses : PauseStream(n, s, ps)
             \/ \E p \in Partition :
                   \/ CreatePartition(n, s, p) \/ Resume(n, s, p)
                   \/ \E r \in Server :
                         ShrinkISR(n, s, p, r) \/ ExpandISR(n, s, p, r) \/ ReportLeader(n, s, p, r)
       \/ \E k \in DOMAIN node[n].reports : ExpireReport(n, k)

Spec == Init /\ [][Next]_vars

-----------------------------------------------------------------------------
\* Properties.

PartitionRecord ==
    [obj : Nat, leader : Server, leaderEpoch : Nat, epoch : Nat,
     replicas : SUBSET Server, assigned : SUBSET Server, isr : SUBSET Server,
     paused : BOOLEAN, recovered : BOOLEAN, runs : {"no", "leader", "follower"}]

\* The state keeps its types; the ISR of a partition is part of its replicas,
\* its leader epoch is not ahead of its epoch, and a server knows no epoch
\* that is not committed.
TypeOK ==
    /\ raft \in [leader : Server \cup {None}, start : 0 .. Len(log)]
    /\ \A n \in Server :
         /\ node[n].applied \in 0 .. Len(log)
         /\ \A k \in Partitions(View(n)) :
              LET p == Part(n, k[1], k[2])
              IN /\ p \in PartitionRecord
                 /\ p.isr \subseteq p.replicas
                 /\ p.leaderEpoch <= p.epoch /\ p.epoch <= Len(log)

\* What a server that never restored a snapshot knows of a partition.  The
\* leader and the assignment of a paused one may have been overwritten.
Known(n, k) ==
    LET p == Part(n, k[1], k[2])
    IN IF p.paused THEN <<p.epoch, p.isr, "paused">>
       ELSE <<p.epoch, p.isr, p.leader, p.leaderEpoch, p.assigned>>

\* Two servers that have applied the same entries, one of them live and the
\* other perhaps by replaying its log, know the same partitions, with the same
\* leader, epochs and ISR (Apply, fsm.go).
ViewsAgree ==
    \A m, n \in {x \in Server : Up(x) /\ ~node[x].restored} :
        node[m].applied = node[n].applied =>
            /\ Partitions(View(m)) = Partitions(View(n))
            /\ \A k \in Partitions(View(m)) : Known(m, k) = Known(n, k)

NeverPaused(s) == \A i \in 1 .. Len(log) : log[i].type = "pause" => log[i].stream # s

\* A server that restored a snapshot, whose protobufs may have been changed
\* after it was taken, and replayed the log knows every partition of a stream
\* that was never paused as the others do, but for the ISR (Restore, fsm.go).
RestoredAgrees ==
    \A m, n \in {x \in Server : Up(x) /\ node[x].applied = Len(log)} :
        \A s \in Stream :
            NeverPaused(s) =>
                /\ s \in DOMAIN View(m) <=> s \in DOMAIN View(n)
                /\ s \in DOMAIN View(m) =>
                     [p \in DOMAIN View(m)[s] |->
                        <<Part(m, s, p).leader, Part(m, s, p).leaderEpoch, Part(m, s, p).epoch>>]
                   = [p \in DOMAIN View(n)[s] |->
                        <<Part(n, s, p).leader, Part(n, s, p).leaderEpoch, Part(n, s, p).epoch>>]

\* Once a server has recovered, it leads or follows every partition it should
\* and that is not paused (StartRecovered, SetLeader, partition.go).
RunsAsViewed ==
    \A n \in {x \in Server : Up(x) /\ ~Recovering(x)} :
        \A k \in Partitions(View(n)) :
            LET p == Part(n, k[1], k[2])
            IN ~p.paused => /\ n = p.leader => p.runs = "leader"
                            /\ n \in p.replicas \ {p.leader} => p.runs = "follower"

\* A server that replays its log from the start leads and follows nothing
\* before it has replayed all of it (the comment in Apply, fsm.go).
IdleWhileRecovering ==
    \A n \in {x \in Server : Up(x) /\ Recovering(x) /\ ~node[x].restored} :
        \A k \in Partitions(View(n)) : Part(n, k[1], k[2]).runs = "no"

\* No two replicas of a partition lead it in the same leader epoch, unless one
\* of them took the partition from a snapshot and it was paused before: the
\* snapshot may hold a leader that was never committed.  A server that is no
\* replica may be elected by a report about another partition, and then never
\* stops leading (SetLeader, partition.go).
OneLeaderPerEpoch ==
    \A m, n \in Server : \A k \in Partitions(View(m)) \cap Partitions(View(n)) :
        LET p == Part(m, k[1], k[2])
            q == Part(n, k[1], k[2])
        IN /\ p.runs = "leader" /\ q.runs = "leader" /\ p.leaderEpoch = q.leaderEpoch
           /\ m \in p.replicas /\ n \in q.replicas
           /\ NeverPaused(k[1]) \/ ~(node[m].restored \/ node[n].restored)
           => m = n

\* A controller that has heard of every change of its leadership has applied
\* everything committed before its term (leadershipAcquired, server.go).
ControllerCaughtUp ==
    \A n \in Server :
        node[n].leader /\ raft.leader = n /\ node[n].notify = <<>> => node[n].applied >= raft.start

\* No entry lowers the epoch of a partition, whatever is replayed on top of a
\* snapshot that is newer than its index (the idempotency checks of fsm.go).
KeepsEpochs ==
    \A n \in Server :
        Apply(n) /\ node'[n].status = "up" =>
            \A k \in Partitions(View(n)) \cap Partitions(View(n)') :
                Part(n, k[1], k[2]).epoch <= Part(n, k[1], k[2])'.epoch
EpochNeverFalls == [][KeepsEpochs]_vars

\* Apply fails, and the server panics, only because of an entry about a stream
\* that was deleted or paused before: whatever the controller checked when it
\* proposed an entry still holds, as far as Apply depends on it, when the
\* entry is applied, live, replayed or on top of a snapshot.
AppliesEntries ==
    \A n \in {x \in Server : node[x].status = "panicked"} :
        \E i \in 1 .. node[n].applied - 1 :
            /\ log[i].type \in {"delete", "pause"}
            /\ log[i].stream = log[node[n].applied].stream
=============================================================================
