-------------------------------- MODULE FSM ---------------------------------
(***************************************************************************)
(* What an entry of the Raft log does to the streams and partitions of a   *)
(* server (fsm.go, stream.go and the part of partition.go that starts and  *)
(* stops a partition), and what a snapshot of them holds and restores.     *)
(* Every definition is a function of the streams it is given; Metadata     *)
(* has the servers.                                                        *)
(***************************************************************************)
EXTENDS Integers, Sequences, FiniteSets

CONSTANTS
    Server,         \* the servers of the cluster
    Stream,         \* the names of streams
    Partition       \* the ids of the partitions of a stream, from 0

-----------------------------------------------------------------------------
\* Partitions and streams.

\* newPartition; obj tells a partition object from the one that replaces it: it
\* is the entry that created it, 0 for one that was restored.
\* replicas is the map of the object, assigned the list in its protobuf.
NewPartition(leader, replicas, epoch, leaderEpoch, recovered) ==
    [obj |-> epoch, leader |-> leader, leaderEpoch |-> leaderEpoch, epoch |-> epoch,
     replicas |-> replicas, assigned |-> replicas, isr |-> replicas,
     paused |-> FALSE, recovered |-> recovered, runs |-> "no"]

\* startLeadingOrFollowing: a server that is neither the leader nor a
\* replica is left as it is.
StartLeadingOrFollowing(n, p) ==
    [p EXCEPT !.runs = IF p.leader = n THEN "leader"
                       ELSE IF n \in p.replicas THEN "follower" ELSE @]

\* Mutant: a partition that is recovered keeps its leader.
SetLeaderLater(n, p, leader, epoch) ==
    LET q == [p EXCEPT !.leader = leader, !.leaderEpoch = epoch]
    IN IF p.recovered THEN p ELSE StartLeadingOrFollowing(n, q)
\* Mutant: the new leader continues the epoch of the old one.
SetLeaderOnly(n, p, leader, epoch) ==
    LET q == [p EXCEPT !.leader = leader]
    IN IF p.recovered THEN q ELSE StartLeadingOrFollowing(n, q)
SetLeader(n, p, leader, epoch) ==
    LET q == [p EXCEPT !.leader = leader, !.leaderEpoch = epoch]
    IN IF p.recovered THEN q ELSE StartLeadingOrFollowing(n, q)

\* Mutant: the partition is not started.
StartRecoveredLater(n, p) == [p EXCEPT !.recovered = FALSE]
StartRecovered(n, p) ==
    IF ~p.recovered \/ p.paused THEN p
    ELSE [StartLeadingOrFollowing(n, p) EXCEPT !.recovered = FALSE]

\* Pause; close does nothing for a partition that is closed already.
Pause(p) == IF p.paused THEN p ELSE [p EXCEPT !.paused = TRUE, !.runs = "no"]

\* The streams of a server: name |-> partition id |-> partition.
HasPartition(st, s, p) == s \in DOMAIN st /\ p \in DOMAIN st[s]
With(f, k, v) == [x \in DOMAIN f \cup {k} |-> IF x = k THEN v ELSE f[x]]
Without(f, k) == [x \in DOMAIN f \ {k} |-> f[x]]
SetPartition(st, s, p, x) ==
    With(st, s, With(IF s \in DOMAIN st THEN st[s] ELSE <<>>, p, x))
Partitions(st) == UNION {{<<s, p>> : p \in DOMAIN st[s]} : s \in DOMAIN st}

-----------------------------------------------------------------------------
\* fsm.go: the effect of one entry of the log on the streams of server n.

\* Mutant: a partition is started although the entry is replayed.
CreateStarted(n, st, op, i, recovered) ==
    IF HasPartition(st, op.stream, op.partition) /\ ~st[op.stream][op.partition].paused
    THEN st
    ELSE SetPartition(st, op.stream, op.partition,
             SetLeader(n, NewPartition(op.leader, op.replicas, i, i, FALSE), op.leader, i))
\* AddPartition: ErrPartitionExists, unless the partition is paused.
ApplyCreatePartition(n, st, op, i, recovered) ==
    IF HasPartition(st, op.stream, op.partition) /\ ~st[op.stream][op.partition].paused
    THEN st
    ELSE SetPartition(st, op.stream, op.partition,
             SetLeader(n, NewPartition(op.leader, op.replicas, i, i, recovered), op.leader, i))

ApplyShrinkISR(p, op, i) == [p EXCEPT !.isr = @ \ {op.replica}, !.epoch = i]
ApplyExpandISR(p, op, i) == [p EXCEPT !.isr = @ \cup {op.replica}, !.epoch = i]
\* Mutant: the epoch of the partition is not set.
ChangeLeaderEpochOnly(n, p, op, i) == SetLeader(n, p, op.leader, i)
ApplyChangePartitionLeader(n, p, op, i) ==
    [SetLeader(n, p, op.leader, i) EXCEPT !.epoch = i]

\* The partition of an entry may be newer than the entry: the idempotency check.
\* Mutant: there is no such check.
NeverApplied(p, i) == FALSE
AlreadyApplied(p, i) == p.epoch >= i

ApplyDeleteStream(st, op) == Without(st, op.stream)

\* Nothing is paused when one of the partitions does not exist.
ApplyPauseStream(st, op) ==
    LET s == op.stream
    IN IF s \notin DOMAIN st \/ ~(op.partitions \subseteq DOMAIN st[s]) THEN st
       ELSE LET toPause == IF op.partitions = {} THEN DOMAIN st[s] ELSE op.partitions
            IN [st EXCEPT ![s] = [p \in DOMAIN @ |-> IF p \in toPause THEN Pause(@[p]) ELSE @[p]]]

\* apply
ApplyEntry(n, st, op, i, recovered) ==
    CASE op.type = "create" -> ApplyCreatePartition(n, st, op, i, recovered)
      [] op.type = "delete" -> ApplyDeleteStream(st, op)
      [] op.type = "pause"  -> ApplyPauseStream(st, op)
      [] OTHER ->
           LET p == st[op.stream][op.partition]
               q == CASE op.type = "shrink" -> ApplyShrinkISR(p, op, i)
                      [] op.type = "expand" -> ApplyExpandISR(p, op, i)
                      [] op.type = "elect"  -> ApplyChangePartitionLeader(n, p, op, i)
           IN IF AlreadyApplied(p, i) THEN st ELSE SetPartition(st, op.stream, op.partition, q)

\* What makes Apply panic: an ISR or leader change of a partition that is
\* gone, an ISR change of a server that is no replica, an older leader epoch,
\* and the deletion of a paused partition, which closes its commit log for the
\* second time.
Panics(st, op, i) ==
    CASE op.type \in {"shrink", "expand", "elect"} ->
             \/ ~HasPartition(st, op.stream, op.partition)
             \/ LET p == st[op.stream][op.partition]
                IN /\ ~AlreadyApplied(p, i)
                   /\ IF op.type = "elect" THEN i < p.leaderEpoch ELSE op.replica \notin p.replicas
      [] op.type = "delete" ->
             op.stream \in DOMAIN st /\ \E p \in DOMAIN st[op.stream] : st[op.stream][p].paused
      [] OTHER -> FALSE

FinishedRecovery(n, st) ==
    [s \in DOMAIN st |-> [p \in DOMAIN st[s] |-> StartRecovered(n, st[s][p])]]

-----------------------------------------------------------------------------
\* Snapshots.

NoSnapshot == [index |-> 0, parts |-> <<>>]

\* Reset and Restore: a partition of the snapshot is started at once, with the
\* ISR and the replicas of its protobuf, and is not paused.  Mutant: the leader
\* is taken to have been elected by the last change.
RestoredAtEpoch(n, x) ==
    LET new == NewPartition(x.leader, x.assigned, x.epoch, x.epoch, FALSE)
    IN SetLeader(n, [new EXCEPT !.obj = 0], x.leader, x.epoch)
RestoredPartition(n, x) ==
    LET new == NewPartition(x.leader, x.assigned, x.epoch, x.leaderEpoch, FALSE)
    IN SetLeader(n, [new EXCEPT !.obj = 0], x.leader, x.leaderEpoch)
\* Mutant: the streams of the snapshot are not created again.
RestoredNothing(n, parts) == <<>>
Restored(n, parts) ==
    [s \in {k[1] : k \in DOMAIN parts} |->
       [p \in {q \in Partition : <<s, q>> \in DOMAIN parts} |-> RestoredPartition(n, parts[<<s, p>>])]]

\* A snapshot that is not written yet lists the protobufs of the partition
\* objects, which the server goes on changing until the object is replaced or
\* deleted.
Listed(snapshot, st) ==
    [snapshot EXCEPT !.parts =
       [k \in DOMAIN @ |->
          IF HasPartition(st, k[1], k[2]) /\ st[k[1]][k[2]].obj = @[k].obj
          THEN st[k[1]][k[2]] ELSE @[k]]]
\* Reset replaces all of them.
Detached(snapshot) ==
    [snapshot EXCEPT !.parts = [k \in DOMAIN @ |-> [@[k] EXCEPT !.obj = -1]]]
=============================================================================
