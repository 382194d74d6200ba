---------------------------- MODULE Replication ----------------------------
(***************************************************************************)
(* Replication of one partition between the servers that hold a replica    *)
(* of it: server/partition.go, server/replicator.go, the parts of          *)
(* server/metadata.go and server/fsm.go that change a partition's leader   *)
(* and in-sync replica set (ISR), and the commit log as they use it.       *)
(*                                                                         *)
(* The metadata Raft group is the sequence raftLog of committed            *)
(* operations on the partition.  Every server applies it at its own pace   *)
(* (applied), and the index of an operation is the epoch it gives to the   *)
(* partition, exactly as the FSM does.  A message is an entry of a log:    *)
(* the leader epoch that wrote it and an identity; the offset of log[n][i] *)
(* is i - 1, and offset -1 stands for "nothing".                           *)
(***************************************************************************)
EXTENDS Integers, Sequences, FiniteSets, LeaderEpochCache

CONSTANTS
    Server,             \* the replicas of the partition
    MinISR,             \* clustering.min.insync.replicas
    TruncateTimeout,    \* may the leader offset requests all time out?
    LoseTail,           \* may a crash lose messages not yet on disk?
    Ops,                \* kinds of metadata operation proposed
    MaxMessages,        \* bound on the messages published
    MaxOps,             \* bound on the length of the metadata log
    MaxCrashes          \* bound on the crashes

ASSUME ReplicationAssumption ==
    /\ IsFiniteSet(Server) /\ Server # {}
    /\ MinISR \in Nat \ {0}
    /\ TruncateTimeout \in BOOLEAN
    /\ LoseTail \in BOOLEAN
    /\ Ops \subseteq {"shrink", "expand", "leader"}
    /\ MaxMessages \in Nat
    /\ MaxOps \in Nat
    /\ MaxCrashes \in Nat

VARIABLES
    raftLog,      \* committed metadata operations
    applied,      \* n |-> index of the last operation n's FSM applied
    leader,       \* n |-> partition.Leader
    leaderEpoch,  \* n |-> partition.LeaderEpoch
    role,         \* n |-> isLeading, isFollowing, or the process is down
    isr,          \* n |-> partition.isr: in-sync replica |-> latest offset
    caughtUp,     \* n |-> followers whose replicator saw them caught up
    check,        \* n |-> something is pending in partition.commitCheck
    queue,        \* n |-> partition.commitQueue
    log,          \* n |-> the messages of the commit log
    epochs,       \* n |-> the leader epoch cache, and its file
    hw,           \* n |-> the high watermark
    hwFile,       \* n |-> the checkpointed high watermark
    fetch,        \* n |-> the replication request n waits on
    acked,        \* messages acknowledged to a client (AckPolicy ALL)
    published,    \* number of messages published so far
    crashes       \* number of crashes so far

metaVars == <<raftLog, applied, leader, leaderEpoch>>
leaderVars == <<isr, caughtUp, check, queue, acked>>
logVars == <<log, epochs, hw, hwFile>>
vars == <<raftLog, applied, leader, leaderEpoch, role, isr, caughtUp, check,
          queue, log, epochs, hw, hwFile, fetch, acked, published, crashes>>

Message == [epoch : Nat, id : Nat]
Offset == Nat \cup {-1}
Operation == [op : {"create", "shrink", "expand", "leader"}, server : Server]
Pending == [offset : Offset, id : Nat]
Fetch == [state : {"idle", "request", "response"},
          offset : Offset, epoch : Nat, hw : Offset, entries : Seq(Message)]
NoFetch == [state |-> "idle", offset |-> -1, epoch |-> 0, hw |-> -1, entries |-> <<>>]

TypeOK ==
    /\ raftLog \in Seq(Operation)
    /\ applied \in [Server -> Nat]
    /\ leader \in [Server -> Server]
    /\ leaderEpoch \in [Server -> Nat]
    /\ role \in [Server -> {"leader", "follower", "down"}]
    /\ isr = [n \in Server |-> isr[n]]
    /\ \A n \in Server : \E S \in SUBSET Server : isr[n] \in [S -> Offset]
    /\ caughtUp \in [Server -> SUBSET Server]
    /\ check \in [Server -> BOOLEAN]
    /\ queue \in [Server -> SUBSET Pending]
    /\ log \in [Server -> Seq(Message)]
    /\ hw \in [Server -> Offset]
    /\ hwFile \in [Server -> Offset]
    /\ fetch \in [Server -> Fetch]
    /\ acked \in SUBSET Pending
    /\ published \in Nat
    /\ crashes \in Nat

-----------------------------------------------------------------------------
(* The commit log. *)

\* NewestOffset of a log without gaps: the offset of its last message.
Newest(l) == Len(l) - 1

\* Truncate(o): the messages left of a log, and the entries left of its epoch
\* cache.  Nothing happens, to the cache either, when no segment reaches offset o.
TruncatedLength(l, o) == IF Newest(l) < o THEN Len(l) ELSE o
TruncateEpochs(c, l, o) == IF Newest(l) < o THEN c ELSE ClearLatest(c, o)

\* LastOffsetForLeaderEpoch of the log: -1 from the cache is read as "no
\* later epoch", and the end of the log is the answer.
LastOffsetForLeaderEpoch(n, e) ==
    LET start == StartAfterEpoch(epochs[n], e)
    IN IF start = -1 THEN Newest(log[n]) ELSE start

\* append: the first message of an epoch newer than the cache's last one
\* records the epoch.
AssignNew(c, e, o) == IF e > LatestEpoch(c) THEN Assign(c, e, o) ELSE c

\* The same for every message of a batch that starts at offset o.
AssignAll(c, batch, o) ==
    LET after[i \in 0..Len(batch)] ==
            IF i = 0 THEN c
            ELSE AssignNew(after[i - 1], batch[i].epoch, o + i - 1)
    IN after[Len(batch)]

\* New: the epoch file is read back and cut to the messages of the log.
ReopenEpochs(c, l) ==
    ClearEarliest(ClearLatest(c, Len(l)), IF l = <<>> THEN -1 ELSE 0)

Higher(a, b) == IF a > b THEN a ELSE b

-----------------------------------------------------------------------------
(* The metadata log, as replayed by a server that applied k operations. *)

IsLeaderOp(o) == o.op \in {"create", "leader"}

\* The last operation among the first k that named a leader.
CurrentEpoch(i, k) ==
    /\ i \in 1..k
    /\ IsLeaderOp(raftLog[i])
    /\ \A j \in (i + 1)..k : ~IsLeaderOp(raftLog[j])

\* The replicas in the ISR: the last operation on them is not a removal.  Mutant:
\* removals are forgotten on recovery.
ReplayedReplicas(k) == {m \in Server : k >= 1}
ReplayedISR(k) ==
    {m \in Server : \E i \in 1..k :
        /\ \/ raftLog[i].op = "create"
           \/ raftLog[i] = [op |-> "expand", server |-> m]
        /\ \A j \in (i + 1)..k : raftLog[j] # [op |-> "shrink", server |-> m]}

\* newPartition gives a server's own replica its newest offset and the others
\* -1, and a replayed AddToISR puts -1 back.
ReplayedOffsets(n, k) ==
    [m \in ReplayedISR(k) |->
        IF m = n /\ \A i \in 1..k : raftLog[i] # [op |-> "expand", server |-> n]
        THEN Newest(log[n]) ELSE -1]

-----------------------------------------------------------------------------
(* The partition was created, every replica applied the operation and      *)
(* found its leader, and nothing is published yet.                         *)
Init ==
    \E first \in Server :
        /\ raftLog = <<[op |-> "create", server |-> first]>>
        /\ applied = [n \in Server |-> 1]
        /\ leader = [n \in Server |-> first]
        /\ leaderEpoch = [n \in Server |-> 1]
        /\ role = [n \in Server |-> IF n = first THEN "leader" ELSE "follower"]
        /\ isr = [n \in Server |-> [m \in Server |-> -1]]
        /\ caughtUp = [n \in Server |-> {}]
        /\ check = [n \in Server |-> FALSE]
        /\ queue = [n \in Server |-> {}]
        /\ log = [n \in Server |-> <<>>]
        /\ epochs = [n \in Server |-> IF n = first THEN Assign(<<>>, 1, -1) ELSE <<>>]
        /\ hw = [n \in Server |-> -1]
        /\ hwFile = [n \in Server |-> -1]
        /\ fetch = [n \in Server |-> NoFetch]
        /\ acked = {}
        /\ published = 0
        /\ crashes = 0

-----------------------------------------------------------------------------
(* The partition leader. *)

\* updateISRLatestOffset: offsets of in-sync replicas only grow, and a growth
\* asks for a commit check.
RaiseOffset(offsets, m, o) ==
    IF m \in DOMAIN offsets /\ o > offsets[m] THEN [offsets EXCEPT ![m] = o] ELSE offsets

ReportOffset(n, m, o) ==
    /\ isr' = [isr EXCEPT ![n] = RaiseOffset(@, m, o)]
    /\ check' = [check EXCEPT ![n] = @ \/ isr'[n] # isr[n]]

\* messageProcessingLoop: a message received from NATS is stamped with the
\* leader's epoch, appended, put on the commit queue and reported as the
\* leader's own latest offset.
Publish(n) ==
    /\ role[n] = "leader"
    /\ published < MaxMessages
    /\ LET o == Len(log[n])
           message == [epoch |-> leaderEpoch[n], id |-> published]
       IN /\ log' = [log EXCEPT ![n] = Append(@, message)]
          /\ epochs' = [epochs EXCEPT ![n] = AssignNew(@, leaderEpoch[n], o)]
          /\ queue' = [queue EXCEPT ![n] = @ \cup {[offset |-> o, id |-> published]}]
          /\ ReportOffset(n, n, o)
    /\ published' = published + 1
    /\ UNCHANGED <<metaVars, role, caughtUp, hw, hwFile, fetch, acked, crashes>>

\* commitLoop: one pass after a commit check.
Commit(n) ==
    /\ role[n] = "leader"
    /\ check[n]
    /\ check' = [check EXCEPT ![n] = FALSE]
    /\ \/ /\ Cardinality(DOMAIN isr[n]) < MinISR
          /\ UNCHANGED <<queue, acked, hw>>
       \/ /\ Cardinality(DOMAIN isr[n]) >= MinISR
          /\ \E slowest \in DOMAIN isr[n] :
                LET least == isr[n][slowest]
                    committed == {p \in queue[n] : p.offset <= least}
                IN /\ \A m \in DOMAIN isr[n] : least <= isr[n][m]
                   /\ queue' = [queue EXCEPT ![n] = @ \ committed]
                   /\ hw' = [hw EXCEPT ![n] = Higher(@, least)]
                   /\ acked' = acked \cup committed
    /\ UNCHANGED <<metaVars, role, isr, caughtUp, log, epochs, hwFile, fetch, published, crashes>>

\* handleReplicationRequest: n takes the requests of its own epoch.
Takes(n, f) ==
    /\ role[n] = "leader"
    /\ n # f
    /\ fetch[f].state = "request"
    /\ fetch[f].epoch = leaderEpoch[n]

\* replicate: the messages after an offset, all of them or, the batch being
\* full, only some.
Batches(l, from) == {SubSeq(l, from + 2, to) : to \in (from + 2)..Len(l)}

\* replicator.start and caughtUp: a request reports the follower's newest offset
\* and is answered with a batch, or with the high watermark alone when the
\* follower is caught up.
Replicate(n, f) ==
    /\ Takes(n, f)
    /\ ReportOffset(n, f, fetch[f].offset)
    /\ LET from == fetch[f].offset
       IN \/ /\ from >= Newest(log[n])
             /\ caughtUp' = [caughtUp EXCEPT ![n] = @ \cup {f}]
             /\ fetch' = [fetch EXCEPT ![f].state = "response", ![f].hw = hw[n]]
          \/ /\ from < Newest(log[n])
             /\ UNCHANGED caughtUp
             /\ \E entries \in Batches(log[n], from) :
                   fetch' = [fetch EXCEPT ![f].state = "response", ![f].hw = hw[n],
                                          ![f].entries = entries]
    /\ UNCHANGED <<metaVars, role, queue, logVars, acked, published, crashes>>

-----------------------------------------------------------------------------
(* A follower. *)

\* sendReplicationRequest.  Mutants: the follower fetches from its high
\* watermark; the follower asks for its newest message again.
FetchFromHW(f) == hw[f]
FetchNewestAgain(f) == Newest(log[f]) - 1
FetchFrom(f) == Newest(log[f])

RequestReplication(f) ==
    /\ role[f] = "follower"
    /\ fetch[f].state = "idle"
    /\ fetch' = [fetch EXCEPT ![f] = [NoFetch EXCEPT !.state = "request",
                                                     !.offset = FetchFrom(f),
                                                     !.epoch = leaderEpoch[f]]]
    /\ UNCHANGED <<metaVars, role, leaderVars, logVars, published, crashes>>

\* The request, or its response, is lost or too late: the request times out,
\* and its reply inbox with it.
RequestTimeout(f) ==
    /\ fetch[f].state # "idle"
    /\ fetch' = [fetch EXCEPT ![f] = NoFetch]
    /\ UNCHANGED <<metaVars, role, leaderVars, logVars, published, crashes>>

\* handleReplicationResponse: a response is taken by a follower that is still in
\* the epoch of its request.  Mutant: the epoch is not checked.
AcceptsAnyEpoch(f) == role[f] = "follower"
Accepts(f) == role[f] = "follower" /\ fetch[f].epoch = leaderEpoch[f]

ReceiveResponse(f) ==
    /\ fetch[f].state = "response"
    /\ fetch' = [fetch EXCEPT ![f] = NoFetch]
    /\ LET r == fetch[f]
       IN \/ /\ ~Accepts(f)
             /\ UNCHANGED <<hw, log, epochs>>
          \/ /\ Accepts(f)
             /\ hw' = [hw EXCEPT ![f] = Higher(@, r.hw)]
             /\ IF r.entries = <<>> \/ r.offset + 1 < Len(log[f])
                THEN UNCHANGED <<log, epochs>>
                ELSE /\ log' = [log EXCEPT ![f] = @ \o r.entries]
                     /\ epochs' = [epochs EXCEPT ![f] = AssignAll(@, r.entries, r.offset + 1)]
    /\ UNCHANGED <<metaVars, role, leaderVars, hwFile, published, crashes>>

\* checkpointHWLoop; the file is only read after a crash.
CheckpointHW(n) ==
    /\ role[n] # "down"
    /\ crashes < MaxCrashes
    /\ hwFile[n] # hw[n]
    /\ hwFile' = [hwFile EXCEPT ![n] = hw[n]]
    /\ UNCHANGED <<metaVars, role, leaderVars, log, epochs, hw, fetch, published, crashes>>

-----------------------------------------------------------------------------
(* The metadata leader.  Any server may hold that office; it checks a      *)
(* request against its own view of the partition, which may lag behind the *)
(* operations already committed.                                           *)

Propose(op, server) ==
    /\ op \in Ops
    /\ Len(raftLog) < MaxOps
    /\ raftLog' = Append(raftLog, [op |-> op, server |-> server])
    /\ UNCHANGED <<applied, leader, leaderEpoch, role, isr, check, queue, acked, logVars,
                   fetch, published, crashes>>

\* Leader generation check of ShrinkISR and ExpandISR.
SameGeneration(c, n) == leader[c] = n /\ leaderEpoch[c] = leaderEpoch[n]

\* tick and metadataAPI.ShrinkISR: f did not catch up for the maximum lag time.
ShrinkISR(n, f) ==
    /\ role[n] = "leader"
    /\ f \in DOMAIN isr[n] \ {n}
    /\ caughtUp' = [caughtUp EXCEPT ![n] = @ \ {f}]
    /\ \E c \in Server : role[c] # "down" /\ SameGeneration(c, n)
    /\ Propose("shrink", f)

\* tick and metadataAPI.ExpandISR: f is out of the ISR and was seen caught up
\* no longer ago than the maximum lag time.
ExpandISR(n, f) ==
    /\ role[n] = "leader"
    /\ f \in caughtUp[n] \ DOMAIN isr[n]
    /\ \E c \in Server : role[c] # "down" /\ SameGeneration(c, n)
    /\ Propose("expand", f)
    /\ UNCHANGED caughtUp

\* checkLeaderHealth: f does not hear from the leader that c knows.
Reports(f, c) ==
    /\ role[f] = "follower"
    /\ leader[f] = leader[c]
    /\ leaderEpoch[f] = leaderEpoch[c]

\* electNewPartitionLeader: another replica of an ISR of more than one.
Candidates(c) == IF Cardinality(DOMAIN isr[c]) > 1 THEN DOMAIN isr[c] \ {leader[c]} ELSE {}

\* ReportLeader and addWitness: a follower reports the leader of c's generation,
\* and a candidate is picked.  Witnesses of earlier reports count too, also
\* those of an earlier generation, so that any report may be the one that makes
\* the quorum; with two replicas each does.
ElectLeader(c, candidate) ==
    /\ role[c] # "down"
    /\ \E f \in Server : Reports(f, c)
    /\ candidate \in Candidates(c)
    /\ Propose("leader", candidate)
    /\ UNCHANGED caughtUp

-----------------------------------------------------------------------------
(* Applying the metadata log. *)

\* handleLeaderOffsetRequest: the answers n may get to a request for the end of
\* epoch e, from any server that believes to be the leader.
LeaderOffsets(n, e) ==
    {LastOffsetForLeaderEpoch(m, e) : m \in {s \in Server \ {n} : role[s] = "leader"}}

\* truncateUncommitted: the offsets at which server n, with epoch cache c and
\* high watermark w, may cut its log as it starts to follow.  Without an answer
\* the high watermark decides.
TruncationPoints(n, c, w) ==
    {o + 1 : o \in LeaderOffsets(n, LatestEpoch(c))}
    \cup (IF TruncateTimeout THEN {w + 1} ELSE {})

BecomeFollower(n, c, w) ==
    /\ \E o \in TruncationPoints(n, c, w), length \in 0..Len(log[n]) :
          /\ length = TruncatedLength(log[n], o)
          /\ log' = [log EXCEPT ![n] = SubSeq(@, 1, length)]
          /\ epochs' = [epochs EXCEPT ![n] = TruncateEpochs(c, log[n], o)]
    /\ role' = [role EXCEPT ![n] = "follower"]

\* becomeLeader, of an epoch e that is not a recovered one: the log records
\* the epoch at its newest offset.  The offsets of the ISR are kept.
BecomeLeader(n, e) ==
    /\ epochs' = [epochs EXCEPT ![n] = Assign(@, e, Newest(log[n]))]
    /\ role' = [role EXCEPT ![n] = "leader"]
    /\ UNCHANGED log

\* applyShrinkISR, RemoveFromISR.  Mutant: no commit check after the removal.
ApplyShrinkISRUnchecked(n, m) ==
    /\ isr' = [isr EXCEPT ![n] = [r \in DOMAIN @ \ {m} |-> @[r]]]
    /\ UNCHANGED <<leader, leaderEpoch, role, caughtUp, check, queue, log, epochs>>
ApplyShrinkISR(n, m) ==
    /\ isr' = [isr EXCEPT ![n] = [r \in DOMAIN @ \ {m} |-> @[r]]]
    /\ check' = [check EXCEPT ![n] = @ \/ role[n] = "leader"]
    /\ UNCHANGED <<leader, leaderEpoch, role, caughtUp, queue, log, epochs>>

\* applyExpandISR, AddToISR.
ApplyExpandISR(n, m) ==
    /\ isr' = [isr EXCEPT ![n] = [r \in DOMAIN @ \cup {m} |-> IF r = m THEN -1 ELSE @[r]]]
    /\ UNCHANGED <<leader, leaderEpoch, role, caughtUp, check, queue, log, epochs>>

\* applyChangePartitionLeader, SetLeader: whatever the server was doing for the
\* partition is stopped first, which disposes of the commit queue.
ApplyChangeLeader(n, m, e) ==
    /\ leader' = [leader EXCEPT ![n] = m]
    /\ leaderEpoch' = [leaderEpoch EXCEPT ![n] = e]
    /\ queue' = [queue EXCEPT ![n] = {}]
    /\ caughtUp' = [caughtUp EXCEPT ![n] = {}]
    /\ IF m = n THEN BecomeLeader(n, e) ELSE BecomeFollower(n, epochs[n], hw[n])
    /\ UNCHANGED <<isr, check>>

\* Apply: the next committed operation; its index is the epoch.
Apply(n) ==
    /\ role[n] # "down"
    /\ applied[n] < Len(raftLog)
    /\ applied' = [applied EXCEPT ![n] = @ + 1]
    /\ LET e == applied[n] + 1
           o == raftLog[e]
       IN \/ o.op = "shrink" /\ ApplyShrinkISR(n, o.server)
          \/ o.op = "expand" /\ ApplyExpandISR(n, o.server)
          \/ o.op = "leader" /\ ApplyChangeLeader(n, o.server, e)
    /\ UNCHANGED <<raftLog, hw, hwFile, fetch, acked, published, crashes>>

-----------------------------------------------------------------------------
(* Crash and restart of a server. *)

\* The log, the epoch file and the high watermark file survive; with LoseTail
\* the last messages of the log may not have reached the disk.
Crash(n) ==
    /\ role[n] # "down"
    /\ crashes < MaxCrashes
    /\ crashes' = crashes + 1
    /\ role' = [role EXCEPT ![n] = "down"]
    /\ fetch' = [fetch EXCEPT ![n] = NoFetch]
    /\ queue' = [queue EXCEPT ![n] = {}]
    /\ caughtUp' = [caughtUp EXCEPT ![n] = {}]
    /\ check' = [check EXCEPT ![n] = FALSE]
    /\ isr' = [isr EXCEPT ![n] = <<>>]
    /\ hw' = [hw EXCEPT ![n] = hwFile[n]]
    /\ \/ UNCHANGED log
       \/ /\ LoseTail
          /\ \E k \in 0..(Len(log[n]) - 1) : log' = [log EXCEPT ![n] = SubSeq(@, 1, k)]
    /\ UNCHANGED <<metaVars, epochs, hwFile, acked, published>>

\* startLeadingOrFollowing: who leads in epoch e.  Mutant: a recovered server
\* always starts as a follower.
LeadsNever(n, e) == FALSE
LeadsIn(n, e) == raftLog[e].server = n

\* createPartition on recovery, finishedRecovery and StartRecovered: the FSM
\* replays the operations known to be committed, without starting anything, and
\* then starts the partition.  A recovered leader continues its epoch.  The
\* server does not start with an epoch file it cannot read.
Restart(n) ==
    /\ role[n] = "down"
    /\ Readable(epochs[n])
    /\ \E k \in applied[n]..Len(raftLog), e \in 1..Len(raftLog) :
          /\ CurrentEpoch(e, k)
          /\ applied' = [applied EXCEPT ![n] = k]
          /\ leaderEpoch' = [leaderEpoch EXCEPT ![n] = e]
          /\ leader' = [leader EXCEPT ![n] = raftLog[e].server]
          /\ isr' = [isr EXCEPT ![n] = ReplayedOffsets(n, k)]
          /\ LET c == ReopenEpochs(epochs[n], log[n])
             IN \/ /\ LeadsIn(n, e)
                   /\ epochs' = [epochs EXCEPT ![n] = c]
                   /\ role' = [role EXCEPT ![n] = "leader"]
                   /\ UNCHANGED log
                \/ /\ ~LeadsIn(n, e)
                   /\ BecomeFollower(n, c, hw[n])
    /\ UNCHANGED <<raftLog, caughtUp, check, queue, hw, hwFile, fetch, acked, published, crashes>>

-----------------------------------------------------------------------------
Next ==
    \/ \E n \in Server : \/ Publish(n)
                         \/ Commit(n)
                         \/ RequestReplication(n)
                         \/ RequestTimeout(n)
                         \/ ReceiveResponse(n)
                         \/ CheckpointHW(n)
                         \/ Apply(n)
                         \/ Crash(n)
                         \/ Restart(n)
    \/ \E n, m \in Server : \/ Replicate(n, m)
                            \/ ShrinkISR(n, m)
                            \/ ExpandISR(n, m)
                            \/ ElectLeader(n, m)

Spec == Init /\ [][Next]_vars

\* The loops of a running server keep running, and a request that is sent again
\* and again is answered at some time.
Fairness ==
    \A n \in Server :
        /\ WF_vars(Apply(n))
        /\ WF_vars(Commit(n))
        /\ WF_vars(RequestReplication(n))
        /\ SF_vars(ReceiveResponse(n))
        /\ \A m \in Server : SF_vars(Replicate(m, n))

FairSpec == Spec /\ Fairness

-----------------------------------------------------------------------------
(* Properties. *)

\* Two replicas that hold a message of the same leader epoch at the same
\* offset hold the same message: a leader epoch has one writer, which gives
\* an offset to one message only (SetLeader, messageProcessingLoop,
\* handleReplicationResponse).
LogMatching ==
    \A n, m \in Server : \A i \in DOMAIN log[n] \cap DOMAIN log[m] :
        log[n][i].epoch = log[m][i].epoch => log[n][i] = log[m][i]

\* Every copy of a message, in a log or in a response on its way, with its
\* position in the log.
Copies ==
    (UNION {{<<i, log[n][i]>> : i \in DOMAIN log[n]} : n \in Server})
    \cup (UNION {{<<fetch[f].offset + 1 + j, fetch[f].entries[j]>> : j \in DOMAIN fetch[f].entries}
                 : f \in Server})

\* As long as a server has not applied an operation that ends its leadership,
\* it holds every copy of a message of its epoch, at the same position: a
\* follower never has more of the epoch than the leader that writes it, even
\* after the leader restarts and continues the epoch (becomeLeader).
LeaderHoldsEpoch ==
    \A w \in Server : leader[w] = w =>
        \A c \in Copies : c[2].epoch = leaderEpoch[w]
            => c[1] \in DOMAIN log[w] /\ log[w][c[1]] = c[2]

\* A response that a follower is going to accept starts right after its newest
\* message, so that appending it leaves neither a gap nor an overlap
\* (handleReplicationResponse checks only for the overlap).
ResponseAligned ==
    \A f \in Server :
        /\ fetch[f].state = "response"
        /\ role[f] = "follower"
        /\ fetch[f].epoch = leaderEpoch[f]
        => fetch[f].offset = Newest(log[f])

\* A server never rewrites or drops what it wrote as the leader of an epoch as
\* long as it leads in that epoch, also across a restart.
LeaderAppendOnly ==
    [][\A n \in Server :
          leader[n] = n /\ leaderEpoch'[n] = leaderEpoch[n]
          => /\ Len(log'[n]) >= Len(log[n])
             /\ SubSeq(log'[n], 1, Len(log[n])) = log[n]]_vars

\* Servers that applied the same operations agree on the leader, its epoch and
\* the members of the ISR, whether they applied them one by one or replayed them
\* on recovery.
ViewsAgree ==
    \A n, m \in Server :
        role[n] # "down" /\ role[m] # "down" /\ applied[n] = applied[m]
        => /\ leader[n] = leader[m]
           /\ leaderEpoch[n] = leaderEpoch[m]
           /\ DOMAIN isr[n] = DOMAIN isr[m]

\* Every message that was acknowledged to a client that asked for AckPolicy ALL
\* is in the log of the leader of the newest epoch, at its offset.
AckedPreserved ==
    \A n \in Server : role[n] = "leader" /\ (\A m \in Server : leaderEpoch[m] <= leaderEpoch[n])
        => \A p \in acked : /\ p.offset < Len(log[n])
                            /\ log[n][p.offset + 1].id = p.id

\* No epoch is assigned twice in a leader epoch cache.
EpochAssignedOnce == \A n \in Server : Readable(epochs[n])

\* The leader's in-sync replicas hold every message it has committed.
ISRHoldsCommitted ==
    \A n \in Server : role[n] = "leader" =>
        \A m \in DOMAIN isr[n] : hw[n] <= Newest(log[m])

\* Once a message is on every replica of the ISR of a leader that stays in
\* office it is committed: the leader's high watermark reaches its newest offset.
EventuallyCommitted == <>[](\A n \in Server : role[n] = "leader" => hw[n] = Newest(log[n]))
=============================================================================
