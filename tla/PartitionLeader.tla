-------------------------- MODULE PartitionLeader --------------------------
(***************************************************************************)
(* The goroutines of one leadership of a partition (server/partition.go,   *)
(* server/replicator.go): the message processing loop, the commit loop,    *)
(* one replicator per follower, and the metadata FSM, which changes the    *)
(* ISR and ends the leadership.  They share the ISR, the commit queue, the *)
(* commitCheck channel and the read-write lock p.mu; Replication has each  *)
(* of their passes as one step, here a pass is interrupted wherever it     *)
(* takes or releases a lock or uses a channel.                             *)
(*                                                                         *)
(* Only offsets matter here: the leader's log is the offsets 0..newest.    *)
(***************************************************************************)
EXTENDS Integers, Sequences, FiniteSets

CONSTANTS
    Self,           \* the leader
    Follower,       \* the other replicas
    MinISR,         \* clustering.min.insync.replicas
    MaxMessages,    \* bound on the messages published
    MaxBatch,       \* batch.max.messages
    MaxChanges      \* bound on the changes of the ISR

ASSUME PartitionLeaderAssumption ==
    /\ IsFiniteSet(Follower) /\ Self \notin Follower
    /\ MinISR \in Nat \ {0}
    /\ MaxMessages \in Nat
    /\ MaxBatch \in Nat \ {0}
    /\ MaxChanges \in Nat

Replica == Follower \cup {Self}

VARIABLES
    newest,     \* the newest offset of the log
    hw,         \* the high watermark
    isr,        \* in-sync replica |-> its record: latest offset and identity
    queue,      \* commitQueue
    checks,     \* number of tokens in commitCheck
    acks,       \* the acks sent, in order
    batch,      \* messages appended but not queued yet
    update,     \* Self: the message processing loop; f: the replicator of f
    commit,     \* the commit loop
    copied,     \* f |-> the newest offset in the log of follower f
    control,    \* the FSM: is it in, or past, stopLeading?
    returned,   \* the loops that returned
    changes     \* number of changes of the ISR so far

vars == <<newest, hw, isr, queue, checks, acks, batch, update, commit, copied,
          control, returned, changes>>

Offset == Nat \cup {-1}
Pending == [offset : Nat, policy : {"ALL", "LEADER"}]
Record == [offset : Offset, id : Nat]
NotUpdating == [pc |-> "select", offset |-> -1, id |-> 0]
NotCommitting == [pc |-> "select", seen |-> <<>>, least |-> -1, taken |-> <<>>]

TypeOK ==
    /\ newest \in Offset /\ hw \in Offset
    /\ \E S \in SUBSET Replica : isr \in [S -> Record]
    /\ queue \in Seq(Pending)
    /\ checks \in 0..Cardinality(Replica)
    /\ acks \in Seq(Pending)
    /\ batch \in Seq(Pending)
    /\ update \in [Replica -> [pc : {"select", "queue", "lookup", "update", "notify"},
                               offset : Offset, id : Nat]]
    /\ \E S \in SUBSET Replica :
          commit \in [pc : {"select", "lock", "scan", "take", "hw", "ack"},
                      seen : [S -> Offset], least : Offset, taken : Seq(Pending)]
    /\ copied \in [Follower -> Offset]
    /\ control \in {"leading", "stopping", "stopped"}
    /\ returned \subseteq Replica \cup {"commit"}
    /\ changes \in Nat

\* becomeLeader of a new partition.
Init ==
    /\ newest = -1 /\ hw = -1
    /\ isr = [r \in Replica |-> [offset |-> -1, id |-> 0]]
    /\ queue = <<>>
    /\ checks = 0
    /\ acks = <<>>
    /\ batch = <<>>
    /\ update = [r \in Replica |-> NotUpdating]
    /\ commit = NotCommitting
    /\ copied = [f \in Follower |-> -1]
    /\ control = "leading"
    /\ returned = {}
    /\ changes = 0

\* stopLeading runs with p.mu locked; the commit loop reads the ISR with p.mu
\* locked for reading.
WriteLocked == control = "stopping"
ReadLocked == commit.pc = "scan"

\* A send to commitCheck that gives up when the channel is full.  Mutant: it
\* goes on.
CheckUnbounded == checks' = checks + 1
CheckAgain == checks' = IF checks < Cardinality(Replica) THEN checks + 1 ELSE checks

-----------------------------------------------------------------------------
(* messageProcessingLoop *)

\* A batch of messages is received and appended to the log.  Mutant: the end of
\* the log counts as replicated by the leader at once.
AppendBatchReported ==
    /\ update[Self].pc = "select" /\ Self \notin returned
    /\ \E size \in 1..MaxBatch : \E policy \in [1..size -> {"ALL", "LEADER"}] :
          /\ newest + size < MaxMessages
          /\ newest' = newest + size
          /\ batch' = [i \in 1..size |-> [offset |-> newest + i, policy |-> policy[i]]]
    /\ isr' = [isr EXCEPT ![Self].offset = newest']
    /\ update' = [update EXCEPT ![Self].pc = "queue"]
    /\ UNCHANGED <<hw, queue, checks, acks, commit, copied, control, returned, changes>>
AppendBatch ==
    /\ update[Self].pc = "select" /\ Self \notin returned
    /\ \E size \in 1..MaxBatch : \E policy \in [1..size -> {"ALL", "LEADER"}] :
          /\ newest + size < MaxMessages
          /\ newest' = newest + size
          /\ batch' = [i \in 1..size |-> [offset |-> newest + i, policy |-> policy[i]]]
    /\ update' = [update EXCEPT ![Self].pc = "queue"]
    /\ UNCHANGED <<hw, isr, queue, checks, acks, commit, copied, control, returned, changes>>

\* processPendingMessage: ack the message if its policy is LEADER, and queue it.
\* Once the batch is queued the loop reports its last offset.
\* Mutant: a message that was acked is queued as if it were not.
ProcessPendingMessageTwice ==
    /\ update[Self].pc = "queue"
    /\ acks' = IF Head(batch).policy = "LEADER" THEN Append(acks, Head(batch)) ELSE acks
    /\ queue' = Append(queue, [Head(batch) EXCEPT !.policy = "ALL"])
    /\ batch' = Tail(batch)
    /\ update' = IF Tail(batch) = <<>>
                 THEN [update EXCEPT ![Self].pc = "lookup", ![Self].offset = newest]
                 ELSE update
    /\ UNCHANGED <<newest, hw, isr, checks, commit, copied, control, returned, changes>>
ProcessPendingMessage ==
    /\ update[Self].pc = "queue"
    /\ acks' = IF Head(batch).policy = "LEADER" THEN Append(acks, Head(batch)) ELSE acks
    /\ queue' = Append(queue, Head(batch))
    /\ batch' = Tail(batch)
    /\ update' = IF Tail(batch) = <<>>
                 THEN [update EXCEPT ![Self].pc = "lookup", ![Self].offset = newest]
                 ELSE update
    /\ UNCHANGED <<newest, hw, isr, checks, commit, copied, control, returned, changes>>

-----------------------------------------------------------------------------
(* replicator.start *)

\* A request of follower f, which carries its newest offset.
ReceiveRequest(f) ==
    /\ update[f].pc = "select" /\ f \notin returned
    /\ update' = [update EXCEPT ![f].pc = "lookup", ![f].offset = copied[f]]
    /\ UNCHANGED <<newest, hw, isr, queue, checks, acks, batch, commit, copied, control,
                   returned, changes>>

\* The follower appends messages that the replicator sent it.
Copy(f) ==
    /\ \E o \in (copied[f] + 1)..newest : copied' = [copied EXCEPT ![f] = o]
    /\ UNCHANGED <<newest, hw, isr, queue, checks, acks, batch, update, commit, control,
                   returned, changes>>

-----------------------------------------------------------------------------
(* updateISRLatestOffset, called by both kinds of loop *)

\* The record of the replica is looked up with p.mu locked for reading.
Lookup(r) ==
    /\ update[r].pc = "lookup"
    /\ ~WriteLocked
    /\ update' = IF r \in DOMAIN isr
                 THEN [update EXCEPT ![r].pc = "update", ![r].id = isr[r].id]
                 ELSE [update EXCEPT ![r] = NotUpdating]
    /\ UNCHANGED <<newest, hw, isr, queue, checks, acks, batch, commit, copied, control,
                   returned, changes>>

\* updateLatestOffset, of a record that may no longer be the one in the ISR.
Update(r) ==
    /\ update[r].pc = "update"
    /\ \/ /\ r \in DOMAIN isr /\ isr[r].id = update[r].id
          /\ IF update[r].offset > isr[r].offset
             THEN /\ isr' = [isr EXCEPT ![r].offset = update[r].offset]
                  /\ update' = [update EXCEPT ![r].pc = "notify"]
             ELSE UNCHANGED isr /\ update' = [update EXCEPT ![r] = NotUpdating]
       \/ /\ ~(r \in DOMAIN isr /\ isr[r].id = update[r].id)
          /\ UNCHANGED isr
          /\ \/ update' = [update EXCEPT ![r].pc = "notify"]
             \/ update' = [update EXCEPT ![r] = NotUpdating]
    /\ UNCHANGED <<newest, hw, queue, checks, acks, batch, commit, copied, control, returned, changes>>

Notify(r) ==
    /\ update[r].pc = "notify"
    /\ CheckAgain
    /\ update' = [update EXCEPT ![r] = NotUpdating]
    /\ UNCHANGED <<newest, hw, isr, queue, acks, batch, commit, copied, control, returned, changes>>

-----------------------------------------------------------------------------
(* commitLoop *)

CommitCheck ==
    /\ commit.pc = "select" /\ "commit" \notin returned
    /\ checks > 0
    /\ checks' = checks - 1
    /\ commit' = [commit EXCEPT !.pc = "lock"]
    /\ UNCHANGED <<newest, hw, isr, queue, acks, batch, update, copied, control, returned, changes>>

\* p.mu is locked for reading; nothing is committed if the ISR is too small.
\* Mutant: the size of the ISR is not checked.
CommitLockAnySize ==
    /\ commit.pc = "lock"
    /\ ~WriteLocked
    /\ commit' = [commit EXCEPT !.pc = "scan"]
    /\ UNCHANGED <<newest, hw, isr, queue, checks, acks, batch, update, copied, control,
                   returned, changes>>
CommitLock ==
    /\ commit.pc = "lock"
    /\ ~WriteLocked
    /\ commit' = IF Cardinality(DOMAIN isr) < MinISR THEN NotCommitting
                 ELSE [commit EXCEPT !.pc = "scan"]
    /\ UNCHANGED <<newest, hw, isr, queue, checks, acks, batch, update, copied, control,
                   returned, changes>>

\* The offsets are read one by one, while the other loops may raise them.
CommitScan(r) ==
    /\ commit.pc = "scan"
    /\ r \in DOMAIN isr \ DOMAIN commit.seen
    /\ LET seen == [m \in DOMAIN commit.seen \cup {r} |->
                       IF m = r THEN isr[r].offset ELSE commit.seen[m]]
       IN commit' = [commit EXCEPT !.seen = seen,
                                   !.pc = IF DOMAIN seen = DOMAIN isr THEN "take" ELSE "scan"]
    /\ UNCHANGED <<newest, hw, isr, queue, checks, acks, batch, update, copied, control,
                   returned, changes>>

\* TakeUntil: the entries at the head of the queue up to the least offset.
CommitTake ==
    /\ commit.pc = "take"
    /\ \E slowest \in DOMAIN commit.seen, n \in 0..Len(queue) :
          LET least == commit.seen[slowest]
          IN /\ \A r \in DOMAIN commit.seen : least <= commit.seen[r]
             /\ \A i \in 1..n : queue[i].offset <= least
             /\ n < Len(queue) => queue[n + 1].offset > least
             /\ commit' = [NotCommitting EXCEPT !.pc = "hw", !.least = least,
                                                !.taken = SubSeq(queue, 1, n)]
             /\ queue' = SubSeq(queue, n + 1, Len(queue))
    /\ UNCHANGED <<newest, hw, isr, checks, acks, batch, update, copied, control, returned, changes>>

\* SetHighWatermark, before the acks.  Mutant: it is left for the next pass.
CommitHWLater ==
    /\ commit.pc = "hw"
    /\ hw' = IF commit.taken = <<>> /\ commit.least > hw THEN commit.least ELSE hw
    /\ commit' = IF commit.taken = <<>> THEN NotCommitting ELSE [commit EXCEPT !.pc = "ack"]
    /\ UNCHANGED <<newest, isr, queue, checks, acks, batch, update, copied, control, returned,
                   changes>>
CommitHW ==
    /\ commit.pc = "hw"
    /\ hw' = IF commit.least > hw THEN commit.least ELSE hw
    /\ commit' = IF commit.taken = <<>> THEN NotCommitting ELSE [commit EXCEPT !.pc = "ack"]
    /\ UNCHANGED <<newest, isr, queue, checks, acks, batch, update, copied, control, returned,
                   changes>>

\* The next entry that was taken, acknowledged if its policy is ALL.
CommitAck ==
    /\ commit.pc = "ack"
    /\ acks' = IF Head(commit.taken).policy = "ALL" THEN Append(acks, Head(commit.taken)) ELSE acks
    /\ commit' = IF Tail(commit.taken) = <<>> THEN NotCommitting
                 ELSE [commit EXCEPT !.taken = Tail(@)]
    /\ UNCHANGED <<newest, hw, isr, queue, checks, batch, update, copied, control, returned, changes>>

-----------------------------------------------------------------------------
(* The metadata FSM *)

RemoveFromISR(f) ==
    /\ control = "leading" /\ ~ReadLocked
    /\ changes < MaxChanges
    /\ changes' = changes + 1
    /\ f \in DOMAIN isr
    /\ isr' = [r \in DOMAIN isr \ {f} |-> isr[r]]
    /\ CheckAgain
    /\ UNCHANGED <<newest, hw, queue, acks, batch, update, commit, copied, control, returned>>

\* The replica gets a new record, with nothing reported.  Mutant: the record
\* starts with what the replica is known to hold.
AddToISRCaughtUp(f) ==
    /\ control = "leading" /\ ~ReadLocked
    /\ changes < MaxChanges
    /\ changes' = changes + 1
    /\ f \notin DOMAIN isr
    /\ isr' = [r \in DOMAIN isr \cup {f} |->
                  IF r = f THEN [offset |-> copied[f], id |-> changes + 1] ELSE isr[r]]
    /\ UNCHANGED <<newest, hw, queue, checks, acks, batch, update, commit, copied, control, returned>>
AddToISR(f) ==
    /\ control = "leading" /\ ~ReadLocked
    /\ changes < MaxChanges
    /\ changes' = changes + 1
    /\ f \notin DOMAIN isr
    /\ isr' = [r \in DOMAIN isr \cup {f} |->
                  IF r = f THEN [offset |-> -1, id |-> changes + 1] ELSE isr[r]]
    /\ UNCHANGED <<newest, hw, queue, checks, acks, batch, update, commit, copied, control, returned>>

\* SetLeader and stopLeading: lock p.mu, close the stop channel and wait.
StopLeading ==
    /\ control = "leading" /\ ~ReadLocked
    /\ control' = "stopping"
    /\ UNCHANGED <<newest, hw, isr, queue, checks, acks, batch, update, commit, copied, returned,
                   changes>>

\* A loop sees the closed stop channel in its select.
Return(loop) ==
    /\ control = "stopping"
    /\ loop \notin returned
    /\ IF loop = "commit" THEN commit.pc = "select" ELSE update[loop].pc = "select"
    /\ returned' = returned \cup {loop}
    /\ UNCHANGED <<newest, hw, isr, queue, checks, acks, batch, update, commit, copied, control,
                   changes>>

\* Every loop returned: the commit queue is disposed of and p.mu unlocked.
StoppedLeading ==
    /\ control = "stopping"
    /\ returned = Replica \cup {"commit"}
    /\ control' = "stopped"
    /\ queue' = <<>>
    /\ UNCHANGED <<newest, hw, isr, checks, acks, batch, update, commit, copied, returned, changes>>

-----------------------------------------------------------------------------
Next ==
    \/ AppendBatch
    \/ ProcessPendingMessage
    \/ CommitCheck
    \/ CommitLock
    \/ CommitTake
    \/ CommitHW
    \/ CommitAck
    \/ StopLeading
    \/ StoppedLeading
    \/ \E f \in Follower : ReceiveRequest(f) \/ Copy(f) \/ RemoveFromISR(f) \/ AddToISR(f)
    \/ \E r \in Replica : Lookup(r) \/ Update(r) \/ Notify(r) \/ CommitScan(r)
    \/ \E loop \in Replica \cup {"commit"} : Return(loop)

Spec == Init /\ [][Next]_vars

\* The Go scheduler runs every goroutine that can run, a select with a ready
\* stop channel takes it at some time, and followers keep fetching.
Fairness ==
    /\ WF_vars(ProcessPendingMessage)
    /\ WF_vars(CommitCheck) /\ WF_vars(CommitLock) /\ WF_vars(CommitTake)
    /\ WF_vars(CommitHW) /\ WF_vars(CommitAck)
    /\ WF_vars(StoppedLeading)
    /\ \A f \in Follower : WF_vars(Copy(f)) /\ WF_vars(ReceiveRequest(f))
    /\ \A r \in Replica : /\ WF_vars(Lookup(r)) /\ WF_vars(Update(r)) /\ WF_vars(Notify(r))
                          /\ WF_vars(CommitScan(r))
    /\ \A loop \in Replica \cup {"commit"} : SF_vars(Return(loop))

FairSpec == Spec /\ Fairness

-----------------------------------------------------------------------------
(* Properties. *)

\* The newest offset in the log of replica r.
Held(r) == IF r = Self THEN newest ELSE copied[r]

\* What the commit loop commits is in the logs of at least MinISR replicas,
\* however the ISR changes between its reading the ISR and its setting the high
\* watermark (commitLoop, RemoveFromISR, AddToISR).
CommittedOnMinISR == hw >= 0 => Cardinality({r \in Replica : Held(r) >= hw}) >= MinISR

\* A client that asked for AckPolicy ALL gets its ack after the high watermark
\* covers the message, so that it can read what was acknowledged.
AckedCommitted == \A i \in DOMAIN acks : acks[i].policy = "ALL" => acks[i].offset <= hw

\* No message is acknowledged twice, by the message processing loop and the
\* commit loop, or by two passes of the commit loop.
AckedOnce == \A i, j \in DOMAIN acks : acks[i].offset = acks[j].offset => i = j

\* A committed message does not wait in the commit queue for its ack: when the
\* commit loop is done, what is left in the queue is above the high watermark.
\* This is why processPendingMessage comes before updateISRLatestOffset.
NoAckLeftBehind ==
    commit.pc = "select" => \A i \in DOMAIN queue : queue[i].offset > hw

\* Every message of the log is committed in the end unless the leadership ends or
\* the ISR stays too small: no commit check gets lost between the loops although
\* sends to the full channel are dropped.
NoLostCommitCheck ==
    <>[](control # "leading" \/ Cardinality(DOMAIN isr) < MinISR \/ hw = newest)

\* stopLeading stops message processing and replication and steps down.
StepsDown == (control = "stopping") ~> (control = "stopped")
=============================================================================
