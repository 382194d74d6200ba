----------------------- MODULE PartitionLeaderProofs -----------------------
(***************************************************************************)
(* Proofs about PartitionLeader, for any set of followers, any minimum     *)
(* ISR, any batch size and any bounds: what the high watermark covers is   *)
(* on enough replicas, an ack of policy ALL is sent after its message is   *)
(* committed, every message is acknowledged once, and none is left behind  *)
(* in the commit queue.                                                    *)
(***************************************************************************)
EXTENDS PartitionLeader, TLAPS, SequenceTheorems, FiniteSetTheorems

-----------------------------------------------------------------------------
(* Types. *)

\* A loop that is about to queue or to acknowledge a message has one.
TypeInv ==
    /\ TypeOK
    /\ update[Self].pc = "queue" => batch # <<>>
    /\ commit.pc = "ack" => commit.taken # <<>>

UpdateState == [pc : {"select", "queue", "lookup", "update", "notify"}, offset : Offset, id : Nat]

CommitState(S) == [pc : {"select", "lock", "scan", "take", "hw", "ack"},
                   seen : [S -> Offset], least : Offset, taken : Seq(Pending)]

LEMMA Replicas ==
  /\ Self \in Replica /\ Follower \subseteq Replica /\ Self \notin Follower
  /\ IsFiniteSet(Replica)
  /\ Cardinality(Replica) \in Nat
  <1>1. IsFiniteSet(Replica)
        BY PartitionLeaderAssumption, FS_AddElement, Zenon DEF Replica
  <1> QED BY <1>1, FS_CardinalityType, PartitionLeaderAssumption, Zenon DEF Replica

LEMMA NotUpdatingType == NotUpdating \in UpdateState
  BY Zenon DEF NotUpdating, UpdateState, Offset

LEMMA NotCommittingType ==
  /\ NotCommitting \in CommitState({}) /\ NotCommitting.pc = "select"
  /\ DOMAIN NotCommitting.seen = {} /\ NotCommitting.taken = <<>>
  BY EmptySeq DEF NotCommitting, CommitState, Offset

\* The entries of a queue.
LEMMA Entries ==
  ASSUME NEW s \in Seq(Pending)
  PROVE  /\ Len(s) \in Nat /\ DOMAIN s = 1..Len(s)
         /\ \A i \in 1..Len(s) : s[i] \in Pending /\ s[i].offset \in Int
  <1>1. Len(s) \in Nat /\ DOMAIN s = 1..Len(s) /\ \A i \in 1..Len(s) : s[i] \in Pending
        BY LenProperties, Zenon
  <1>2. \A p \in Pending : p.offset \in Int
        BY DEF Pending
  <1> QED BY <1>1, <1>2, Zenon

\* The head of a sequence that is not empty, and what is left.
LEMMA HeadAndTail ==
  ASSUME NEW s \in Seq(Pending), s # <<>>
  PROVE  /\ Head(s) \in Pending /\ Head(s) = s[1] /\ Tail(s) \in Seq(Pending)
         /\ Len(s) \in Nat /\ Len(s) >= 1 /\ Len(Tail(s)) = Len(s) - 1
         /\ \A i \in 1..Len(Tail(s)) : Tail(s)[i] = s[i + 1]
  BY HeadTailProperties

LEMMA InitType == Init => TypeInv
  <1> SUFFICES ASSUME Init PROVE TypeInv
      BY Zenon
  <1>1. \E S \in SUBSET Replica : isr \in [S -> Record]
    <2>1. isr \in [Replica -> Record]
          BY Zenon DEF Init, Record, Offset
    <2> QED BY <2>1, Zenon
  <1>2. \E S \in SUBSET Replica : commit \in CommitState(S)
        BY NotCommittingType, Zenon DEF Init
  <1>3. update \in [Replica -> UpdateState] /\ update[Self].pc = "select"
        BY NotUpdatingType, Replicas, Zenon DEF Init, NotUpdating
  <1>4. /\ queue \in Seq(Pending) /\ acks \in Seq(Pending) /\ batch \in Seq(Pending)
        /\ newest \in Offset /\ hw \in Offset /\ checks \in 0..Cardinality(Replica)
        /\ copied \in [Follower -> Offset]
        BY EmptySeq, Replicas DEF Init, Offset
  <1> QED BY <1>1, <1>2, <1>3, <1>4, NotCommittingType, Zenon
          DEF Init, TypeInv, TypeOK, UpdateState, CommitState

LEMMA CheckAgainType ==
  ASSUME TypeOK, CheckAgain
  PROVE  checks' \in 0..Cardinality(Replica)
  BY Replicas DEF TypeOK, CheckAgain

LEMMA AppendBatchType ==
  ASSUME TypeInv, AppendBatch
  PROVE  TypeInv'
  <1>1. PICK size \in 1..MaxBatch : \E policy \in [1..size -> {"ALL", "LEADER"}] :
            /\ newest' = newest + size
            /\ batch' = [i \in 1..size |-> [offset |-> newest + i, policy |-> policy[i]]]
        BY Zenon DEF AppendBatch
  <1>2. PICK policy \in [1..size -> {"ALL", "LEADER"}] :
            batch' = [i \in 1..size |-> [offset |-> newest + i, policy |-> policy[i]]]
        BY <1>1, Zenon
  <1>3. newest \in Offset /\ size \in Nat /\ size >= 1 /\ newest' \in Offset
        BY <1>1, PartitionLeaderAssumption DEF TypeInv, TypeOK, Offset
  <1>4. \A i \in 1..size : [offset |-> newest + i, policy |-> policy[i]] \in Pending
        BY <1>3 DEF Pending, Offset
  <1>5. batch' \in Seq(Pending) /\ Len(batch') = size
    <2>1. batch' \in [1..size -> Pending]
          BY <1>2, <1>4, Zenon
    <2> QED BY <1>3, <2>1
  <1>6. batch' # <<>>
        BY <1>3, <1>5
  <1>7. update' \in [Replica -> UpdateState]
    <2>1. update \in [Replica -> UpdateState]
          BY Zenon DEF TypeInv, TypeOK, UpdateState
    <2>2. update' = [update EXCEPT ![Self].pc = "queue"]
          BY Zenon DEF AppendBatch
    <2> QED BY <2>1, <2>2, Replicas, Zenon DEF UpdateState
  <1> QED BY <1>3, <1>5, <1>6, <1>7, Zenon DEF AppendBatch, TypeInv, TypeOK, UpdateState

LEMMA ProcessPendingMessageType ==
  ASSUME TypeInv, ProcessPendingMessage
  PROVE  TypeInv'
  <1>1. batch \in Seq(Pending) /\ batch # <<>>
        BY Zenon DEF ProcessPendingMessage, TypeInv, TypeOK
  <1>2. batch' \in Seq(Pending) /\ queue' \in Seq(Pending) /\ acks' \in Seq(Pending)
    <2>1. Head(batch) \in Pending /\ Tail(batch) \in Seq(Pending)
          BY <1>1, HeadAndTail, Zenon
    <2>2. queue \in Seq(Pending) /\ acks \in Seq(Pending)
          BY Zenon DEF TypeInv, TypeOK
    <2>3. Append(queue, Head(batch)) \in Seq(Pending) /\ Append(acks, Head(batch)) \in Seq(Pending)
          BY <2>1, <2>2
    <2> QED BY <2>1, <2>2, <2>3, Zenon DEF ProcessPendingMessage
  <1>3. update' \in [Replica -> UpdateState]
    <2>1. update \in [Replica -> UpdateState] /\ newest \in Offset
          BY Zenon DEF TypeInv, TypeOK, UpdateState
    <2>2. \/ update' = update
          \/ update' = [update EXCEPT ![Self].pc = "lookup", ![Self].offset = newest]
          BY Zenon DEF ProcessPendingMessage
    <2> QED BY <2>1, <2>2, Replicas DEF UpdateState
  <1>4. update'[Self].pc = "queue" => batch' # <<>>
        BY Replicas DEF ProcessPendingMessage, TypeInv, TypeOK
  <1> QED BY <1>2, <1>3, <1>4, Zenon DEF ProcessPendingMessage, TypeInv, TypeOK, UpdateState

\* The steps of updateISRLatestOffset.
LEMMA UpdateType ==
  ASSUME TypeInv, NEW r \in Replica, Lookup(r) \/ Update(r) \/ Notify(r)
  PROVE  TypeInv'
  <1>1. update \in [Replica -> UpdateState]
        BY Zenon DEF TypeInv, TypeOK, UpdateState
  <1>2. PICK S \in SUBSET Replica : isr \in [S -> Record]
        BY Zenon DEF TypeInv, TypeOK
  <1>3. CASE Lookup(r)
    <2>1. update' \in [Replica -> UpdateState]
      <3>1. r \in S => isr[r].id \in Nat
            BY <1>2, Zenon DEF Record
      <3> QED BY <1>1, <1>2, <1>3, <3>1, NotUpdatingType, Zenon DEF Lookup, UpdateState
    <2>2. update'[Self].pc = "queue" => update[Self].pc = "queue"
          BY <1>1, <1>3, Replicas, Zenon DEF Lookup, NotUpdating, UpdateState
    <2> QED BY <1>3, <2>1, <2>2, Zenon DEF Lookup, TypeInv, TypeOK, UpdateState
  <1>4. CASE Update(r)
    <2>1. update' \in [Replica -> UpdateState]
          BY <1>1, <1>4, NotUpdatingType DEF Update, UpdateState
    <2>2. update'[Self].pc = "queue" => update[Self].pc = "queue"
          BY <1>1, <1>4, Replicas DEF Update, NotUpdating, UpdateState
    <2>3. isr' \in [S -> Record]
      <3>1. update[r].offset \in Offset
            BY <1>1, Zenon DEF UpdateState
      <3> QED BY <1>2, <1>4, <3>1, Zenon DEF Update, Record
    <2> QED BY <1>4, <2>1, <2>2, <2>3, Zenon DEF Update, TypeInv, TypeOK, UpdateState
  <1>5. CASE Notify(r)
    <2>1. update' \in [Replica -> UpdateState]
          BY <1>1, <1>5, NotUpdatingType, Zenon DEF Notify
    <2>2. update'[Self].pc = "queue" => update[Self].pc = "queue"
          BY <1>1, <1>5, Replicas, Zenon DEF Notify, NotUpdating, UpdateState
    <2>3. checks' \in 0..Cardinality(Replica)
          BY <1>5, CheckAgainType, Zenon DEF Notify, TypeInv
    <2> QED BY <1>5, <2>1, <2>2, <2>3, Zenon DEF Notify, TypeInv, TypeOK, UpdateState
  <1> QED BY <1>3, <1>4, <1>5, Zenon

LEMMA CommitLoopType ==
  ASSUME TypeInv, CommitCheck \/ CommitLock \/ CommitHW \/ CommitAck
  PROVE  TypeInv'
  <1>1. PICK S \in SUBSET Replica : commit \in CommitState(S)
        BY Zenon DEF TypeInv, TypeOK, CommitState
  <1>2. CASE CommitCheck
    <2>1. commit' \in CommitState(S) /\ commit'.pc = "lock"
          BY <1>1, <1>2, Zenon DEF CommitCheck, CommitState
    <2>2. checks' \in 0..Cardinality(Replica)
          BY <1>2, Replicas DEF CommitCheck, TypeInv, TypeOK
    <2> QED BY <1>2, <2>1, <2>2, Zenon DEF CommitCheck, TypeInv, TypeOK, CommitState
  <1>3. CASE CommitLock
    <2>1. /\ commit' \in CommitState({}) \/ commit' \in CommitState(S)
          /\ commit'.pc # "ack"
          BY <1>1, <1>3, NotCommittingType, Zenon DEF CommitLock, CommitState
    <2> QED BY <1>3, <2>1, Zenon DEF CommitLock, TypeInv, TypeOK, CommitState
  <1>4. CASE CommitHW
    <2>1. /\ commit' \in CommitState({}) \/ commit' \in CommitState(S)
          /\ commit'.pc = "ack" => commit'.taken # <<>>
          BY <1>1, <1>4, NotCommittingType, Zenon DEF CommitHW, CommitState
    <2>2. hw' \in Offset
          BY <1>1, <1>4, Zenon DEF CommitHW, TypeInv, TypeOK, CommitState
    <2> QED BY <1>4, <2>1, <2>2, Zenon DEF CommitHW, TypeInv, TypeOK, CommitState
  <1>5. CASE CommitAck
    <2>1. commit.taken \in Seq(Pending) /\ commit.taken # <<>>
          BY <1>1, <1>5, Zenon DEF CommitAck, TypeInv, CommitState
    <2>2. Head(commit.taken) \in Pending /\ Tail(commit.taken) \in Seq(Pending)
          BY <2>1, HeadAndTail, Zenon
    <2>3. /\ commit' \in CommitState({}) \/ commit' \in CommitState(S)
          /\ commit'.pc = "ack" => commit'.taken # <<>>
          BY <1>1, <1>5, <2>2, NotCommittingType, Zenon DEF CommitAck, CommitState
    <2>4. acks' \in Seq(Pending)
      <3>1. acks \in Seq(Pending)
            BY Zenon DEF TypeInv, TypeOK
      <3> QED BY <1>5, <2>2, <3>1 DEF CommitAck
    <2> QED BY <1>5, <2>3, <2>4, Zenon DEF CommitAck, TypeInv, TypeOK, CommitState
  <1> QED BY <1>2, <1>3, <1>4, <1>5, Zenon

LEMMA CommitScanType ==
  ASSUME TypeInv, NEW r \in Replica, CommitScan(r)
  PROVE  TypeInv'
  <1>1. PICK S \in SUBSET Replica : commit \in CommitState(S)
        BY Zenon DEF TypeInv, TypeOK, CommitState
  <1>2. PICK T \in SUBSET Replica : isr \in [T -> Record]
        BY Zenon DEF TypeInv, TypeOK
  <1> DEFINE seen == [m \in DOMAIN commit.seen \cup {r} |->
                         IF m = r THEN isr[r].offset ELSE commit.seen[m]]
             pc == IF DOMAIN seen = DOMAIN isr THEN "take" ELSE "scan"
  <1>3. commit' = [commit EXCEPT !.seen = seen, !.pc = pc]
        BY Zenon DEF CommitScan
  <1>4. seen \in [S \cup {r} -> Offset]
    <2>1. commit.seen \in [S -> Offset] /\ isr[r].offset \in Offset
          BY <1>1, <1>2, Zenon DEF CommitScan, CommitState, Record
    <2> QED BY <2>1, Zenon
  <1>5. pc \in {"scan", "take"}
        BY Zenon
  <1> HIDE DEF seen, pc
  <1>6. commit' \in CommitState(S \cup {r}) /\ commit'.pc # "ack"
        BY <1>1, <1>3, <1>4, <1>5, Zenon DEF CommitState
  <1>7. UNCHANGED <<newest, hw, isr, queue, checks, acks, batch, update, copied, control,
                    returned, changes>>
        BY Zenon DEF CommitScan
  <1> QED BY <1>6, <1>7, Zenon DEF TypeInv, TypeOK, CommitState

\* What TakeUntil takes, and what it leaves.
LEMMA Taking ==
  ASSUME TypeInv, CommitTake
  PROVE  \E slowest \in DOMAIN commit.seen, n \in 0..Len(queue) :
            /\ \A r \in DOMAIN commit.seen : commit.seen[slowest] <= commit.seen[r]
            /\ \A i \in 1..n : queue[i].offset <= commit.seen[slowest]
            /\ n < Len(queue) => queue[n + 1].offset > commit.seen[slowest]
            /\ commit.seen[slowest] \in Offset
            /\ commit' \in CommitState({}) /\ commit'.pc = "hw"
            /\ commit'.least = commit.seen[slowest]
            /\ commit'.taken \in Seq(Pending) /\ Len(commit'.taken) = n
            /\ \A i \in 1..n : commit'.taken[i] = queue[i]
            /\ queue' \in Seq(Pending) /\ Len(queue') = Len(queue) - n
            /\ \A i \in 1..(Len(queue) - n) : queue'[i] = queue[n + i]
  <1>1. PICK slowest \in DOMAIN commit.seen, n \in 0..Len(queue) :
            /\ \A r \in DOMAIN commit.seen : commit.seen[slowest] <= commit.seen[r]
            /\ \A i \in 1..n : queue[i].offset <= commit.seen[slowest]
            /\ n < Len(queue) => queue[n + 1].offset > commit.seen[slowest]
            /\ commit' = [NotCommitting EXCEPT !.pc = "hw", !.least = commit.seen[slowest],
                                               !.taken = SubSeq(queue, 1, n)]
            /\ queue' = SubSeq(queue, n + 1, Len(queue))
        BY Zenon DEF CommitTake
  <1>2. queue \in Seq(Pending) /\ Len(queue) \in Nat
        BY DEF TypeInv, TypeOK
  <1>3. commit.seen[slowest] \in Offset
        BY Zenon DEF TypeInv, TypeOK
  <1>4. /\ SubSeq(queue, 1, n) \in Seq(Pending) /\ Len(SubSeq(queue, 1, n)) = n
        /\ \A i \in 1..n : SubSeq(queue, 1, n)[i] = queue[i]
        BY <1>2
  <1>5. /\ queue' \in Seq(Pending) /\ Len(queue') = Len(queue) - n
        /\ \A i \in 1..(Len(queue) - n) : queue'[i] = queue[n + i]
        BY <1>1, <1>2
  <1>6. /\ commit' \in CommitState({}) /\ commit'.pc = "hw"
        /\ commit'.least = commit.seen[slowest] /\ commit'.taken = SubSeq(queue, 1, n)
    <2>1. /\ NotCommitting \in CommitState({})
          /\ commit' = [NotCommitting EXCEPT !.pc = "hw", !.least = commit.seen[slowest],
                                             !.taken = SubSeq(queue, 1, n)]
          BY <1>1, NotCommittingType, Zenon
    <2> QED BY <1>3, <1>4, <2>1, Zenon DEF CommitState
  <1>7. /\ commit'.taken \in Seq(Pending) /\ Len(commit'.taken) = n
        /\ \A i \in 1..n : commit'.taken[i] = queue[i]
        BY <1>4, <1>6, Zenon
  <1> QED BY <1>1, <1>3, <1>5, <1>6, <1>7, Zenon

LEMMA CommitTakeType ==
  ASSUME TypeInv, CommitTake
  PROVE  TypeInv'
  <1>1. commit' \in CommitState({}) /\ commit'.pc = "hw" /\ queue' \in Seq(Pending)
        BY Taking, Zenon
  <1> QED BY <1>1, Zenon DEF CommitTake, TypeInv, TypeOK, CommitState

LEMMA ChangeISRType ==
  ASSUME TypeInv, NEW f \in Follower, RemoveFromISR(f) \/ AddToISR(f)
  PROVE  TypeInv'
  <1>1. PICK S \in SUBSET Replica : isr \in [S -> Record]
        BY Zenon DEF TypeInv, TypeOK
  <1>2. changes \in Nat /\ changes' \in Nat
        BY DEF TypeInv, TypeOK, RemoveFromISR, AddToISR
  <1>3. CASE RemoveFromISR(f)
    <2>1. isr' \in [S \ {f} -> Record]
          BY <1>1, <1>3, Zenon DEF RemoveFromISR
    <2>2. checks' \in 0..Cardinality(Replica)
          BY <1>3, CheckAgainType, Zenon DEF RemoveFromISR, TypeInv
    <2> QED BY <1>2, <1>3, <2>1, <2>2, Zenon DEF RemoveFromISR, TypeInv, TypeOK
  <1>4. CASE AddToISR(f)
    <2>1. [offset |-> -1, id |-> changes + 1] \in Record
          BY <1>2 DEF Record, Offset
    <2>2. isr' \in [S \cup {f} -> Record]
          BY <1>1, <1>4, <2>1, Zenon DEF AddToISR
    <2> QED BY <1>2, <1>4, <2>2, Replicas DEF AddToISR, TypeInv, TypeOK
  <1> QED BY <1>3, <1>4, Zenon

LEMMA StopType ==
  ASSUME TypeInv,
         StopLeading \/ StoppedLeading \/ \E loop \in Replica \cup {"commit"} : Return(loop)
  PROVE  TypeInv'
  <1>1. queue' \in Seq(Pending)
    <2>1. queue' = queue \/ queue' = <<>>
          BY Zenon DEF StopLeading, StoppedLeading, Return
    <2> QED BY <2>1, EmptySeq DEF TypeInv, TypeOK
  <1>2. returned' \subseteq Replica \cup {"commit"}
        BY Zenon DEF StopLeading, StoppedLeading, Return, TypeInv, TypeOK
  <1> QED BY <1>1, <1>2 DEF StopLeading, StoppedLeading, Return, TypeInv, TypeOK

LEMMA FollowerType ==
  ASSUME TypeInv, NEW f \in Follower, ReceiveRequest(f) \/ Copy(f)
  PROVE  TypeInv'
  <1>1. CASE ReceiveRequest(f)
    <2>1. update' \in [Replica -> UpdateState] /\ update'[Self] = update[Self]
      <3>1. update \in [Replica -> UpdateState] /\ copied[f] \in Offset
            BY Zenon DEF TypeInv, TypeOK, UpdateState
      <3>2. update' = [update EXCEPT ![f].pc = "lookup", ![f].offset = copied[f]]
            BY <1>1, Zenon DEF ReceiveRequest
      <3> QED BY <3>1, <3>2, Replicas, Zenon DEF UpdateState
    <2> QED BY <1>1, <2>1, Zenon DEF ReceiveRequest, TypeInv, TypeOK, UpdateState
  <1>2. CASE Copy(f)
    <2>1. copied' \in [Follower -> Offset]
          BY <1>2 DEF Copy, TypeInv, TypeOK, Offset
    <2> QED BY <1>2, <2>1, Zenon DEF Copy, TypeInv, TypeOK
  <1> QED BY <1>1, <1>2, Zenon

LEMMA NextType ==
  ASSUME TypeInv, [Next]_vars
  PROVE  TypeInv'
  <1>1. CASE UNCHANGED vars
        BY <1>1, Zenon DEF vars, TypeInv, TypeOK
  <1>2. CASE Next
        BY <1>2, AppendBatchType, ProcessPendingMessageType, UpdateType, CommitLoopType,
           CommitScanType, CommitTakeType, ChangeISRType, StopType, FollowerType, Zenon DEF Next
  <1> QED BY <1>1, <1>2, Zenon

\* Every variable keeps its type; in particular commitCheck never holds more
\* tokens than there are replicas (the sends of updateISRLatestOffset and
\* RemoveFromISR give up when it is full).
THEOREM TypeCorrect == Spec => []TypeOK
  <1>1. TypeInv => TypeOK
        BY Zenon DEF TypeInv
  <1> QED BY <1>1, InitType, NextType, PTL DEF Spec

-----------------------------------------------------------------------------
(* Commits are backed by logs. *)

\* What the loops believe a replica to hold it does hold.
ReportInv ==
    /\ \A r \in DOMAIN isr : isr[r].offset <= Held(r)
    /\ \A r \in Replica : update[r].offset <= Held(r)
    /\ \A r \in DOMAIN commit.seen : commit.seen[r] <= Held(r)

\* MinISR replicas hold everything up to offset o.
Backed(o) == o >= 0 => \E Q \in SUBSET Replica : /\ Cardinality(Q) >= MinISR
                                                /\ \A r \in Q : Held(r) >= o

UpTo(s, o) == \A i \in 1..Len(s) : s[i].offset <= o

\* What the commit loop has established when it is at a point of its pass.
CommitInv ==
    /\ commit.pc \in {"select", "lock"} => DOMAIN commit.seen = {}
    /\ commit.pc = "scan" => /\ Cardinality(DOMAIN isr) >= MinISR
                             /\ DOMAIN commit.seen \subseteq DOMAIN isr
    /\ commit.pc = "take" => Cardinality(DOMAIN commit.seen) >= MinISR
    /\ commit.pc = "hw" => Backed(commit.least) /\ UpTo(commit.taken, commit.least)
    /\ commit.pc = "ack" => UpTo(commit.taken, hw)
    /\ Backed(hw)
    /\ AckedCommitted

\* Logs only grow while a leadership lasts.
LEMMA HeldGrows ==
  ASSUME TypeInv, [Next]_vars, NEW r \in Replica
  PROVE  Held(r) \in Offset /\ Held(r)' \in Offset /\ Held(r) <= Held(r)'
  <1>1. TypeInv'
        BY NextType, Zenon
  <1>2. newest \in Offset /\ newest' \in Offset
        BY <1>1, Zenon DEF TypeInv, TypeOK
  <1>3. r # Self => copied[r] \in Offset /\ copied'[r] \in Offset
        BY <1>1, Zenon DEF TypeInv, TypeOK, Replica
  <1>4. newest <= newest'
    <2>1. CASE AppendBatch
          BY <1>2, <2>1, PartitionLeaderAssumption DEF AppendBatch, Offset
    <2>2. CASE ~AppendBatch
      <3>1. newest' = newest
            BY <2>2, Zenon DEF Next, vars, ProcessPendingMessage, CommitCheck, CommitLock, CommitTake,
               CommitHW, CommitAck, StopLeading, StoppedLeading, ReceiveRequest, Copy, RemoveFromISR,
               AddToISR, Lookup, Update, Notify, CommitScan, Return
      <3> QED BY <1>2, <3>1 DEF Offset
    <2> QED BY <2>1, <2>2, Zenon
  <1>5. r # Self => copied[r] <= copied'[r]
    <2>1. ASSUME NEW f \in Follower, Copy(f), r # Self
          PROVE  copied[r] <= copied'[r]
      <3>1. PICK o \in (copied[f] + 1)..newest : copied' = [copied EXCEPT ![f] = o]
            BY <2>1, Zenon DEF Copy
      <3>2. copied \in [Follower -> Offset] /\ r \in Follower
            BY <2>1, Zenon DEF TypeInv, TypeOK, Replica
      <3>3. copied[r] \in Int /\ copied[f] \in Int
            BY <3>2 DEF Offset
      <3> QED BY <3>1, <3>2, <3>3
    <2>2. CASE \A f \in Follower : ~Copy(f)
      <3>1. copied' = copied
            BY <2>2, Zenon DEF Next, vars, AppendBatch, ProcessPendingMessage, CommitCheck, CommitLock,
               CommitTake, CommitHW, CommitAck, StopLeading, StoppedLeading, ReceiveRequest,
               RemoveFromISR, AddToISR, Lookup, Update, Notify, CommitScan, Return
      <3> QED BY <1>3, <3>1 DEF Offset
    <2> QED BY <2>1, <2>2, Zenon
  <1> QED BY <1>2, <1>3, <1>4, <1>5, Zenon DEF Held

LEMMA BackedStays ==
  ASSUME TypeInv, [Next]_vars, NEW o \in Offset, Backed(o)
  PROVE  o >= 0 => \E Q \in SUBSET Replica : /\ Cardinality(Q) >= MinISR
                                            /\ \A r \in Q : Held(r)' >= o
  <1> SUFFICES ASSUME o >= 0
               PROVE  \E Q \in SUBSET Replica : /\ Cardinality(Q) >= MinISR
                                                /\ \A r \in Q : Held(r)' >= o
      BY Zenon
  <1>1. PICK Q \in SUBSET Replica : Cardinality(Q) >= MinISR /\ \A r \in Q : Held(r) >= o
        BY Zenon DEF Backed
  <1>2. \A r \in Q : Held(r)' >= o
    <2> TAKE r \in Q
    <2>1. Held(r) \in Int /\ Held(r)' \in Int /\ Held(r) <= Held(r)'
          BY HeldGrows DEF Offset
    <2> QED BY <1>1, <2>1 DEF Offset
  <1> QED BY <1>1, <1>2, Zenon

LEMMA InitReport == Init => ReportInv
  <1> SUFFICES ASSUME Init PROVE ReportInv
      BY Zenon
  <1>1. \A r \in Replica : Held(r) = -1
        BY Zenon DEF Init, Held, Replica
  <1> QED BY <1>1, NotCommittingType DEF Init, ReportInv, NotUpdating

LEMMA NextReport ==
  ASSUME TypeInv, ReportInv, [Next]_vars
  PROVE  ReportInv'
  <1>0. TypeInv'
        BY NextType, Zenon
  <1>1. \A r \in Replica : Held(r) \in Int /\ Held(r)' \in Int /\ Held(r) <= Held(r)' /\ -1 <= Held(r)
        BY HeldGrows DEF Offset
  <1>2. PICK S \in SUBSET Replica : isr \in [S -> Record]
        BY Zenon DEF TypeInv, TypeOK
  <1>3. PICK T \in SUBSET Replica : commit \in CommitState(T)
        BY Zenon DEF TypeInv, TypeOK, CommitState
  <1>4. update \in [Replica -> UpdateState]
        BY Zenon DEF TypeInv, TypeOK, UpdateState
  <1>5. /\ \A r \in S : isr[r].offset \in Int /\ isr[r].offset <= Held(r)
        /\ \A r \in Replica : update[r].offset \in Int /\ update[r].offset <= Held(r)
        /\ \A r \in T : commit.seen[r] \in Int /\ commit.seen[r] <= Held(r)
        BY <1>2, <1>3, <1>4 DEF ReportInv, Record, CommitState, UpdateState, Offset
  <1>6. \A r \in DOMAIN isr' : isr'[r].offset <= Held(r)'
    <2>1. CASE isr' = isr
          BY <1>1, <1>2, <1>5, <2>1
    <2>2. ASSUME NEW q \in Replica, Update(q), isr' # isr
          PROVE  \A r \in DOMAIN isr' : isr'[r].offset <= Held(r)'
      <3>1. isr' = [isr EXCEPT ![q].offset = update[q].offset]
            BY <2>2, Zenon DEF Update
      <3> QED BY <1>1, <1>2, <1>5, <3>1 DEF Record
    <2>3. ASSUME NEW f \in Follower, RemoveFromISR(f)
          PROVE  \A r \in DOMAIN isr' : isr'[r].offset <= Held(r)'
      <3>1. isr' = [r \in S \ {f} |-> isr[r]]
            BY <1>2, <2>3, Zenon DEF RemoveFromISR
      <3> QED BY <1>1, <1>5, <3>1
    <2>4. ASSUME NEW f \in Follower, AddToISR(f)
          PROVE  \A r \in DOMAIN isr' : isr'[r].offset <= Held(r)'
      <3>1. isr' = [r \in S \cup {f} |->
                       IF r = f THEN [offset |-> -1, id |-> changes + 1] ELSE isr[r]]
            BY <1>2, <2>4, Zenon DEF AddToISR
      <3> QED BY <1>1, <1>5, <3>1, Replicas
    <2> QED BY <2>1, <2>2, <2>3, <2>4, Zenon
            DEF Next, vars, AppendBatch, ProcessPendingMessage, CommitCheck, CommitLock, CommitTake,
                CommitHW, CommitAck, StopLeading, StoppedLeading, ReceiveRequest, Copy, Lookup, Notify,
                CommitScan, Return
  <1>7. \A r \in Replica : update'[r].offset <= Held(r)'
    <2>1. ASSUME NEW q \in Replica, NEW u \in UpdateState, update' = [update EXCEPT ![q] = u],
                 u.offset <= Held(q)
          PROVE  \A r \in Replica : update'[r].offset <= Held(r)'
      <3>1. u.offset \in Int
            BY DEF UpdateState, Offset
      <3> QED BY <1>1, <1>4, <1>5, <2>1, <3>1
    <2>2. CASE UNCHANGED update
          BY <1>1, <1>5, <2>2
    <2>3. NotUpdating.offset = -1 /\ NotUpdating \in UpdateState
          BY NotUpdatingType, Zenon DEF NotUpdating
    <2>4. ASSUME NEW q \in Replica, Lookup(q) \/ Update(q) \/ Notify(q)
          PROVE  \A r \in Replica : update'[r].offset <= Held(r)'
      <3>1. \/ update' = [update EXCEPT ![q] = NotUpdating]
            \/ update' = [update EXCEPT ![q].pc = "update", ![q].id = isr[q].id] /\ q \in S
            \/ update' = [update EXCEPT ![q].pc = "notify"]
            BY <1>2, <2>4, Zenon DEF Lookup, Update, Notify
      <3> QED BY <1>1, <1>4, <1>5, <2>1, <2>3, <3>1 DEF UpdateState
    <2>5. ASSUME AppendBatch
          PROVE  \A r \in Replica : update'[r].offset <= Held(r)'
      <3>1. update' = [update EXCEPT ![Self].pc = "queue"]
            BY <2>5, Zenon DEF AppendBatch
      <3> QED BY <1>1, <1>4, <1>5, <3>1 DEF UpdateState
    <2>6. ASSUME ProcessPendingMessage
          PROVE  \A r \in Replica : update'[r].offset <= Held(r)'
      <3>1. \/ update' = update
            \/ update' = [update EXCEPT ![Self].pc = "lookup", ![Self].offset = newest]
            BY <2>6, Zenon DEF ProcessPendingMessage
      <3>2. Held(Self) = newest
            BY Zenon DEF Held
      <3> QED BY <1>1, <1>4, <1>5, <3>1, <3>2, Replicas DEF UpdateState
    <2>7. ASSUME NEW f \in Follower, ReceiveRequest(f)
          PROVE  \A r \in Replica : update'[r].offset <= Held(r)'
      <3>1. update' = [update EXCEPT ![f].pc = "lookup", ![f].offset = copied[f]]
            BY <2>7, Zenon DEF ReceiveRequest
      <3>2. Held(f) = copied[f]
            BY Replicas, Zenon DEF Held
      <3> QED BY <1>1, <1>4, <1>5, <3>1, <3>2, Replicas DEF UpdateState
    <2> QED BY <2>2, <2>4, <2>5, <2>6, <2>7
            DEF Next, vars, CommitCheck, CommitLock, CommitTake, CommitHW, CommitAck, StopLeading,
                StoppedLeading, Copy, RemoveFromISR, AddToISR, CommitScan, Return
  <1>8. \A r \in DOMAIN commit'.seen : commit'.seen[r] <= Held(r)'
    <2>1. CASE commit'.seen = commit.seen
          BY <1>1, <1>3, <1>5, <2>1 DEF CommitState
    <2>2. CASE DOMAIN commit'.seen = {}
          BY <2>2, Zenon
    <2>3. ASSUME NEW q \in Replica, CommitScan(q)
          PROVE  \A r \in DOMAIN commit'.seen : commit'.seen[r] <= Held(r)'
      <3> DEFINE seen == [m \in DOMAIN commit.seen \cup {q} |->
                             IF m = q THEN isr[q].offset ELSE commit.seen[m]]
      <3>1. commit'.seen = seen
            BY <1>3, <2>3, Zenon DEF CommitScan, CommitState
      <3>2. DOMAIN commit.seen = T /\ q \in S
            BY <1>2, <1>3, <2>3, Zenon DEF CommitScan, CommitState
      <3> QED BY <1>1, <1>5, <3>1, <3>2
    <2>4. CASE CommitTake
          BY <2>2, <2>4, Taking, Zenon DEF CommitState
    <2>5. CASE CommitCheck \/ CommitLock \/ CommitHW \/ CommitAck
      <3>1. commit' = NotCommitting \/ commit'.seen = commit.seen
            BY <1>3, <2>5, Zenon DEF CommitCheck, CommitLock, CommitHW, CommitAck, CommitState
      <3> QED BY <2>1, <2>2, <3>1, NotCommittingType, Zenon
    <2> QED BY <2>1, <2>3, <2>4, <2>5, Zenon
            DEF Next, vars, AppendBatch, ProcessPendingMessage, StopLeading, StoppedLeading,
                ReceiveRequest, Copy, Lookup, Update, Notify, RemoveFromISR, AddToISR, Return
  <1> QED BY <1>6, <1>7, <1>8, Zenon DEF ReportInv

LEMMA InitCommit == Init => CommitInv
  <1> SUFFICES ASSUME Init PROVE CommitInv
      BY Zenon
  <1>1. commit.pc = "select" /\ DOMAIN commit.seen = {} /\ hw = -1 /\ acks = <<>>
        BY NotCommittingType, Zenon DEF Init
  <1> QED BY <1>1, EmptySeq DEF CommitInv, Backed, AckedCommitted

\* Steps that leave the commit loop, the high watermark and the members of the
\* ISR alone and acknowledge nothing.
LEMMA CommitUndisturbed ==
  ASSUME TypeInv, CommitInv, [Next]_vars, UNCHANGED <<commit, hw>>, AckedCommitted',
         commit.pc = "scan" => DOMAIN isr' = DOMAIN isr
  PROVE  CommitInv'
  <1>1. hw \in Offset /\ commit.least \in Offset
        BY Zenon DEF TypeInv, TypeOK
  <1>2. Backed(hw)'
        BY <1>1, BackedStays, Zenon DEF CommitInv, Backed
  <1>3. commit'.pc = "hw" => Backed(commit.least)'
        BY <1>1, BackedStays, Zenon DEF CommitInv, Backed
  <1> QED BY <1>2, <1>3, Zenon DEF CommitInv, UpTo

LEMMA NextCommit ==
  ASSUME TypeInv, ReportInv, CommitInv, [Next]_vars
  PROVE  CommitInv'
  <1>0. TypeInv'
        BY NextType, Zenon
  <1>1. PICK S \in SUBSET Replica : isr \in [S -> Record]
        BY Zenon DEF TypeInv, TypeOK
  <1>2. PICK T \in SUBSET Replica : commit \in CommitState(T)
        BY Zenon DEF TypeInv, TypeOK, CommitState
  <1>3. hw \in Offset /\ hw' \in Offset /\ acks \in Seq(Pending) /\ batch \in Seq(Pending)
        BY <1>0, Zenon DEF TypeInv, TypeOK
  <1>4. hw' = hw => Backed(hw)'
        BY <1>3, BackedStays, Zenon DEF CommitInv, Backed
  <1>5. acks' = acks /\ hw' = hw => AckedCommitted'
        BY Zenon DEF CommitInv, AckedCommitted
  <1>6. CASE ProcessPendingMessage
    <2>1. Head(batch) \in Pending
          BY <1>3, <1>6, HeadAndTail, Zenon DEF ProcessPendingMessage, TypeInv
    <2>2. AckedCommitted'
      <3>1. CASE acks' = acks
            BY <1>5, <1>6, <3>1, Zenon DEF ProcessPendingMessage
      <3>2. CASE acks' = Append(acks, Head(batch)) /\ Head(batch).policy = "LEADER"
        <4>1. /\ DOMAIN acks' = 1..(Len(acks) + 1) /\ Len(acks) \in Nat /\ DOMAIN acks = 1..Len(acks)
              /\ \A i \in 1..Len(acks) : acks'[i] = acks[i]
              /\ acks'[Len(acks) + 1].policy = "LEADER"
              BY <1>3, <2>1, <3>2
        <4> QED BY <1>6, <4>1 DEF ProcessPendingMessage, CommitInv, AckedCommitted
      <3> QED BY <1>6, <3>1, <3>2, Zenon DEF ProcessPendingMessage
    <2> QED BY <1>6, <2>2, CommitUndisturbed, Zenon DEF ProcessPendingMessage
  <1>7. ASSUME NEW f \in Follower, RemoveFromISR(f) \/ AddToISR(f)
        PROVE  CommitInv'
        BY <1>5, <1>7, CommitUndisturbed, Zenon DEF RemoveFromISR, AddToISR, ReadLocked
  <1>8. ASSUME NEW r \in Replica, Update(r)
        PROVE  CommitInv'
    <2>1. DOMAIN isr' = DOMAIN isr
          BY <1>1, <1>8, Zenon DEF Update
    <2> QED BY <1>5, <1>8, <2>1, CommitUndisturbed, Zenon DEF Update
  <1>9. CASE CommitCheck
    <2>1. commit'.pc = "lock" /\ commit'.seen = commit.seen
          BY <1>2, <1>9, Zenon DEF CommitCheck, CommitState
    <2> QED BY <1>4, <1>5, <1>9, <2>1, Zenon DEF CommitCheck, CommitInv
  <1>10. CASE CommitLock
    <2>1. \/ commit'.pc = "select" /\ DOMAIN commit'.seen = {}
          \/ /\ commit'.pc = "scan" /\ commit'.seen = commit.seen
             /\ ~(Cardinality(DOMAIN isr) < MinISR)
          BY <1>2, <1>10, NotCommittingType, Zenon DEF CommitLock, CommitState
    <2>2. Cardinality(DOMAIN isr) \in Nat
          BY <1>1, Replicas, FS_Subset, FS_CardinalityType, Zenon
    <2> QED BY <1>4, <1>5, <1>10, <2>1, <2>2, PartitionLeaderAssumption DEF CommitLock, CommitInv
  <1>11. ASSUME NEW r \in Replica, CommitScan(r)
         PROVE  CommitInv'
    <2>1. DOMAIN commit.seen \subseteq DOMAIN isr /\ Cardinality(DOMAIN isr) >= MinISR
          BY <1>11, Zenon DEF CommitScan, CommitInv
    <2>2. /\ DOMAIN commit'.seen = DOMAIN commit.seen \cup {r}
          /\ commit'.pc = IF DOMAIN commit'.seen = DOMAIN isr THEN "take" ELSE "scan"
          BY <1>2, <1>11, Zenon DEF CommitScan, CommitState
    <2>3. DOMAIN commit'.seen \subseteq DOMAIN isr /\ isr' = isr
          BY <1>11, <2>1, <2>2, Zenon DEF CommitScan
    <2> QED BY <1>4, <1>5, <1>11, <2>1, <2>2, <2>3 DEF CommitScan, CommitInv
  <1>12. CASE CommitTake
    <2>1. PICK slowest \in DOMAIN commit.seen, n \in 0..Len(queue) :
              /\ \A r \in DOMAIN commit.seen : commit.seen[slowest] <= commit.seen[r]
              /\ \A i \in 1..n : queue[i].offset <= commit.seen[slowest]
              /\ commit.seen[slowest] \in Offset
              /\ commit'.pc = "hw" /\ commit'.least = commit.seen[slowest]
              /\ Len(commit'.taken) = n /\ \A i \in 1..n : commit'.taken[i] = queue[i]
          BY <1>12, Taking, Zenon
    <2>2. UpTo(commit'.taken, commit'.least)
          BY <2>1, Zenon DEF UpTo
    <2>3. DOMAIN commit.seen = T /\ \A r \in T : commit.seen[r] \in Int
          BY <1>2 DEF CommitState, Offset
    <2>4. \A r \in T : Held(r)' >= commit.seen[slowest]
      <3> TAKE r \in T
      <3>1. Held(r) \in Int /\ Held(r)' \in Int /\ Held(r) <= Held(r)'
            BY HeldGrows DEF Offset
      <3>2. commit.seen[slowest] <= commit.seen[r] /\ commit.seen[r] <= Held(r)
            BY <2>1, <2>3, Zenon DEF ReportInv
      <3> QED BY <2>1, <2>3, <3>1, <3>2
    <2>5. Cardinality(T) >= MinISR
          BY <1>12, <2>3, Zenon DEF CommitTake, CommitInv
    <2>6. Backed(commit.least)'
          BY <2>1, <2>4, <2>5, Zenon DEF Backed
    <2> QED BY <1>4, <1>5, <1>12, <2>1, <2>2, <2>6, Zenon DEF CommitTake, CommitInv, UpTo
  <1>13. CASE CommitHW
    <2>1. /\ \/ commit'.pc = "select" /\ DOMAIN commit'.seen = {}
             \/ commit'.pc = "ack" /\ commit'.taken = commit.taken
          /\ hw' = IF commit.least > hw THEN commit.least ELSE hw
          BY <1>2, <1>13, NotCommittingType, Zenon DEF CommitHW, CommitState
    <2>2. commit.least \in Offset /\ commit.taken \in Seq(Pending)
          BY <1>2, Zenon DEF CommitState
    <2>3. Backed(hw)'
      <3>1. CASE hw' = hw
            BY <1>4, <3>1, Zenon
      <3>2. CASE hw' = commit.least
            BY <1>13, <2>2, <3>2, BackedStays, Zenon DEF CommitHW, CommitInv, Backed
      <3> QED BY <2>1, <3>1, <3>2, Zenon
    <2>4. hw <= hw' /\ commit.least <= hw'
          BY <1>3, <2>1, <2>2 DEF Offset
    <2>5. UpTo(commit.taken, hw')
      <3>1. UpTo(commit.taken, commit.least)
            BY <1>13, Zenon DEF CommitHW, CommitInv
      <3>2. \A i \in 1..Len(commit.taken) : commit.taken[i].offset \in Int
            BY <2>2, Entries, Zenon
      <3> QED BY <1>3, <2>2, <2>4, <3>1, <3>2 DEF UpTo, Offset
    <2>6. AckedCommitted'
      <3>1. \A i \in DOMAIN acks : acks[i].offset \in Int
            BY <1>3, Entries, Zenon
      <3> QED BY <1>3, <1>13, <2>4, <3>1 DEF CommitHW, CommitInv, AckedCommitted, Offset
    <2> QED BY <2>1, <2>3, <2>5, <2>6, Zenon DEF CommitInv, UpTo
  <1>14. CASE CommitAck
    <2>1. commit.taken \in Seq(Pending) /\ commit.taken # <<>> /\ UpTo(commit.taken, hw)
          BY <1>2, <1>14, Zenon DEF CommitAck, TypeInv, CommitState, CommitInv
    <2>2. /\ Head(commit.taken) \in Pending /\ Head(commit.taken) = commit.taken[1]
          /\ Len(commit.taken) \in Nat /\ Len(commit.taken) >= 1
          /\ Len(Tail(commit.taken)) = Len(commit.taken) - 1
          /\ \A i \in 1..Len(Tail(commit.taken)) : Tail(commit.taken)[i] = commit.taken[i + 1]
          BY <2>1, HeadAndTail, Zenon
    <2>3. Head(commit.taken).offset <= hw /\ UpTo(Tail(commit.taken), hw)
          BY <2>1, <2>2 DEF UpTo
    <2>4. /\ \/ commit'.pc = "select" /\ DOMAIN commit'.seen = {}
             \/ commit'.pc = "ack" /\ commit'.taken = Tail(commit.taken)
          /\ hw' = hw
          BY <1>2, <1>14, NotCommittingType, Zenon DEF CommitAck, CommitState
    <2>5. AckedCommitted'
      <3>1. CASE acks' = acks
            BY <1>5, <2>4, <3>1, Zenon
      <3>2. CASE acks' = Append(acks, Head(commit.taken))
        <4>1. /\ DOMAIN acks' = 1..(Len(acks) + 1) /\ Len(acks) \in Nat /\ DOMAIN acks = 1..Len(acks)
              /\ \A i \in 1..Len(acks) : acks'[i] = acks[i]
              /\ acks'[Len(acks) + 1] = Head(commit.taken)
              BY <1>3, <2>2, <3>2
        <4> QED BY <2>3, <2>4, <4>1 DEF CommitInv, AckedCommitted
      <3> QED BY <1>14, <3>1, <3>2, Zenon DEF CommitAck
    <2> QED BY <1>4, <2>3, <2>4, <2>5, Zenon DEF CommitInv, UpTo
  <1>15. CASE \/ AppendBatch \/ StopLeading \/ StoppedLeading \/ UNCHANGED vars
              \/ \E f \in Follower : ReceiveRequest(f) \/ Copy(f)
              \/ \E r \in Replica : Lookup(r) \/ Notify(r)
              \/ \E loop \in Replica \cup {"commit"} : Return(loop)
    <2>1. UNCHANGED <<commit, hw, acks, isr>>
          BY <1>15, Zenon DEF vars, AppendBatch, StopLeading, StoppedLeading, ReceiveRequest, Copy, Lookup,
             Notify, Return
    <2> QED BY <1>5, <2>1, CommitUndisturbed, Zenon
  <1> QED BY <1>6, <1>7, <1>8, <1>9, <1>10, <1>11, <1>12, <1>13, <1>14, <1>15, Zenon DEF Next

\* The high watermark is never above what MinISR replicas have in their logs,
\* although the commit loop uses what it read of the ISR after it has released
\* p.mu (commitLoop, RemoveFromISR, AddToISR, updateISRLatestOffset).
THEOREM CommitsAreBacked == Spec => []CommittedOnMinISR
  <1>1. TypeInv /\ CommitInv => CommittedOnMinISR
    <2> SUFFICES ASSUME TypeInv, CommitInv, hw >= 0
                 PROVE  Cardinality({r \in Replica : Held(r) >= hw}) >= MinISR
        BY Zenon DEF CommittedOnMinISR
    <2>1. PICK Q \in SUBSET Replica : Cardinality(Q) >= MinISR /\ \A r \in Q : Held(r) >= hw
          BY Zenon DEF CommitInv, Backed
    <2>2. PICK H \in SUBSET Replica : H = {r \in Replica : Held(r) >= hw}
          BY Zenon
    <2>3. Q \in SUBSET H /\ IsFiniteSet(H)
          BY <2>1, <2>2, Replicas, FS_Subset, Zenon
    <2>4. Cardinality(Q) <= Cardinality(H) /\ Cardinality(Q) \in Nat /\ Cardinality(H) \in Nat
          BY <2>3, FS_Subset, FS_CardinalityType, Zenon
    <2> QED BY <2>1, <2>2, <2>4, PartitionLeaderAssumption
  <1> QED BY <1>1, InitType, NextType, InitReport, NextReport, InitCommit, NextCommit, PTL DEF Spec

\* No ack of policy ALL is sent before the high watermark covers its message
\* (commitLoop sets the high watermark before it sends the acks).
THEOREM AcksAreCommitted == Spec => []AckedCommitted
  <1>1. CommitInv => AckedCommitted
        BY Zenon DEF CommitInv
  <1> QED BY <1>1, InitType, NextType, InitReport, NextReport, InitCommit, NextCommit, PTL DEF Spec

-----------------------------------------------------------------------------
(* Acks.  The messages taken from the commit queue, those in it and those   *)
(* still to be queued follow one another in the order of their offsets      *)
(* (OrderInv), the leader reports its own offset only after it has queued   *)
(* the messages up to it (WatermarkInv), and an entry that is still to be   *)
(* acknowledged is not among the acks (AckInv).                             *)


Above(s, o) == \A i \in 1..Len(s) : s[i].offset > o
Increasing(s) == \A i, j \in 1..Len(s) : i < j => s[i].offset < s[j].offset
Precedes(s, t) == \A i \in 1..Len(s), j \in 1..Len(t) : s[i].offset < t[j].offset

\* No entry of s that is still to be acknowledged has been, among the acks a.
Unacked(a, s) == \A k \in 1..Len(a), j \in 1..Len(s) :
                    s[j].policy = "ALL" => a[k].offset # s[j].offset
Untouched(a, s) == \A k \in 1..Len(a), j \in 1..Len(s) : a[k].offset # s[j].offset
Distinct(a) == \A i, j \in 1..Len(a) : a[i].offset = a[j].offset => i = j

\* The messages on their way from the log to the clients: taken from the commit
\* queue, in it, or in the batch being queued, in the order of their offsets.
OrderInv ==
    /\ update[Self].pc # "queue" => batch = <<>>
    /\ commit.pc \notin {"hw", "ack"} => commit.taken = <<>>
    /\ UpTo(batch, newest) /\ UpTo(queue, newest) /\ UpTo(commit.taken, newest)
    /\ Increasing(batch) /\ Increasing(queue) /\ Increasing(commit.taken)
    /\ Precedes(queue, batch) /\ Precedes(commit.taken, queue) /\ Precedes(commit.taken, batch)

\* The leader's own offset is reported after its messages are queued, and nothing
\* above it is committed.
WatermarkInv ==
    /\ Self \in DOMAIN isr
    /\ Above(batch, isr[Self].offset)
    /\ hw <= isr[Self].offset
    /\ Self \in DOMAIN commit.seen => commit.seen[Self] <= isr[Self].offset
    /\ commit.pc = "take" => Self \in DOMAIN commit.seen
    /\ commit.pc = "hw" => commit.least <= isr[Self].offset /\ Above(queue, commit.least)
    /\ Above(queue, hw)

AckInv ==
    /\ UpTo(acks, newest)
    /\ Distinct(acks)
    /\ Untouched(acks, batch) /\ Unacked(acks, queue) /\ Unacked(acks, commit.taken)

LEMMA Appending ==
  ASSUME NEW s \in Seq(Pending), NEW p \in Pending
  PROVE  /\ Append(s, p) \in Seq(Pending) /\ Len(s) \in Nat /\ Len(Append(s, p)) = Len(s) + 1
         /\ \A i \in 1..Len(s) : Append(s, p)[i] = s[i]
         /\ Append(s, p)[Len(s) + 1] = p
  BY AppendProperties, LenProperties

\* How the order of queues changes with an entry appended to one of them ...
LEMMA AppendOrder ==
  ASSUME NEW s \in Seq(Pending), NEW p \in Pending, NEW t \in Seq(Pending), NEW o \in Int
  PROVE  /\ UpTo(s, o) /\ p.offset <= o => UpTo(Append(s, p), o)
         /\ Above(s, o) /\ p.offset > o => Above(Append(s, p), o)
         /\ Increasing(s) /\ (\A i \in 1..Len(s) : s[i].offset < p.offset) => Increasing(Append(s, p))
         /\ Precedes(s, t) /\ (\A j \in 1..Len(t) : p.offset < t[j].offset) => Precedes(Append(s, p), t)
         /\ Precedes(t, s) /\ (\A j \in 1..Len(t) : t[j].offset < p.offset) => Precedes(t, Append(s, p))
  <1> PICK a : a = Append(s, p)
      BY Zenon
  <1>1. /\ Len(s) \in Nat /\ Len(a) = Len(s) + 1
        /\ \A i \in 1..Len(s) : a[i] = s[i]
        /\ a[Len(s) + 1] = p
        BY Appending, Zenon
  <1>2. \A i \in 1..Len(a) : i \in 1..Len(s) \/ i = Len(s) + 1
        BY <1>1
  <1>3. UpTo(s, o) /\ p.offset <= o => UpTo(a, o)
        BY <1>1, <1>2, Zenon DEF UpTo
  <1>4. Above(s, o) /\ p.offset > o => Above(a, o)
        BY <1>1, <1>2, Zenon DEF Above
  <1>5. Increasing(s) /\ (\A i \in 1..Len(s) : s[i].offset < p.offset) => Increasing(a)
    <2> SUFFICES ASSUME Increasing(s), \A i \in 1..Len(s) : s[i].offset < p.offset,
                        NEW i \in 1..Len(a), NEW j \in 1..Len(a), i < j
                 PROVE  a[i].offset < a[j].offset
        BY Zenon DEF Increasing
    <2>1. i \in 1..Len(s)
          BY <1>1
    <2>2. CASE j \in 1..Len(s)
          BY <1>1, <2>1, <2>2, Zenon DEF Increasing
    <2>3. CASE j = Len(s) + 1
          BY <1>1, <2>1, <2>3, Zenon
    <2> QED BY <1>2, <2>2, <2>3, Zenon
  <1>6. Precedes(s, t) /\ (\A j \in 1..Len(t) : p.offset < t[j].offset) => Precedes(a, t)
        BY <1>1, <1>2, Zenon DEF Precedes
  <1>7. Precedes(t, s) /\ (\A j \in 1..Len(t) : t[j].offset < p.offset) => Precedes(t, a)
        BY <1>1, <1>2, Zenon DEF Precedes
  <1> QED BY <1>3, <1>4, <1>5, <1>6, <1>7, Zenon

\* ... with the entries b that follow one another in s, from position d + 1 on ...
LEMMA PartOrder ==
  ASSUME NEW s \in Seq(Pending), NEW b \in Seq(Pending), NEW d \in Nat,
         Len(b) + d <= Len(s), \A i \in 1..Len(b) : b[i] = s[i + d],
         NEW t \in Seq(Pending), NEW o \in Int
  PROVE  /\ UpTo(s, o) => UpTo(b, o)
         /\ Above(s, o) => Above(b, o)
         /\ Increasing(s) => Increasing(b)
         /\ Precedes(s, t) => Precedes(b, t)
         /\ Precedes(t, s) => Precedes(t, b)
         /\ Unacked(t, s) => Unacked(t, b)
         /\ Untouched(t, s) => Untouched(t, b)
  <1>1. Len(s) \in Nat /\ Len(b) \in Nat
        OBVIOUS
  <1>2. \A i \in 1..Len(b) : i + d \in 1..Len(s) /\ b[i] = s[i + d]
        BY <1>1
  <1>3. UpTo(s, o) => UpTo(b, o)
        BY <1>2, Zenon DEF UpTo
  <1>4. Above(s, o) => Above(b, o)
        BY <1>2, Zenon DEF Above
  <1>5. Increasing(s) => Increasing(b)
    <2> SUFFICES ASSUME Increasing(s), NEW i \in 1..Len(b), NEW j \in 1..Len(b), i < j
                 PROVE  b[i].offset < b[j].offset
        BY Zenon DEF Increasing
    <2>1. i + d \in 1..Len(s) /\ j + d \in 1..Len(s) /\ i + d < j + d
          BY <1>1, <1>2
    <2>2. s[i + d].offset < s[j + d].offset
          BY <2>1, Zenon DEF Increasing
    <2> QED BY <1>2, <2>2, Zenon
  <1>6. (Precedes(s, t) => Precedes(b, t)) /\ (Precedes(t, s) => Precedes(t, b))
        BY <1>2, Zenon DEF Precedes
  <1>7. (Unacked(t, s) => Unacked(t, b)) /\ (Untouched(t, s) => Untouched(t, b))
        BY <1>2 DEF Unacked, Untouched
  <1> QED BY <1>3, <1>4, <1>5, <1>6, <1>7, Zenon

\* ... with its head dropped, in particular, ...
LEMMA TailOrder ==
  ASSUME NEW s \in Seq(Pending), s # <<>>, NEW t \in Seq(Pending), NEW o \in Int
  PROVE  /\ UpTo(s, o) => UpTo(Tail(s), o) /\ Head(s).offset <= o
         /\ Above(s, o) => Above(Tail(s), o) /\ Head(s).offset > o
         /\ Increasing(s) => /\ Increasing(Tail(s))
                             /\ \A i \in 1..Len(Tail(s)) : Head(s).offset < Tail(s)[i].offset
         /\ Precedes(s, t) => Precedes(Tail(s), t) /\ \A j \in 1..Len(t) : Head(s).offset < t[j].offset
         /\ Precedes(t, s) => Precedes(t, Tail(s)) /\ \A j \in 1..Len(t) : t[j].offset < Head(s).offset
         /\ Unacked(t, s) => Unacked(t, Tail(s))
         /\ Untouched(t, s) => Untouched(t, Tail(s))
  <1> PICK b, h : b = Tail(s) /\ h = Head(s)
      BY Zenon
  <1>1. /\ h \in Pending /\ h = s[1] /\ b \in Seq(Pending)
        /\ Len(s) \in Nat /\ Len(s) >= 1 /\ Len(b) = Len(s) - 1
        /\ \A i \in 1..Len(b) : b[i] = s[i + 1]
        BY HeadAndTail, Zenon
  <1>2. /\ UpTo(s, o) => UpTo(b, o)
        /\ Above(s, o) => Above(b, o)
        /\ Increasing(s) => Increasing(b)
        /\ Precedes(s, t) => Precedes(b, t)
        /\ Precedes(t, s) => Precedes(t, b)
        /\ Unacked(t, s) => Unacked(t, b)
        /\ Untouched(t, s) => Untouched(t, b)
    <2>1. 1 \in Nat /\ Len(b) + 1 <= Len(s)
          BY <1>1
    <2> QED BY <1>1, <2>1, PartOrder, Zenon
  <1>3. (UpTo(s, o) => h.offset <= o) /\ (Above(s, o) => h.offset > o)
        BY <1>1 DEF UpTo, Above
  <1>4. Increasing(s) => \A i \in 1..Len(b) : h.offset < b[i].offset
        BY <1>1 DEF Increasing
  <1>5. /\ Precedes(s, t) => \A j \in 1..Len(t) : h.offset < t[j].offset
        /\ Precedes(t, s) => \A j \in 1..Len(t) : t[j].offset < h.offset
    <2>1. 1 \in 1..Len(s) /\ s[1] = h
          BY <1>1
    <2> QED BY <2>1, Zenon DEF Precedes
  <1> QED BY <1>2, <1>3, <1>4, <1>5, Zenon

\* ... and with no entries at all.
LEMMA EmptyOrder ==
  ASSUME NEW t, NEW o
  PROVE  /\ UpTo(<<>>, o) /\ Above(<<>>, o) /\ Increasing(<<>>) /\ Distinct(<<>>)
         /\ Precedes(<<>>, t) /\ Precedes(t, <<>>)
         /\ Unacked(t, <<>>) /\ Untouched(t, <<>>) /\ Unacked(<<>>, t) /\ Untouched(<<>>, t)
  <1>1. Len(<<>>) = 0 /\ 1..0 = {}
        BY EmptySeq
  <1> QED BY <1>1, Zenon DEF UpTo, Above, Increasing, Distinct, Precedes, Unacked, Untouched

\* The invariant that the three parts make together.
QueueInv == OrderInv /\ WatermarkInv /\ AckInv

LEMMA InitQueue == Init => QueueInv
  <1> SUFFICES ASSUME Init PROVE QueueInv
      BY Zenon
  <1>1. /\ batch = <<>> /\ queue = <<>> /\ acks = <<>> /\ commit.taken = <<>>
        /\ commit.pc = "select" /\ DOMAIN commit.seen = {}
        BY NotCommittingType, Zenon DEF Init
  <1>2. Self \in DOMAIN isr /\ isr[Self].offset = -1 /\ hw = -1
        BY Replicas, Zenon DEF Init
  <1> QED BY <1>1, <1>2, EmptyOrder DEF QueueInv, OrderInv, WatermarkInv, AckInv

\* What to show of the state after a step.
LEMMA OrderNext ==
  ASSUME update'[Self].pc # "queue" => batch' = <<>>,
         commit'.pc \notin {"hw", "ack"} => commit'.taken = <<>>,
         UpTo(batch', newest'), UpTo(queue', newest'), UpTo(commit'.taken, newest'),
         Increasing(batch'), Increasing(queue'), Increasing(commit'.taken),
         Precedes(queue', batch'), Precedes(commit'.taken, queue'), Precedes(commit'.taken, batch')
  PROVE  OrderInv'
  BY Zenon DEF OrderInv, UpTo, Increasing, Precedes

LEMMA WatermarkNext ==
  ASSUME Self \in DOMAIN isr', Above(batch', isr'[Self].offset), hw' <= isr'[Self].offset,
         Self \in DOMAIN commit'.seen => commit'.seen[Self] <= isr'[Self].offset,
         commit'.pc = "take" => Self \in DOMAIN commit'.seen,
         commit'.pc = "hw" => commit'.least <= isr'[Self].offset /\ Above(queue', commit'.least),
         Above(queue', hw')
  PROVE  WatermarkInv'
  BY Zenon DEF WatermarkInv, Above

LEMMA AckNext ==
  ASSUME UpTo(acks', newest'), Distinct(acks'), Untouched(acks', batch'),
         Unacked(acks', queue'), Unacked(acks', commit'.taken)
  PROVE  AckInv'
  BY Zenon DEF AckInv, UpTo, Distinct, Untouched, Unacked

\* Steps that leave the messages on their way alone.
LEMMA QueueUndisturbed ==
  ASSUME TypeInv, QueueInv,
         UNCHANGED <<newest, hw, queue, acks, batch, commit>>,
         update[Self].pc = "queue" => update'[Self].pc = "queue",
         Self \in DOMAIN isr', isr'[Self].offset = isr[Self].offset
  PROVE  QueueInv'
  <1>1. OrderInv'
        BY OrderNext, Zenon DEF QueueInv, OrderInv
  <1>2. WatermarkInv'
        BY WatermarkNext, Zenon DEF QueueInv, WatermarkInv
  <1>3. AckInv'
        BY AckNext, Zenon DEF QueueInv, AckInv
  <1> QED BY <1>1, <1>2, <1>3, Zenon DEF QueueInv

LEMMA AppendBatchQueue ==
  ASSUME TypeInv, ReportInv, QueueInv, AppendBatch
  PROVE  QueueInv'
  <1>1. PICK size \in 1..MaxBatch : \E policy \in [1..size -> {"ALL", "LEADER"}] :
            /\ newest' = newest + size
            /\ batch' = [i \in 1..size |-> [offset |-> newest + i, policy |-> policy[i]]]
        BY Zenon DEF AppendBatch
  <1>2. newest \in Int /\ size \in Nat /\ newest <= newest' /\ newest' \in Int
        BY <1>1, PartitionLeaderAssumption DEF TypeInv, TypeOK, Offset
  <1>3. Len(batch') = size /\ \A i \in 1..size : batch'[i].offset = newest + i
        BY <1>1, <1>2
  <1>4. /\ UNCHANGED <<hw, isr, queue, acks, commit>> /\ update'[Self].pc = "queue"
        BY Replicas DEF AppendBatch, TypeInv, TypeOK
  <1>5. /\ queue \in Seq(Pending) /\ commit.taken \in Seq(Pending) /\ acks \in Seq(Pending)
        BY Zenon DEF TypeInv, TypeOK
  <1>6. UpTo(queue, newest') /\ UpTo(commit.taken, newest') /\ UpTo(acks, newest')
    <2>1. UpTo(queue, newest) /\ UpTo(commit.taken, newest) /\ UpTo(acks, newest)
          BY Zenon DEF QueueInv, OrderInv, AckInv
    <2>2. ASSUME NEW s \in Seq(Pending), UpTo(s, newest)
          PROVE  UpTo(s, newest')
          BY <1>2, <2>2, Entries DEF UpTo
    <2> QED BY <1>5, <2>1, <2>2, Zenon
  <1>7. UpTo(batch', newest') /\ Increasing(batch')
        BY <1>1, <1>2, <1>3 DEF UpTo, Increasing
  <1>8. ASSUME NEW s \in Seq(Pending), UpTo(s, newest)
        PROVE  Precedes(s, batch') /\ Untouched(s, batch')
    <2>1. \A i \in 1..Len(s) : s[i].offset \in Int /\ s[i].offset <= newest
          BY <1>8, Entries, Zenon DEF UpTo
    <2>2. \A j \in 1..Len(batch') : batch'[j].offset \in Int /\ batch'[j].offset > newest
          BY <1>2, <1>3
    <2>3. \A i \in 1..Len(s), j \in 1..Len(batch') : s[i].offset < batch'[j].offset
          BY <1>2, <2>1, <2>2
    <2> QED BY <2>1, <2>2, <2>3 DEF Precedes, Untouched
  <1>9. Precedes(queue, batch') /\ Precedes(commit.taken, batch') /\ Untouched(acks, batch')
        BY <1>5, <1>8, Zenon DEF QueueInv, OrderInv, AckInv
  <1>10. Above(batch', isr[Self].offset)
    <2>1. isr[Self].offset \in Int /\ isr[Self].offset <= newest
          BY DEF QueueInv, WatermarkInv, ReportInv, Held, TypeInv, TypeOK, Record, Offset
    <2> QED BY <1>2, <1>3, <2>1 DEF Above
  <1>11. OrderInv'
         BY <1>4, <1>6, <1>7, <1>9, OrderNext, Zenon DEF QueueInv, OrderInv
  <1>12. WatermarkInv'
         BY <1>4, <1>10, WatermarkNext, Zenon DEF QueueInv, WatermarkInv
  <1>13. AckInv'
         BY <1>4, <1>6, <1>9, AckNext, Zenon DEF QueueInv, AckInv
  <1> QED BY <1>11, <1>12, <1>13, Zenon DEF QueueInv

\* What an ack of an entry that is not among the acks yet does to them.
LEMMA Acknowledging ==
  ASSUME NEW a \in Seq(Pending), NEW p \in Pending, NEW o \in Int,
         UpTo(a, o), p.offset <= o, Distinct(a), \A k \in 1..Len(a) : a[k].offset # p.offset
  PROVE  /\ UpTo(Append(a, p), o) /\ Distinct(Append(a, p))
         /\ \A s : Untouched(a, s) /\ (\A j \in 1..Len(s) : s[j].offset # p.offset)
                  => Untouched(Append(a, p), s)
         /\ \A s : Unacked(a, s) /\ (\A j \in 1..Len(s) : s[j].policy = "ALL" => s[j].offset # p.offset)
                  => Unacked(Append(a, p), s)
  <1> PICK b : b = Append(a, p)
      BY Zenon
  <1>1. /\ Len(a) \in Nat /\ Len(b) = Len(a) + 1
        /\ \A i \in 1..Len(a) : b[i] = a[i]
        /\ b[Len(a) + 1] = p
        BY Appending, Zenon
  <1>2. \A i \in 1..Len(b) : i \in 1..Len(a) \/ i = Len(a) + 1
        BY <1>1
  <1>3. UpTo(b, o)
        BY <1>1, <1>2, Zenon DEF UpTo
  <1>4. Distinct(b)
        BY <1>1, <1>2 DEF Distinct
  <1>5. ASSUME NEW s, Untouched(a, s), \A j \in 1..Len(s) : s[j].offset # p.offset
        PROVE  Untouched(b, s)
        BY <1>1, <1>2, <1>5 DEF Untouched
  <1>6. ASSUME NEW s, Unacked(a, s), \A j \in 1..Len(s) : s[j].policy = "ALL" => s[j].offset # p.offset
        PROVE  Unacked(b, s)
        BY <1>1, <1>2, <1>6 DEF Unacked
  <1> QED BY <1>3, <1>4, <1>5, <1>6, Zenon

\* Entries before and after an offset are not at it.
LEMMA Apart ==
  ASSUME NEW s \in Seq(Pending), NEW o \in Int
  PROVE  /\ (\A j \in 1..Len(s) : s[j].offset < o) => \A j \in 1..Len(s) : s[j].offset # o
         /\ (\A j \in 1..Len(s) : o < s[j].offset) => \A j \in 1..Len(s) : s[j].offset # o
  <1>1. \A j \in 1..Len(s) : s[j].offset \in Int
        BY Entries, Zenon
  <1> QED BY <1>1

LEMMA UnackedAppend ==
  ASSUME NEW a, NEW s \in Seq(Pending), NEW p \in Pending,
         Unacked(a, s), p.policy = "ALL" => \A k \in 1..Len(a) : a[k].offset # p.offset
  PROVE  Unacked(a, Append(s, p))
  <1> PICK b : b = Append(s, p)
      BY Zenon
  <1>1. /\ Len(s) \in Nat /\ Len(b) = Len(s) + 1
        /\ \A i \in 1..Len(s) : b[i] = s[i]
        /\ b[Len(s) + 1] = p
        BY Appending, Zenon
  <1>2. \A i \in 1..Len(b) : i \in 1..Len(s) \/ i = Len(s) + 1
        BY <1>1
  <1> QED BY <1>1, <1>2, Zenon DEF Unacked

LEMMA QueueTypes ==
  ASSUME TypeInv, QueueInv
  PROVE  /\ queue \in Seq(Pending) /\ batch \in Seq(Pending)
         /\ commit.taken \in Seq(Pending) /\ acks \in Seq(Pending)
         /\ newest \in Int /\ hw \in Int /\ isr[Self].offset \in Int /\ commit.least \in Int
         /\ \A r \in DOMAIN commit.seen : commit.seen[r] \in Int
  <1>1. /\ queue \in Seq(Pending) /\ batch \in Seq(Pending) /\ acks \in Seq(Pending)
        /\ newest \in Int /\ hw \in Int
        BY DEF TypeInv, TypeOK, Offset
  <1>2. isr[Self].offset \in Int
        BY DEF QueueInv, WatermarkInv, TypeInv, TypeOK, Record, Offset
  <1>3. PICK S \in SUBSET Replica : commit \in CommitState(S)
        BY Zenon DEF TypeInv, TypeOK, CommitState
  <1>4. /\ commit.taken \in Seq(Pending) /\ commit.least \in Int
        /\ \A r \in DOMAIN commit.seen : commit.seen[r] \in Int
        BY <1>3 DEF CommitState, Offset
  <1> QED BY <1>1, <1>2, <1>4, Zenon

LEMMA ProcessPendingMessageQueue ==
  ASSUME TypeInv, QueueInv, ProcessPendingMessage
  PROVE  QueueInv'
  <1>1. PICK p, b : p = Head(batch) /\ b = Tail(batch)
        BY Zenon
  <1>2. batch # <<>>
        BY Zenon DEF ProcessPendingMessage, TypeInv
  <1>3. p \in Pending /\ p.offset \in Int /\ b \in Seq(Pending)
    <2>1. \A q \in Pending : q.offset \in Int
          BY DEF Pending
    <2> QED BY <1>1, <1>2, <2>1, QueueTypes, HeadAndTail, Zenon
  <1>4. /\ newest' = newest /\ hw' = hw /\ isr' = isr /\ commit' = commit
        /\ queue' = Append(queue, p) /\ batch' = b
        /\ acks' = IF p.policy = "LEADER" THEN Append(acks, p) ELSE acks
        /\ update'[Self].pc # "queue" => b = <<>>
        BY <1>1, Zenon DEF ProcessPendingMessage
  <1>5. /\ UpTo(b, newest) /\ p.offset <= newest
        /\ Increasing(b) /\ \A i \in 1..Len(b) : p.offset < b[i].offset
        BY <1>1, <1>2, QueueTypes, TailOrder, Zenon DEF QueueInv, OrderInv
  <1>6. /\ Precedes(queue, b) /\ \A i \in 1..Len(queue) : queue[i].offset < p.offset
        /\ Precedes(commit.taken, b)
        /\ \A i \in 1..Len(commit.taken) : commit.taken[i].offset < p.offset
        BY <1>1, <1>2, QueueTypes, TailOrder, Zenon DEF QueueInv, OrderInv
  <1>7. Above(b, isr[Self].offset) /\ p.offset > isr[Self].offset
        BY <1>1, <1>2, QueueTypes, TailOrder, Zenon DEF QueueInv, WatermarkInv
  <1>8. Untouched(acks, b) /\ \A k \in 1..Len(acks) : acks[k].offset # p.offset
    <2>1. Untouched(acks, batch)
          BY Zenon DEF QueueInv, AckInv
    <2>2. Untouched(acks, b)
          BY <1>1, <1>2, <2>1, QueueTypes, TailOrder, Zenon
    <2>3. 1 \in 1..Len(batch) /\ p = batch[1]
          BY <1>1, <1>2, QueueTypes, HeadAndTail
    <2> QED BY <2>1, <2>2, <2>3, Zenon DEF Untouched
  <1>9. OrderInv'
    <2>1. UpTo(queue', newest) /\ Increasing(queue') /\ Precedes(queue', b)
          BY <1>3, <1>4, <1>5, <1>6, QueueTypes, AppendOrder, Zenon DEF QueueInv, OrderInv
    <2>2. Precedes(commit.taken, queue')
          BY <1>3, <1>4, <1>6, QueueTypes, AppendOrder, Zenon DEF QueueInv, OrderInv
    <2>3. UpTo(b, newest) /\ Increasing(b) /\ Precedes(commit.taken, b)
          BY <1>5, <1>6, Zenon
    <2>4. /\ commit.pc \notin {"hw", "ack"} => commit.taken = <<>>
          /\ UpTo(commit.taken, newest) /\ Increasing(commit.taken)
          BY Zenon DEF QueueInv, OrderInv
    <2> QED BY <1>4, <2>1, <2>2, <2>3, <2>4, OrderNext, Zenon
  <1>10. WatermarkInv'
    <2>1. p.offset > hw /\ (commit.pc = "hw" => p.offset > commit.least)
          BY <1>3, <1>7, QueueTypes DEF QueueInv, WatermarkInv
    <2>2. Above(queue', hw)
          BY <1>3, <1>4, <2>1, QueueTypes, AppendOrder, Zenon DEF QueueInv, WatermarkInv
    <2>3. commit.pc = "hw" => Above(queue', commit.least)
          BY <1>3, <1>4, <2>1, QueueTypes, AppendOrder, Zenon DEF QueueInv, WatermarkInv
    <2> QED BY <1>4, <1>7, <2>2, <2>3, WatermarkNext, Zenon DEF QueueInv, WatermarkInv
  <1>11. AckInv'
    <2>1. CASE p.policy # "LEADER"
      <3>1. Unacked(acks, queue')
            BY <1>3, <1>4, <1>8, QueueTypes, UnackedAppend, Zenon DEF QueueInv, AckInv
      <3> QED BY <1>4, <1>8, <2>1, <3>1, AckNext, Zenon DEF QueueInv, AckInv
    <2>2. CASE p.policy = "LEADER"
      <3>1. /\ UpTo(acks, newest) /\ Distinct(acks)
            /\ Unacked(acks, queue) /\ Unacked(acks, commit.taken)
            BY Zenon DEF QueueInv, AckInv
      <3>2. acks' = Append(acks, p)
            BY <1>4, <2>2, Zenon
      <3>3. /\ UpTo(acks', newest) /\ Distinct(acks')
            /\ \A s : Untouched(acks, s) /\ (\A j \in 1..Len(s) : s[j].offset # p.offset)
                     => Untouched(acks', s)
            /\ \A s : Unacked(acks, s) /\ (\A j \in 1..Len(s) : s[j].policy = "ALL" => s[j].offset # p.offset)
                     => Unacked(acks', s)
            BY <1>3, <1>5, <1>8, <3>1, <3>2, QueueTypes, Acknowledging
      <3>4. /\ \A j \in 1..Len(b) : b[j].offset # p.offset
            /\ \A j \in 1..Len(queue) : queue[j].offset # p.offset
            /\ \A j \in 1..Len(commit.taken) : commit.taken[j].offset # p.offset
        <4>1. \A j \in 1..Len(b) : b[j].offset # p.offset
              BY <1>3, <1>5, Apart, Zenon
        <4>2. \A j \in 1..Len(queue) : queue[j].offset # p.offset
              BY <1>3, <1>6, QueueTypes, Apart, Zenon
        <4>3. \A j \in 1..Len(commit.taken) : commit.taken[j].offset # p.offset
              BY <1>3, <1>6, QueueTypes, Apart, Zenon
        <4> QED BY <4>1, <4>2, <4>3, Zenon
      <3>5. Untouched(acks', b) /\ Unacked(acks', queue) /\ Unacked(acks', commit.taken)
            BY <1>8, <3>1, <3>3, <3>4, Zenon
      <3>6. Unacked(acks', queue')
            BY <1>3, <1>4, <2>2, <3>5, QueueTypes, UnackedAppend
      <3> QED BY <1>4, <3>3, <3>5, <3>6, AckNext, Zenon
    <2> QED BY <2>1, <2>2, Zenon
  <1> QED BY <1>9, <1>10, <1>11, Zenon DEF QueueInv

\* The leader reports its own offset when its batch is queued.
LEMMA UpdateQueue ==
  ASSUME TypeInv, QueueInv, NEW r \in Replica, Update(r)
  PROVE  QueueInv'
  <1>1. /\ newest' = newest /\ hw' = hw /\ queue' = queue /\ acks' = acks /\ batch' = batch
        /\ commit' = commit
        BY Zenon DEF Update
  <1>2. update[Self].pc = "queue" => update'[Self].pc = "queue"
    <2>1. update \in [Replica -> UpdateState]
          BY Zenon DEF TypeInv, TypeOK, UpdateState
    <2> QED BY <2>1, Replicas, Zenon DEF Update, UpdateState
  <1>3. Self \in DOMAIN isr' /\ isr[Self].offset <= isr'[Self].offset
        /\ (isr'[Self].offset # isr[Self].offset => update[Self].pc = "update")
    <2>1. PICK S \in SUBSET Replica : isr \in [S -> Record]
          BY Zenon DEF TypeInv, TypeOK
    <2>2. Self \in S
          BY <2>1, Zenon DEF QueueInv, WatermarkInv
    <2>3. \/ isr' = isr
          \/ update[r].offset > isr[r].offset /\ isr' = [isr EXCEPT ![r].offset = update[r].offset]
          BY Zenon DEF Update
    <2>4. update[r].offset \in Int /\ isr[Self].offset \in Int
          BY QueueTypes DEF TypeInv, TypeOK, Offset
    <2> QED BY <2>1, <2>2, <2>3, <2>4 DEF Update, Record
  <1>4. CASE isr'[Self].offset = isr[Self].offset
        BY <1>1, <1>2, <1>3, <1>4, QueueUndisturbed, Zenon
  <1>5. CASE isr'[Self].offset # isr[Self].offset
    <2>1. batch = <<>>
          BY <1>3, <1>5, Zenon DEF QueueInv, OrderInv
    <2>2. OrderInv'
          BY <1>1, <2>1, OrderNext, Zenon DEF QueueInv, OrderInv
    <2>3. isr'[Self].offset \in Int
      <3>1. TypeInv'
            BY UpdateType, Zenon
      <3>2. PICK S \in SUBSET Replica : isr' \in [S -> Record]
            BY <3>1, Zenon DEF TypeInv, TypeOK
      <3> QED BY <1>3, <3>2 DEF Record, Offset
    <2>4. /\ hw <= isr'[Self].offset
          /\ Self \in DOMAIN commit.seen => commit.seen[Self] <= isr'[Self].offset
          /\ commit.pc = "hw" => commit.least <= isr'[Self].offset
          BY <1>3, <2>3, QueueTypes DEF QueueInv, WatermarkInv
    <2>5. Above(batch, isr'[Self].offset)
          BY <2>1, EmptyOrder, Zenon
    <2>6. WatermarkInv'
          BY <1>1, <1>3, <2>4, <2>5, WatermarkNext, Zenon DEF QueueInv, WatermarkInv
    <2>7. AckInv'
          BY <1>1, AckNext, Zenon DEF QueueInv, AckInv
    <2> QED BY <2>2, <2>6, <2>7, Zenon DEF QueueInv
  <1> QED BY <1>4, <1>5, Zenon

\* Steps of the commit loop that neither take nor acknowledge entries.
LEMMA CommitQueue ==
  ASSUME TypeInv, QueueInv, UNCHANGED <<newest, isr, queue, acks, batch, update>>,
         commit'.taken = commit.taken,
         commit'.pc \notin {"hw", "ack"} => commit.taken = <<>>, commit'.pc # "hw",
         hw' <= isr[Self].offset, Above(queue, hw'),
         Self \in DOMAIN commit'.seen => commit'.seen[Self] <= isr[Self].offset,
         commit'.pc = "take" => Self \in DOMAIN commit'.seen
  PROVE  QueueInv'
  <1>1. OrderInv'
        BY OrderNext, Zenon DEF QueueInv, OrderInv
  <1>2. WatermarkInv'
        BY WatermarkNext, Zenon DEF QueueInv, WatermarkInv
  <1>3. AckInv'
        BY AckNext, Zenon DEF QueueInv, AckInv
  <1> QED BY <1>1, <1>2, <1>3, Zenon DEF QueueInv

LEMMA CommitCheckQueue ==
  ASSUME TypeInv, CommitInv, QueueInv,
         CommitCheck \/ CommitLock \/ \E r \in Replica : CommitScan(r)
  PROVE  QueueInv'
  <1>1. PICK S \in SUBSET Replica : commit \in CommitState(S)
        BY Zenon DEF TypeInv, TypeOK, CommitState
  <1>2. commit.pc \in {"select", "lock", "scan"}
        BY Zenon DEF CommitCheck, CommitLock, CommitScan
  <1>3. commit.taken = <<>>
        BY <1>2, Zenon DEF QueueInv, OrderInv
  <1>4. /\ newest' = newest /\ hw' = hw /\ isr' = isr /\ queue' = queue /\ acks' = acks
        /\ batch' = batch /\ update' = update
        BY Zenon DEF CommitCheck, CommitLock, CommitScan
  <1>5. commit'.taken = <<>> /\ commit'.pc \notin {"hw", "ack"}
    <2>1. CASE CommitCheck \/ CommitLock
          BY <1>1, <1>3, <2>1, NotCommittingType, Zenon DEF CommitCheck, CommitLock, CommitState
    <2>2. ASSUME NEW r \in Replica, CommitScan(r)
          PROVE  commit'.taken = <<>> /\ commit'.pc \notin {"hw", "ack"}
          BY <1>1, <1>3, <2>2, Zenon DEF CommitScan, CommitState
    <2> QED BY <2>1, <2>2, Zenon
  <1>6. /\ Self \in DOMAIN commit'.seen => commit'.seen[Self] <= isr[Self].offset
        /\ commit'.pc = "take" => Self \in DOMAIN commit'.seen
    <2>1. CASE CommitCheck \/ CommitLock
      <3>1. commit'.pc # "take" /\ (DOMAIN commit'.seen = {} \/ commit'.seen = commit.seen)
            BY <1>1, <2>1, NotCommittingType, Zenon DEF CommitCheck, CommitLock, CommitState
      <3> QED BY <3>1, Zenon DEF QueueInv, WatermarkInv
    <2>2. ASSUME NEW r \in Replica, CommitScan(r)
          PROVE  /\ Self \in DOMAIN commit'.seen => commit'.seen[Self] <= isr[Self].offset
                 /\ commit'.pc = "take" => Self \in DOMAIN commit'.seen
      <3>1. /\ commit'.pc = IF DOMAIN commit'.seen = DOMAIN isr THEN "take" ELSE "scan"
            /\ commit'.seen = [m \in DOMAIN commit.seen \cup {r} |->
                                 IF m = r THEN isr[r].offset ELSE commit.seen[m]]
            BY <1>1, <2>2, Zenon DEF CommitScan, CommitState
      <3>2. isr[Self].offset <= isr[Self].offset
            BY QueueTypes
      <3>3. Self \in DOMAIN isr /\ (Self \in DOMAIN commit.seen => commit.seen[Self] <= isr[Self].offset)
            BY Zenon DEF QueueInv, WatermarkInv
      <3>4. Self \in DOMAIN commit'.seen => commit'.seen[Self] <= isr[Self].offset
            BY <3>1, <3>2, <3>3, Zenon
      <3>5. commit'.pc = "take" => Self \in DOMAIN commit'.seen
            BY <3>1, <3>3, Zenon
      <3> QED BY <3>4, <3>5, Zenon
    <2> QED BY <2>1, <2>2, Zenon
  <1>7. hw' <= isr[Self].offset /\ Above(queue, hw')
        BY <1>4, Zenon DEF QueueInv, WatermarkInv
  <1>8. /\ UNCHANGED <<newest, isr, queue, acks, batch, update>>
        /\ commit'.taken = commit.taken /\ commit'.pc # "hw"
        BY <1>3, <1>4, <1>5, Zenon
  <1> QED BY <1>3, <1>6, <1>7, <1>8, CommitQueue, Zenon

LEMMA CommitHWQueue ==
  ASSUME TypeInv, QueueInv, CommitHW
  PROVE  QueueInv'
  <1>1. PICK S \in SUBSET Replica : commit \in CommitState(S)
        BY Zenon DEF TypeInv, TypeOK, CommitState
  <1>2. /\ newest' = newest /\ isr' = isr /\ queue' = queue /\ acks' = acks
        /\ batch' = batch /\ update' = update /\ commit.pc = "hw"
        /\ hw' = hw \/ hw' = commit.least
        BY Zenon DEF CommitHW
  <1>3. /\ commit'.taken = commit.taken /\ commit'.pc \in {"select", "ack"}
        /\ commit'.pc = "select" => commit.taken = <<>>
        /\ DOMAIN commit'.seen = {} \/ commit'.seen = commit.seen
        BY <1>1, NotCommittingType, Zenon DEF CommitHW, CommitState
  <1>4. hw' <= isr[Self].offset /\ Above(queue, hw')
        BY <1>2, Zenon DEF QueueInv, WatermarkInv
  <1>5. Self \in DOMAIN commit'.seen => commit'.seen[Self] <= isr[Self].offset
        BY <1>3, Zenon DEF QueueInv, WatermarkInv
  <1>6. /\ UNCHANGED <<newest, isr, queue, acks, batch, update>>
        /\ commit'.pc # "hw" /\ commit'.pc # "take"
        /\ commit'.pc \notin {"hw", "ack"} => commit.taken = <<>>
        BY <1>2, <1>3, Zenon
  <1> QED BY <1>3, <1>4, <1>5, <1>6, CommitQueue, Zenon

LEMMA CommitTakeQueue ==
  ASSUME TypeInv, QueueInv, CommitTake
  PROVE  QueueInv'
  <1>1. PICK slowest \in DOMAIN commit.seen, n \in 0..Len(queue) :
            /\ \A r \in DOMAIN commit.seen : commit.seen[slowest] <= commit.seen[r]
            /\ n < Len(queue) => queue[n + 1].offset > commit.seen[slowest]
            /\ commit' \in CommitState({}) /\ commit'.pc = "hw"
            /\ commit'.least = commit.seen[slowest]
            /\ commit'.taken \in Seq(Pending) /\ Len(commit'.taken) = n
            /\ \A i \in 1..n : commit'.taken[i] = queue[i]
            /\ queue' \in Seq(Pending) /\ Len(queue') = Len(queue) - n
            /\ \A i \in 1..(Len(queue) - n) : queue'[i] = queue[n + i]
        BY Taking, Zenon
  <1>2. PICK t, q : t = commit'.taken /\ q = queue'
        BY Zenon
  <1>3. PICK l : l = commit.seen[slowest]
        BY Zenon
  <1>4. /\ newest' = newest /\ hw' = hw /\ isr' = isr /\ acks' = acks
        /\ batch' = batch /\ update' = update /\ commit.pc = "take"
        BY Zenon DEF CommitTake
  <1>5. /\ t \in Seq(Pending) /\ Len(t) = n /\ n \in Nat /\ Len(queue) \in Nat /\ Len(t) + 0 <= Len(queue)
        /\ \A i \in 1..Len(t) : t[i] = queue[i + 0]
    <2>1. Len(queue) \in Nat /\ n \in Nat
          BY QueueTypes, LenProperties
    <2> QED BY <1>1, <1>2, <2>1
  <1>6. /\ q \in Seq(Pending) /\ Len(q) = Len(queue) - n /\ Len(q) + n <= Len(queue)
        /\ \A i \in 1..Len(q) : q[i] = queue[i + n]
        BY <1>1, <1>2, <1>5
  <1>7. \A s \in Seq(Pending), o \in Int :
            /\ UpTo(queue, o) => UpTo(t, o) /\ UpTo(q, o)
            /\ Above(queue, o) => Above(q, o)
            /\ Increasing(queue) => Increasing(t) /\ Increasing(q)
            /\ Precedes(queue, s) => Precedes(t, s) /\ Precedes(q, s)
            /\ Unacked(s, queue) => Unacked(s, t) /\ Unacked(s, q)
    <2> TAKE s \in Seq(Pending), o \in Int
    <2>1. 0 \in Nat /\ queue \in Seq(Pending)
          BY QueueTypes, Zenon
    <2>2. /\ UpTo(queue, o) => UpTo(t, o)
          /\ Increasing(queue) => Increasing(t)
          /\ Precedes(queue, s) => Precedes(t, s)
          /\ Unacked(s, queue) => Unacked(s, t)
          BY <1>5, <2>1, PartOrder, Zenon
    <2>3. /\ UpTo(queue, o) => UpTo(q, o)
          /\ Above(queue, o) => Above(q, o)
          /\ Increasing(queue) => Increasing(q)
          /\ Precedes(queue, s) => Precedes(q, s)
          /\ Unacked(s, queue) => Unacked(s, q)
          BY <1>5, <1>6, <2>1, PartOrder
    <2> QED BY <2>2, <2>3, Zenon
  <1>8. Increasing(queue) /\ UpTo(queue, newest) /\ Precedes(queue, batch)
        BY Zenon DEF QueueInv, OrderInv
  <1>9. Precedes(t, q)
    <2> SUFFICES ASSUME NEW i \in 1..Len(t), NEW j \in 1..Len(q)
                 PROVE  t[i].offset < q[j].offset
        BY Zenon DEF Precedes
    <2>1. i \in 1..Len(queue) /\ j + n \in 1..Len(queue) /\ i < j + n
          BY <1>5, <1>6
    <2>2. t[i] = queue[i] /\ q[j] = queue[j + n]
          BY <1>5, <1>6
    <2> QED BY <1>8, <2>1, <2>2, Zenon DEF Increasing
  <1>10. Above(q, l)
    <2> SUFFICES ASSUME NEW j \in 1..Len(q)
                 PROVE  q[j].offset > l
        BY Zenon DEF Above
    <2>1. /\ n + 1 \in 1..Len(queue) /\ j + n \in 1..Len(queue) /\ n < Len(queue)
          /\ j + n = n + 1 \/ n + 1 < j + n
          BY <1>5, <1>6
    <2>2. queue[n + 1].offset > l /\ q[j] = queue[j + n]
          BY <1>1, <1>3, <1>6, <2>1, Zenon
    <2>3. l \in Int /\ queue[n + 1].offset \in Int /\ queue[j + n].offset \in Int
          BY <1>3, <2>1, QueueTypes, Entries, Zenon
    <2>4. j + n = n + 1 \/ queue[n + 1].offset < queue[j + n].offset
          BY <1>8, <2>1, Zenon DEF Increasing
    <2> QED BY <2>2, <2>3, <2>4
  <1>11. l <= isr[Self].offset
    <2>1. Self \in DOMAIN commit.seen /\ commit.seen[Self] <= isr[Self].offset
          BY <1>4, Zenon DEF QueueInv, WatermarkInv
    <2>2. l <= commit.seen[Self] /\ l \in Int /\ commit.seen[Self] \in Int /\ isr[Self].offset \in Int
          BY <1>1, <1>3, <2>1, QueueTypes, Zenon
    <2> QED BY <2>1, <2>2
  <1>12. OrderInv'
    <2>1. /\ UpTo(q, newest) /\ UpTo(t, newest) /\ Increasing(q) /\ Increasing(t)
          /\ Precedes(q, batch) /\ Precedes(t, batch)
          BY <1>7, <1>8, QueueTypes, Zenon
    <2>2. /\ update'[Self].pc # "queue" => batch = <<>>
          /\ UpTo(batch, newest) /\ Increasing(batch)
          BY <1>4, Zenon DEF QueueInv, OrderInv
    <2> QED BY <1>1, <1>2, <1>4, <1>9, <2>1, <2>2, OrderNext
  <1>13. WatermarkInv'
    <2>1. DOMAIN commit'.seen = {}
          BY <1>1, Zenon DEF CommitState
    <2>2. Above(q, hw)
          BY <1>7, QueueTypes, Zenon DEF QueueInv, WatermarkInv
    <2> QED BY <1>1, <1>2, <1>3, <1>4, <1>10, <1>11, <2>1, <2>2, WatermarkNext DEF QueueInv, WatermarkInv
  <1>14. AckInv'
    <2>1. Unacked(acks, t) /\ Unacked(acks, q)
          BY <1>7, QueueTypes, Zenon DEF QueueInv, AckInv
    <2> QED BY <1>2, <1>4, <2>1, AckNext, Zenon DEF QueueInv, AckInv
  <1> QED BY <1>12, <1>13, <1>14, Zenon DEF QueueInv

LEMMA CommitAckQueue ==
  ASSUME TypeInv, QueueInv, CommitAck
  PROVE  QueueInv'
  <1>1. PICK S \in SUBSET Replica : commit \in CommitState(S)
        BY Zenon DEF TypeInv, TypeOK, CommitState
  <1>2. PICK p, t : p = Head(commit.taken) /\ t = Tail(commit.taken)
        BY Zenon
  <1>3. commit.taken # <<>>
        BY Zenon DEF CommitAck, TypeInv
  <1>4. p \in Pending /\ p.offset \in Int /\ t \in Seq(Pending)
    <2>1. \A q \in Pending : q.offset \in Int
          BY DEF Pending
    <2> QED BY <1>2, <1>3, <2>1, QueueTypes, HeadAndTail, Zenon
  <1>5. /\ newest' = newest /\ hw' = hw /\ isr' = isr /\ queue' = queue
        /\ batch' = batch /\ update' = update
        /\ acks' = IF p.policy = "ALL" THEN Append(acks, p) ELSE acks
        BY <1>2, Zenon DEF CommitAck
  <1>6. /\ commit'.taken = t /\ commit'.pc \in {"select", "ack"}
        /\ commit'.pc = "select" => t = <<>>
        /\ DOMAIN commit'.seen = {} \/ commit'.seen = commit.seen
        BY <1>1, <1>2, NotCommittingType, Zenon DEF CommitAck, CommitState
  <1>7. /\ UpTo(t, newest) /\ p.offset <= newest
        /\ Increasing(t) /\ \A i \in 1..Len(t) : p.offset < t[i].offset
        BY <1>2, <1>3, QueueTypes, TailOrder, Zenon DEF QueueInv, OrderInv
  <1>8. /\ Precedes(t, queue) /\ \A i \in 1..Len(queue) : p.offset < queue[i].offset
        /\ Precedes(t, batch) /\ \A i \in 1..Len(batch) : p.offset < batch[i].offset
        BY <1>2, <1>3, QueueTypes, TailOrder, Zenon DEF QueueInv, OrderInv
  <1>9. Unacked(acks, t) /\ (p.policy = "ALL" => \A k \in 1..Len(acks) : acks[k].offset # p.offset)
    <2>1. Unacked(acks, commit.taken)
          BY Zenon DEF QueueInv, AckInv
    <2>2. Unacked(acks, t)
          BY <1>2, <1>3, <2>1, QueueTypes, TailOrder, Zenon
    <2>3. 1 \in 1..Len(commit.taken) /\ p = commit.taken[1]
          BY <1>2, <1>3, QueueTypes, HeadAndTail
    <2> QED BY <2>1, <2>2, <2>3, Zenon DEF Unacked
  <1>10. OrderInv'
    <2>1. commit'.pc \notin {"hw", "ack"} => t = <<>>
          BY <1>6, Zenon
    <2>2. /\ update'[Self].pc # "queue" => batch = <<>>
          /\ UpTo(batch, newest) /\ Increasing(batch) /\ UpTo(queue, newest) /\ Increasing(queue)
          /\ Precedes(queue, batch)
          BY <1>5, Zenon DEF QueueInv, OrderInv
    <2> QED BY <1>5, <1>6, <1>7, <1>8, <2>1, <2>2, OrderNext, Zenon
  <1>11. WatermarkInv'
    <2>1. /\ Self \in DOMAIN commit'.seen => commit'.seen[Self] <= isr[Self].offset
          /\ commit'.pc # "take" /\ commit'.pc # "hw"
          BY <1>6, Zenon DEF QueueInv, WatermarkInv
    <2> QED BY <1>5, <2>1, WatermarkNext, Zenon DEF QueueInv, WatermarkInv
  <1>12. AckInv'
    <2>1. /\ UpTo(acks, newest) /\ Distinct(acks)
          /\ Untouched(acks, batch) /\ Unacked(acks, queue)
          BY Zenon DEF QueueInv, AckInv
    <2>2. CASE p.policy # "ALL"
          BY <1>5, <1>6, <1>9, <2>1, <2>2, AckNext, Zenon
    <2>3. CASE p.policy = "ALL"
      <3>1. acks' = Append(acks, p)
            BY <1>5, <2>3, Zenon
      <3>2. /\ UpTo(acks', newest) /\ Distinct(acks')
            /\ \A s : Untouched(acks, s) /\ (\A j \in 1..Len(s) : s[j].offset # p.offset)
                     => Untouched(acks', s)
            /\ \A s : Unacked(acks, s) /\ (\A j \in 1..Len(s) : s[j].policy = "ALL" => s[j].offset # p.offset)
                     => Unacked(acks', s)
            BY <1>4, <1>7, <1>9, <2>1, <2>3, <3>1, QueueTypes, Acknowledging
      <3>3. /\ \A j \in 1..Len(t) : t[j].offset # p.offset
            /\ \A j \in 1..Len(queue) : queue[j].offset # p.offset
            /\ \A j \in 1..Len(batch) : batch[j].offset # p.offset
        <4>1. \A j \in 1..Len(t) : t[j].offset # p.offset
              BY <1>4, <1>7, Apart, Zenon
        <4>2. \A j \in 1..Len(queue) : queue[j].offset # p.offset
              BY <1>4, <1>8, QueueTypes, Apart, Zenon
        <4>3. \A j \in 1..Len(batch) : batch[j].offset # p.offset
              BY <1>4, <1>8, QueueTypes, Apart, Zenon
        <4> QED BY <4>1, <4>2, <4>3, Zenon
      <3>4. Untouched(acks', batch) /\ Unacked(acks', queue) /\ Unacked(acks', t)
            BY <1>9, <2>1, <3>2, <3>3
      <3> QED BY <1>5, <1>6, <3>2, <3>4, AckNext, Zenon
    <2> QED BY <2>2, <2>3, Zenon
  <1> QED BY <1>10, <1>11, <1>12, Zenon DEF QueueInv

\* stopLeading disposes of the commit queue.
LEMMA StoppedLeadingQueue ==
  ASSUME TypeInv, QueueInv, StoppedLeading
  PROVE  QueueInv'
  <1>1. /\ newest' = newest /\ hw' = hw /\ isr' = isr /\ queue' = <<>> /\ acks' = acks
        /\ batch' = batch /\ update' = update /\ commit' = commit
        BY Zenon DEF StoppedLeading
  <1>2. OrderInv'
        BY <1>1, EmptyOrder, OrderNext, Zenon DEF QueueInv, OrderInv
  <1>3. WatermarkInv'
        BY <1>1, EmptyOrder, WatermarkNext, Zenon DEF QueueInv, WatermarkInv
  <1>4. AckInv'
        BY <1>1, EmptyOrder, AckNext, Zenon DEF QueueInv, AckInv
  <1> QED BY <1>2, <1>3, <1>4, Zenon DEF QueueInv

LEMMA NextQueue ==
  ASSUME TypeInv, ReportInv, CommitInv, QueueInv, [Next]_vars
  PROVE  QueueInv'
  <1>1. update \in [Replica -> UpdateState] /\ Self \in DOMAIN isr
        BY Zenon DEF TypeInv, TypeOK, UpdateState, QueueInv, WatermarkInv
  <1>2. ASSUME NEW f \in Follower, RemoveFromISR(f) \/ AddToISR(f)
        PROVE  QueueInv'
    <2>1. Self # f
          BY <1>2, Replicas, Zenon
    <2>2. Self \in DOMAIN isr' /\ isr'[Self] = isr[Self]
          BY <1>1, <1>2, <2>1, Zenon DEF RemoveFromISR, AddToISR
    <2>3. UNCHANGED <<newest, hw, queue, acks, batch, commit, update>>
          BY <1>2, Zenon DEF RemoveFromISR, AddToISR
    <2> QED BY <2>2, <2>3, QueueUndisturbed, Zenon
  <1>3. ASSUME NEW f \in Follower, ReceiveRequest(f) \/ Copy(f)
        PROVE  QueueInv'
    <2>1. Self # f
          BY <1>3, Replicas, Zenon
    <2>2. UNCHANGED <<newest, hw, isr, queue, acks, batch, commit>>
          BY <1>3, Zenon DEF ReceiveRequest, Copy
    <2>3. update'[Self] = update[Self]
          BY <1>1, <1>3, <2>1, Replicas, Zenon DEF ReceiveRequest, Copy
    <2> QED BY <1>1, <2>2, <2>3, QueueUndisturbed, Zenon
  <1>4. ASSUME NEW r \in Replica, Lookup(r) \/ Notify(r)
        PROVE  QueueInv'
    <2>1. UNCHANGED <<newest, hw, isr, queue, acks, batch, commit>>
          BY <1>4, Zenon DEF Lookup, Notify
    <2>2. update[Self].pc = "queue" => update'[Self].pc = "queue"
          BY <1>1, <1>4, Replicas, Zenon DEF Lookup, Notify, UpdateState
    <2> QED BY <1>1, <2>1, <2>2, QueueUndisturbed, Zenon
  <1>5. CASE StopLeading \/ UNCHANGED vars \/ \E loop \in Replica \cup {"commit"} : Return(loop)
    <2>1. UNCHANGED <<newest, hw, isr, queue, acks, batch, commit, update>>
          BY <1>5, Zenon DEF StopLeading, Return, vars
    <2> QED BY <1>1, <2>1, QueueUndisturbed, Zenon
  <1> QED BY <1>2, <1>3, <1>4, <1>5, AppendBatchQueue, ProcessPendingMessageQueue, UpdateQueue,
             CommitCheckQueue, CommitTakeQueue, CommitHWQueue, CommitAckQueue, StoppedLeadingQueue
          DEF Next

\* The whole inductive invariant.
LEMMA QueueInvariance == Spec => [](TypeInv /\ ReportInv /\ CommitInv /\ QueueInv)
  BY InitType, NextType, InitReport, NextReport, InitCommit, NextCommit, InitQueue, NextQueue, PTL
     DEF Spec

\* No message is acknowledged twice, by the message processing loop when it queues
\* it (processPendingMessage) and by the commit loop when it commits it, or by two
\* passes of the commit loop.
THEOREM AcksAreSentOnce == Spec => []AckedOnce
  <1>1. TypeInv /\ QueueInv => AckedOnce
    <2> SUFFICES ASSUME TypeInv, QueueInv PROVE AckedOnce
        BY Zenon
    <2>1. DOMAIN acks = 1..Len(acks)
          BY QueueTypes, LenProperties, Zenon
    <2> QED BY <2>1, Zenon DEF QueueInv, AckInv, Distinct, AckedOnce
  <1> QED BY <1>1, QueueInvariance, PTL

\* When the commit loop is done, no entry that the high watermark covers is left in
\* the commit queue: a batch is queued before the leader reports its offset
\* (messageProcessingLoop), and the commit loop takes all it commits.
THEOREM NoAckIsLeftBehind == Spec => []NoAckLeftBehind
  <1>1. TypeInv /\ QueueInv => NoAckLeftBehind
    <2> SUFFICES ASSUME TypeInv, QueueInv PROVE NoAckLeftBehind
        BY Zenon
    <2>1. DOMAIN queue = 1..Len(queue)
          BY QueueTypes, LenProperties, Zenon
    <2> QED BY <2>1, Zenon DEF QueueInv, WatermarkInv, Above, NoAckLeftBehind
  <1> QED BY <1>1, QueueInvariance, PTL
=============================================================================
