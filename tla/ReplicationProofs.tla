------------------------- MODULE ReplicationProofs -------------------------
(***************************************************************************)
(* Proofs about Replication, for any number of servers, messages, metadata *)
(* operations and crashes.                                                 *)
(*                                                                         *)
(* First the types, and what the servers hold of the metadata log (the     *)
(* view invariant).  Then where messages are copied to: a batch is read    *)
(* from a log at the position at which the follower appends it (AlignInv), *)
(* so a step other than Publish makes no copy of a message at a new        *)
(* position (NoNewCopies).  Last the messages in the logs, provided that a *)
(* crash does not lose the tail of a log (LoseTail = FALSE): Publish makes *)
(* one copy, in an epoch whose every copy the publishing leader holds      *)
(* already (LeaderHoldsEpoch).                                             *)
(***************************************************************************)
EXTENDS Replication, TLAPS, SequenceTheorems

-----------------------------------------------------------------------------
(* Types. *)

LEMMA InitType == Init => TypeOK
  <1> SUFFICES ASSUME Init PROVE TypeOK
      BY Zenon
  <1>1. PICK first \in Server :
            /\ raftLog = <<[op |-> "create", server |-> first]>>
            /\ leader = [n \in Server |-> first]
            /\ role = [n \in Server |-> IF n = first THEN "leader" ELSE "follower"]
        BY Zenon DEF Init
  <1>2. raftLog \in Seq(Operation)
        BY <1>1 DEF Operation
  <1>3. leader \in [Server -> Server] /\ role \in [Server -> {"leader", "follower", "down"}]
        BY <1>1, Zenon
  <1>4. NoFetch \in Fetch
        BY EmptySeq, Zenon DEF NoFetch, Fetch, Offset
  <1>5. fetch \in [Server -> Fetch]
        BY <1>4, Zenon DEF Init
  <1>6. /\ isr = [n \in Server |-> isr[n]]
        /\ \A n \in Server : \E S \in SUBSET Server : isr[n] \in [S -> Offset]
    <2>1. isr = [n \in Server |-> [m \in Server |-> -1]]
          BY Zenon DEF Init
    <2>2. \A n \in Server : isr[n] \in [Server -> Offset]
          BY <2>1, Zenon DEF Offset
    <2> QED BY <2>1, <2>2, Zenon
  <1>7. /\ applied \in [Server -> Nat]
        /\ leaderEpoch \in [Server -> Nat]
        /\ caughtUp \in [Server -> SUBSET Server]
        /\ check \in [Server -> BOOLEAN]
        /\ queue \in [Server -> SUBSET Pending]
        /\ hw \in [Server -> Offset]
        /\ hwFile \in [Server -> Offset]
        /\ acked \in SUBSET Pending
        /\ published \in Nat
        /\ crashes \in Nat
        BY DEF Init, Offset
  <1>8. log \in [Server -> Seq(Message)]
        BY EmptySeq DEF Init
  <1> QED BY <1>2, <1>3, <1>5, <1>6, <1>7, <1>8, Zenon DEF TypeOK

\* RaiseOffset keeps the members and the type of an ISR.
LEMMA RaiseOffsetType ==
  ASSUME NEW S, NEW offsets \in [S -> Offset], NEW m, NEW o \in Offset
  PROVE  RaiseOffset(offsets, m, o) \in [S -> Offset]
  BY Zenon DEF RaiseOffset

LEMMA ReportOffsetType ==
  ASSUME TypeOK, NEW n \in Server, NEW m \in Server, NEW o \in Offset, ReportOffset(n, m, o)
  PROVE  /\ isr' = [r \in Server |-> isr'[r]]
         /\ \A r \in Server : \E S \in SUBSET Server : isr'[r] \in [S -> Offset]
         /\ check' \in [Server -> BOOLEAN]
  <1>1. isr' = [isr EXCEPT ![n] = RaiseOffset(isr[n], m, o)]
        BY Zenon DEF ReportOffset
  <1>2. isr = [r \in Server |-> isr[r]]
        BY Zenon DEF TypeOK
  <1>3. isr' = [r \in Server |-> IF r = n THEN RaiseOffset(isr[n], m, o) ELSE isr[r]]
        BY <1>1, <1>2, Zenon
  <1>4. \A r \in Server : \E S \in SUBSET Server : isr'[r] \in [S -> Offset]
        BY <1>3, RaiseOffsetType, Zenon DEF TypeOK
  <1>5. check' \in [Server -> BOOLEAN]
        BY Zenon DEF ReportOffset, TypeOK
  <1> QED BY <1>3, <1>4, <1>5, Zenon

LEMMA HigherType ==
  ASSUME NEW a \in Offset, NEW b \in Offset
  PROVE  Higher(a, b) \in Offset
  BY Zenon DEF Higher

LEMMA OperationAt ==
  ASSUME TypeOK, NEW i \in 1..Len(raftLog)
  PROVE  raftLog[i] \in Operation /\ raftLog[i].server \in Server
  <1>1. raftLog \in Seq(Operation)
        BY Zenon DEF TypeOK
  <1>2. raftLog[i] \in Operation
        BY <1>1, ElementOfSeq, Zenon
  <1> QED BY <1>2, Zenon DEF Operation

LEMMA NoFetchType == NoFetch \in Fetch
  BY EmptySeq, Zenon DEF NoFetch, Fetch, Offset

LEMMA PublishType ==
  ASSUME TypeOK, NEW n \in Server, Publish(n)
  PROVE  TypeOK'
  <1> DEFINE o == Len(log[n])
             message == [epoch |-> leaderEpoch[n], id |-> published]
  <1>1. o \in Offset /\ message \in Message /\ [offset |-> o, id |-> published] \in Pending
        BY DEF TypeOK, Offset, Message, Pending
  <1>2. /\ log' = [log EXCEPT ![n] = Append(log[n], message)]
        /\ queue' = [queue EXCEPT ![n] = queue[n] \cup {[offset |-> o, id |-> published]}]
        /\ ReportOffset(n, n, o)
        /\ published' = published + 1
        BY Zenon DEF Publish
  <1>3. log' \in [Server -> Seq(Message)] /\ queue' \in [Server -> SUBSET Pending] /\ published' \in Nat
        BY <1>1, <1>2, AppendProperties DEF TypeOK
  <1>4. /\ isr' = [r \in Server |-> isr'[r]]
        /\ \A r \in Server : \E S \in SUBSET Server : isr'[r] \in [S -> Offset]
        /\ check' \in [Server -> BOOLEAN]
        BY <1>1, <1>2, ReportOffsetType, Zenon
  <1> QED BY <1>3, <1>4, Zenon DEF TypeOK, Publish, metaVars

LEMMA CommitType ==
  ASSUME TypeOK, NEW n \in Server, Commit(n)
  PROVE  TypeOK'
  <1>1. check' \in [Server -> BOOLEAN]
        BY Zenon DEF Commit, TypeOK
  <1>2. CASE UNCHANGED <<queue, acked, hw>>
        BY <1>1, <1>2, Zenon DEF Commit, TypeOK, metaVars
  <1>3. ASSUME NEW slowest \in DOMAIN isr[n],
               queue' = [queue EXCEPT ![n] = queue[n] \ {p \in queue[n] : p.offset <= isr[n][slowest]}],
               hw' = [hw EXCEPT ![n] = Higher(hw[n], isr[n][slowest])],
               acked' = acked \cup {p \in queue[n] : p.offset <= isr[n][slowest]}
        PROVE  TypeOK'
    <2>1. isr[n][slowest] \in Offset
          BY <1>3 DEF TypeOK
    <2>2. Higher(hw[n], isr[n][slowest]) \in Offset
          BY <2>1, HigherType, Zenon DEF TypeOK
    <2>3. hw' \in [Server -> Offset]
          BY <1>3, <2>2, Zenon DEF TypeOK
    <2>4. queue' \in [Server -> SUBSET Pending] /\ acked' \in SUBSET Pending
          BY <1>3, Zenon DEF TypeOK
    <2> QED BY <1>1, <2>3, <2>4, Zenon DEF Commit, TypeOK, metaVars
  <1> QED BY <1>2, <1>3, Zenon DEF Commit

LEMMA ReplicateType ==
  ASSUME TypeOK, NEW n \in Server, NEW f \in Server, Replicate(n, f)
  PROVE  TypeOK'
  <1> DEFINE from == fetch[f].offset
  <1>1. fetch[f] \in Fetch /\ from \in Offset /\ hw[n] \in Offset /\ log[n] \in Seq(Message)
        BY Zenon DEF TypeOK, Fetch
  <1>2. /\ isr' = [r \in Server |-> isr'[r]]
        /\ \A r \in Server : \E S \in SUBSET Server : isr'[r] \in [S -> Offset]
        /\ check' \in [Server -> BOOLEAN]
        BY <1>1, ReportOffsetType, Zenon DEF Replicate, Takes, Batches
  <1>3. caughtUp' \in [Server -> SUBSET Server]
    <2>1. caughtUp' = caughtUp \/ caughtUp' = [caughtUp EXCEPT ![n] = caughtUp[n] \cup {f}]
          BY Zenon DEF Replicate, Takes, Batches
    <2>2. caughtUp \in [Server -> SUBSET Server]
          BY Zenon DEF TypeOK
    <2> QED BY <2>1, <2>2
  <1>4. fetch' \in [Server -> Fetch]
    <2>1. CASE fetch' = [fetch EXCEPT ![f].state = "response", ![f].hw = hw[n]]
          BY <1>1, <2>1, Zenon DEF TypeOK, Fetch
    <2>2. ASSUME NEW to \in (from + 2)..Len(log[n]),
                 fetch' = [fetch EXCEPT ![f].state = "response", ![f].hw = hw[n],
                                        ![f].entries = SubSeq(log[n], from + 2, to)]
          PROVE  fetch' \in [Server -> Fetch]
      <3>1. SubSeq(log[n], from + 2, to) \in Seq(Message)
            BY <1>1, SubSeqProperties DEF Offset
      <3> QED BY <1>1, <2>2, <3>1, Zenon DEF TypeOK, Fetch
    <2> QED BY <2>1, <2>2, Zenon DEF Replicate, Takes, Batches
  <1> QED BY <1>2, <1>3, <1>4, Zenon DEF TypeOK, Replicate, Takes, Batches, metaVars, logVars

LEMMA RequestReplicationType ==
  ASSUME TypeOK, NEW f \in Server, RequestReplication(f)
  PROVE  TypeOK'
  <1>1. Newest(log[f]) \in Offset /\ leaderEpoch[f] \in Nat
        BY DEF TypeOK, Newest, Offset
  <1>2. fetch' \in [Server -> Fetch]
        BY <1>1, NoFetchType, Zenon DEF RequestReplication, FetchFrom, TypeOK, Fetch
  <1> QED BY <1>2, Zenon DEF TypeOK, RequestReplication, FetchFrom, metaVars, leaderVars, logVars

LEMMA RequestTimeoutType ==
  ASSUME TypeOK, NEW f \in Server, RequestTimeout(f)
  PROVE  TypeOK'
  <1>1. fetch' \in [Server -> Fetch]
        BY NoFetchType, Zenon DEF RequestTimeout, TypeOK
  <1> QED BY <1>1, Zenon DEF TypeOK, RequestTimeout, metaVars, leaderVars, logVars

LEMMA ReceiveResponseType ==
  ASSUME TypeOK, NEW f \in Server, ReceiveResponse(f)
  PROVE  TypeOK'
  <1>1. fetch[f] \in Fetch /\ fetch[f].hw \in Offset /\ fetch[f].entries \in Seq(Message)
        BY Zenon DEF TypeOK, Fetch
  <1>2. fetch' \in [Server -> Fetch]
        BY NoFetchType, Zenon DEF ReceiveResponse, Accepts, TypeOK
  <1>3. hw' \in [Server -> Offset]
    <2>1. Higher(hw[f], fetch[f].hw) \in Offset
          BY <1>1, HigherType, Zenon DEF TypeOK
    <2>2. hw' = hw \/ hw' = [hw EXCEPT ![f] = Higher(hw[f], fetch[f].hw)]
          BY Zenon DEF ReceiveResponse, Accepts
    <2> QED BY <2>1, <2>2, Zenon DEF TypeOK
  <1>4. log' \in [Server -> Seq(Message)]
    <2>1. log[f] \o fetch[f].entries \in Seq(Message)
          BY <1>1, ConcatProperties, Zenon DEF TypeOK
    <2> QED BY <2>1 DEF ReceiveResponse, Accepts, TypeOK
  <1> QED BY <1>2, <1>3, <1>4, Zenon DEF TypeOK, ReceiveResponse, Accepts, metaVars, leaderVars

LEMMA CheckpointHWType ==
  ASSUME TypeOK, NEW n \in Server, CheckpointHW(n)
  PROVE  TypeOK'
  BY Zenon DEF TypeOK, CheckpointHW, metaVars, leaderVars

LEMMA ProposeType ==
  ASSUME TypeOK, NEW op \in Ops, NEW m \in Server, Propose(op, m),
         caughtUp' \in [Server -> SUBSET Server]
  PROVE  TypeOK'
  <1>1. [op |-> op, server |-> m] \in Operation
        BY ReplicationAssumption, Zenon DEF Operation
  <1>2. raftLog' \in Seq(Operation)
        BY <1>1, AppendProperties, Zenon DEF Propose, TypeOK
  <1> QED BY <1>2, Zenon DEF TypeOK, Propose, logVars

\* Starting to follow only cuts the server's own log.
LEMMA BecomeFollowerCuts ==
  ASSUME NEW n \in Server, NEW c, NEW w, BecomeFollower(n, c, w)
  PROVE  /\ role' = [role EXCEPT ![n] = "follower"]
         /\ \E length \in 0..Len(log[n]) : log' = [log EXCEPT ![n] = SubSeq(log[n], 1, length)]
  BY Zenon DEF BecomeFollower

LEMMA BecomeFollowerType ==
  ASSUME TypeOK, NEW n \in Server, NEW c, NEW w, BecomeFollower(n, c, w)
  PROVE  /\ role' \in [Server -> {"leader", "follower", "down"}]
         /\ log' \in [Server -> Seq(Message)]
  <1>1. PICK length \in 0..Len(log[n]) : log' = [log EXCEPT ![n] = SubSeq(log[n], 1, length)]
        BY BecomeFollowerCuts, Zenon
  <1>2. log[n] \in Seq(Message)
        BY Zenon DEF TypeOK
  <1>3. SubSeq(log[n], 1, length) \in Seq(Message)
        BY <1>2, SubSeqProperties
  <1> QED BY <1>1, <1>3, BecomeFollowerCuts, Zenon DEF TypeOK

LEMMA ApplyType ==
  ASSUME TypeOK, NEW n \in Server, Apply(n)
  PROVE  TypeOK'
  <1> DEFINE e == applied[n] + 1
             o == raftLog[e]
  <1>1. e \in Nat /\ e \in 1..Len(raftLog)
        BY DEF TypeOK, Apply
  <1>2. o \in Operation /\ o.server \in Server
        BY <1>1, OperationAt, Zenon
  <1>3. applied' \in [Server -> Nat]
        BY DEF TypeOK, Apply
  <1>4. PICK S \in SUBSET Server : isr[n] \in [S -> Offset]
        BY Zenon DEF TypeOK
  <1>5. isr = [r \in Server |-> isr[r]]
        BY Zenon DEF TypeOK
  <1>6. CASE ApplyShrinkISR(n, o.server)
    <2>1. isr' = [isr EXCEPT ![n] = [r \in DOMAIN isr[n] \ {o.server} |-> isr[n][r]]]
          BY <1>6, Zenon DEF ApplyShrinkISR
    <2>2. [r \in DOMAIN isr[n] \ {o.server} |-> isr[n][r]] \in [S \ {o.server} -> Offset]
          BY <1>4, Zenon
    <2>3. /\ isr' = [r \in Server |-> isr'[r]]
          /\ \A r \in Server : \E T \in SUBSET Server : isr'[r] \in [T -> Offset]
          BY <1>5, <2>1, <2>2, Zenon DEF TypeOK
    <2>4. check' \in [Server -> BOOLEAN]
          BY <1>6, Zenon DEF ApplyShrinkISR, TypeOK
    <2> QED BY <1>3, <1>6, <2>3, <2>4, Zenon DEF TypeOK, Apply, ApplyShrinkISR
  <1>7. CASE ApplyExpandISR(n, o.server)
    <2> DEFINE new == [r \in DOMAIN isr[n] \cup {o.server} |-> IF r = o.server THEN -1 ELSE isr[n][r]]
    <2>1. isr' = [isr EXCEPT ![n] = new]
          BY <1>7, Zenon DEF ApplyExpandISR
    <2>2. new \in [S \cup {o.server} -> Offset] /\ S \cup {o.server} \in SUBSET Server
          BY <1>2, <1>4, Zenon DEF Offset
    <2>3. /\ isr' = [r \in Server |-> isr'[r]]
          /\ \A r \in Server : \E T \in SUBSET Server : isr'[r] \in [T -> Offset]
          BY <1>5, <2>1, <2>2, Zenon DEF TypeOK
    <2> QED BY <1>3, <1>7, <2>3, Zenon DEF TypeOK, Apply, ApplyExpandISR
  <1>8. CASE ApplyChangeLeader(n, o.server, e)
    <2>1. leader' \in [Server -> Server] /\ leaderEpoch' \in [Server -> Nat]
          BY <1>1, <1>2, <1>8, Zenon DEF ApplyChangeLeader, TypeOK
    <2>2. queue' \in [Server -> SUBSET Pending] /\ caughtUp' \in [Server -> SUBSET Server]
          BY <1>8, Zenon DEF ApplyChangeLeader, TypeOK
    <2>3. role' \in [Server -> {"leader", "follower", "down"}] /\ log' \in [Server -> Seq(Message)]
      <3>1. CASE BecomeLeader(n, e)
            BY <3>1, Zenon DEF BecomeLeader, TypeOK
      <3>2. CASE BecomeFollower(n, epochs[n], hw[n])
            BY <3>2, BecomeFollowerType, Zenon
      <3> QED BY <1>8, <3>1, <3>2, Zenon DEF ApplyChangeLeader
    <2> QED BY <1>3, <1>8, <2>1, <2>2, <2>3, Zenon DEF TypeOK, Apply, ApplyChangeLeader
  <1> QED BY <1>6, <1>7, <1>8, Zenon DEF Apply

LEMMA CrashType ==
  ASSUME TypeOK, NEW n \in Server, Crash(n)
  PROVE  TypeOK'
  <1>1. fetch' \in [Server -> Fetch]
        BY NoFetchType, Zenon DEF Crash, TypeOK
  <1>2. log' \in [Server -> Seq(Message)]
    <2>1. ASSUME NEW k \in 0..(Len(log[n]) - 1), log' = [log EXCEPT ![n] = SubSeq(log[n], 1, k)]
          PROVE  log' \in [Server -> Seq(Message)]
      <3>1. SubSeq(log[n], 1, k) \in Seq(Message)
            BY SubSeqProperties DEF TypeOK
      <3> QED BY <2>1, <3>1, Zenon DEF TypeOK
    <2> QED BY <2>1, Zenon DEF Crash, TypeOK
  <1>3. /\ isr' = [r \in Server |-> isr'[r]]
        /\ \A r \in Server : \E S \in SUBSET Server : isr'[r] \in [S -> Offset]
    <2>1. isr' = [isr EXCEPT ![n] = <<>>] /\ isr = [r \in Server |-> isr[r]]
          BY Zenon DEF Crash, TypeOK
    <2>2. << >> \in [{} -> Offset]
          OBVIOUS
    <2> QED BY <2>1, <2>2, Zenon DEF TypeOK
  <1>4. /\ role' \in [Server -> {"leader", "follower", "down"}]
        /\ queue' \in [Server -> SUBSET Pending]
        /\ caughtUp' \in [Server -> SUBSET Server]
        /\ check' \in [Server -> BOOLEAN]
        /\ hw' \in [Server -> Offset]
        /\ crashes' \in Nat
        BY DEF Crash, TypeOK
  <1> QED BY <1>1, <1>2, <1>3, <1>4, Zenon DEF TypeOK, Crash, metaVars

LEMMA RestartType ==
  ASSUME TypeOK, NEW n \in Server, Restart(n)
  PROVE  TypeOK'
  <1>1. PICK k \in applied[n]..Len(raftLog), e \in 1..Len(raftLog) :
            /\ applied' = [applied EXCEPT ![n] = k]
            /\ leaderEpoch' = [leaderEpoch EXCEPT ![n] = e]
            /\ leader' = [leader EXCEPT ![n] = raftLog[e].server]
            /\ isr' = [isr EXCEPT ![n] = ReplayedOffsets(n, k)]
            /\ \/ role' = [role EXCEPT ![n] = "leader"] /\ UNCHANGED log
               \/ BecomeFollower(n, ReopenEpochs(epochs[n], log[n]), hw[n])
        BY Zenon DEF Restart, LeadsIn
  <1>2. k \in Nat /\ e \in Nat /\ raftLog[e].server \in Server
        BY OperationAt DEF TypeOK
  <1>3. applied' \in [Server -> Nat] /\ leaderEpoch' \in [Server -> Nat] /\ leader' \in [Server -> Server]
        BY <1>1, <1>2, Zenon DEF TypeOK
  <1>4. /\ isr' = [r \in Server |-> isr'[r]]
        /\ \A r \in Server : \E S \in SUBSET Server : isr'[r] \in [S -> Offset]
    <2>1. Newest(log[n]) \in Offset
          BY DEF TypeOK, Newest, Offset
    <2>2. ReplayedOffsets(n, k) \in [ReplayedISR(k) -> Offset] /\ ReplayedISR(k) \in SUBSET Server
          BY <2>1, Zenon DEF ReplayedOffsets, ReplayedISR, Offset
    <2> QED BY <1>1, <2>2, Zenon DEF TypeOK
  <1>5. role' \in [Server -> {"leader", "follower", "down"}] /\ log' \in [Server -> Seq(Message)]
        BY <1>1, BecomeFollowerType DEF TypeOK
  <1> QED BY <1>3, <1>4, <1>5, Zenon DEF TypeOK, Restart, LeadsIn

\* Every variable but the epoch caches keeps its type.
THEOREM TypeCorrect == Spec => []TypeOK
  <1>1. TypeOK /\ [Next]_vars => TypeOK'
    <2> SUFFICES ASSUME TypeOK, [Next]_vars PROVE TypeOK'
        BY Zenon
    <2>1. CASE UNCHANGED vars
          BY <2>1, Zenon DEF vars, TypeOK
    <2>2. ASSUME NEW n \in Server, NEW m \in Server, ShrinkISR(n, m) PROVE TypeOK'
          BY <2>2, ProposeType, Zenon DEF ShrinkISR, TypeOK, Propose
    <2>3. ASSUME NEW n \in Server, NEW m \in Server, ExpandISR(n, m) PROVE TypeOK'
          BY <2>3, ProposeType, Zenon DEF ExpandISR, TypeOK, Propose
    <2>4. ASSUME NEW n \in Server, NEW m \in Server, ElectLeader(n, m) PROVE TypeOK'
          BY <2>4, ProposeType, Zenon DEF ElectLeader, Candidates, TypeOK, Propose
    <2> QED
        BY <2>1, <2>2, <2>3, <2>4, PublishType, CommitType, ReplicateType, RequestReplicationType,
           RequestTimeoutType, ReceiveResponseType, CheckpointHWType, ApplyType, CrashType,
           RestartType, Zenon DEF Next
  <1> QED BY InitType, <1>1, PTL DEF Spec

-----------------------------------------------------------------------------
(* What a server knows of the metadata log. *)

\* A server applied a prefix of the metadata log, and a running one holds the
\* leader, the leader epoch and the ISR this prefix defines.
ViewInv ==
    \A n \in Server :
        /\ applied[n] \in 1..Len(raftLog)
        /\ CurrentEpoch(leaderEpoch[n], applied[n])
        /\ leader[n] = raftLog[leaderEpoch[n]].server
        /\ role[n] = "leader" => leader[n] = n
        /\ role[n] = "follower" => leader[n] # n
        /\ role[n] # "down" => DOMAIN isr[n] = ReplayedISR(applied[n])

\* A prefix has one current leader epoch.
LEMMA CurrentEpochUnique ==
  ASSUME NEW k \in Nat, NEW i, NEW j, CurrentEpoch(i, k), CurrentEpoch(j, k)
  PROVE  i = j
  BY DEF CurrentEpoch

LEMMA InitView == Init => ViewInv
  <1> SUFFICES ASSUME Init, NEW n \in Server
               PROVE  /\ applied[n] \in 1..Len(raftLog)
                      /\ CurrentEpoch(leaderEpoch[n], applied[n])
                      /\ leader[n] = raftLog[leaderEpoch[n]].server
                      /\ role[n] = "leader" => leader[n] = n
                      /\ role[n] = "follower" => leader[n] # n
                      /\ role[n] # "down" => DOMAIN isr[n] = ReplayedISR(applied[n])
      BY Zenon DEF ViewInv
  <1>1. PICK first \in Server :
            /\ raftLog = <<[op |-> "create", server |-> first]>>
            /\ leader = [r \in Server |-> first]
            /\ role = [r \in Server |-> IF r = first THEN "leader" ELSE "follower"]
        BY Zenon DEF Init
  <1>2. applied[n] = 1 /\ leaderEpoch[n] = 1 /\ leader[n] = first /\ DOMAIN isr[n] = Server
        BY <1>1 DEF Init
  <1>3. Len(raftLog) = 1 /\ raftLog[1] = [op |-> "create", server |-> first]
        BY <1>1, Zenon
  <1>4. CurrentEpoch(1, 1)
        BY <1>3 DEF CurrentEpoch, IsLeaderOp
  <1>5. ReplayedISR(1) = Server
        BY <1>3 DEF ReplayedISR
  <1> QED BY <1>1, <1>2, <1>3, <1>4, <1>5

\* How one more operation changes the ISR, as replayed from the log.
LEMMA ReplayStep ==
  ASSUME TypeOK, NEW k \in Nat, k + 1 \in 1..Len(raftLog)
  PROVE  LET o == raftLog[k + 1]
         IN /\ o.op = "shrink" => ReplayedISR(k + 1) = ReplayedISR(k) \ {o.server}
            /\ o.op = "expand" => ReplayedISR(k + 1) = ReplayedISR(k) \cup {o.server}
            /\ o.op = "leader" => ReplayedISR(k + 1) = ReplayedISR(k)
  <1> DEFINE o == raftLog[k + 1]
  <1>1. o \in Operation
        BY ElementOfSeq, Zenon DEF TypeOK
  <1>2. o.server \in Server /\ o = [op |-> o.op, server |-> o.server]
        BY <1>1, Zenon DEF Operation
  <1>3. \A m \in Server, i \in 1..k :
            (\A j \in (i + 1)..(k + 1) : raftLog[j] # [op |-> "shrink", server |-> m])
            <=> /\ \A j \in (i + 1)..k : raftLog[j] # [op |-> "shrink", server |-> m]
                /\ o # [op |-> "shrink", server |-> m]
    <2> SUFFICES ASSUME NEW m \in Server, NEW i \in 1..k
                 PROVE  (i + 1)..(k + 1) = ((i + 1)..k) \cup {k + 1}
        BY Zenon
    <2> QED OBVIOUS
  <1>4. \A m \in Server : m \in ReplayedISR(k + 1)
            <=> \/ m \in ReplayedISR(k) /\ o # [op |-> "shrink", server |-> m]
                \/ o.op = "create"
                \/ o = [op |-> "expand", server |-> m]
    <2> SUFFICES ASSUME NEW m \in Server
                 PROVE  m \in ReplayedISR(k + 1)
                        <=> \/ m \in ReplayedISR(k) /\ o # [op |-> "shrink", server |-> m]
                            \/ o.op = "create"
                            \/ o = [op |-> "expand", server |-> m]
        BY Zenon
    <2> DEFINE Joins(i) == raftLog[i].op = "create" \/ raftLog[i] = [op |-> "expand", server |-> m]
               Stays(i, l) == \A j \in (i + 1)..l : raftLog[j] # [op |-> "shrink", server |-> m]
    <2>1. m \in ReplayedISR(k + 1) <=> \E i \in 1..(k + 1) : Joins(i) /\ Stays(i, k + 1)
          BY Zenon DEF ReplayedISR
    <2>2. m \in ReplayedISR(k) <=> \E i \in 1..k : Joins(i) /\ Stays(i, k)
          BY Zenon DEF ReplayedISR
    <2>3. \A i \in 1..k : Stays(i, k + 1) <=> Stays(i, k) /\ o # [op |-> "shrink", server |-> m]
          BY <1>3, Zenon
    <2>4. Stays(k + 1, k + 1)
          OBVIOUS
    <2>5. 1..(k + 1) = (1..k) \cup {k + 1}
          OBVIOUS
    <2>6. Joins(k + 1) <=> o.op = "create" \/ o = [op |-> "expand", server |-> m]
          BY Zenon
    <2> HIDE DEF Joins, Stays
    <2> QED BY <2>1, <2>2, <2>3, <2>4, <2>5, <2>6, Zenon
  <1>5. ReplayedISR(k + 1) \subseteq Server /\ ReplayedISR(k) \subseteq Server
        BY Zenon DEF ReplayedISR
  <1>6. \A kind, m : o = [op |-> kind, server |-> m] <=> o.op = kind /\ o.server = m
        BY <1>2
  <1>7. \A m \in Server : m \in ReplayedISR(k + 1)
            <=> \/ m \in ReplayedISR(k) /\ ~(o.op = "shrink" /\ o.server = m)
                \/ o.op = "create"
                \/ o.op = "expand" /\ o.server = m
        BY <1>4, <1>6, Zenon
  <1>8. o.op = "shrink" => ReplayedISR(k + 1) = ReplayedISR(k) \ {o.server}
        BY <1>5, <1>7, Zenon
  <1>9. o.op = "expand" => ReplayedISR(k + 1) = ReplayedISR(k) \cup {o.server}
        BY <1>2, <1>5, <1>7, Zenon
  <1>10. o.op = "leader" => ReplayedISR(k + 1) = ReplayedISR(k)
        BY <1>5, <1>7, Zenon
  <1> QED BY <1>8, <1>9, <1>10, Zenon

\* A longer metadata log defines the same state for the prefixes it had.
LEMMA ProposeKeepsPrefixes ==
  ASSUME TypeOK, NEW op \in Ops, NEW m \in Server, Propose(op, m), NEW k \in 0..Len(raftLog)
  PROVE  /\ Len(raftLog') = Len(raftLog) + 1
         /\ \A i \in 1..k : raftLog'[i] = raftLog[i]
         /\ \A i : CurrentEpoch(i, k)' <=> CurrentEpoch(i, k)
         /\ ReplayedISR(k)' = ReplayedISR(k)
  <1>1. raftLog \in Seq(Operation) /\ raftLog' = Append(raftLog, [op |-> op, server |-> m])
        BY Zenon DEF TypeOK, Propose
  <1>2. [op |-> op, server |-> m] \in Operation
        BY ReplicationAssumption, Zenon DEF Operation
  <1>3. Len(raftLog') = Len(raftLog) + 1 /\ \A i \in 1..k : raftLog'[i] = raftLog[i]
        BY <1>1, <1>2, AppendProperties
  <1>4. \A i : CurrentEpoch(i, k)' <=> CurrentEpoch(i, k)
        BY <1>3 DEF CurrentEpoch
  <1>5. ReplayedISR(k)' = ReplayedISR(k)
        BY <1>3 DEF ReplayedISR
  <1> QED BY <1>3, <1>4, <1>5, Zenon

\* Steps that leave the metadata log and what servers know of it alone.
LEMMA ViewUnchanged ==
  ASSUME ViewInv, UNCHANGED <<metaVars, role>>,
         \A n \in Server : role[n] # "down" => DOMAIN isr'[n] = DOMAIN isr[n]
  PROVE  ViewInv'
  <1>1. /\ \A i, k : CurrentEpoch(i, k)' <=> CurrentEpoch(i, k)
        /\ \A k : ReplayedISR(k)' = ReplayedISR(k)
        BY Zenon DEF CurrentEpoch, ReplayedISR, metaVars
  <1> QED BY <1>1, Zenon DEF ViewInv, metaVars

\* A step that does not touch the metadata log is checked against that log.
LEMMA ViewOf ==
  ASSUME raftLog' = raftLog,
         \A n \in Server :
            /\ applied'[n] \in 1..Len(raftLog')
            /\ CurrentEpoch(leaderEpoch'[n], applied'[n])
            /\ leader'[n] = raftLog'[leaderEpoch'[n]].server
            /\ role'[n] = "leader" => leader'[n] = n
            /\ role'[n] = "follower" => leader'[n] # n
            /\ role'[n] # "down" => DOMAIN isr'[n] = ReplayedISR(applied'[n])
  PROVE  ViewInv'
  <1>1. \A n \in Server : CurrentEpoch(leaderEpoch[n], applied[n])'
                          <=> CurrentEpoch(leaderEpoch'[n], applied'[n])
        BY Zenon DEF CurrentEpoch
  <1>2. \A n \in Server : ReplayedISR(applied[n])' = ReplayedISR(applied'[n])
        BY DEF ReplayedISR
  <1> QED BY <1>1, <1>2, Zenon DEF ViewInv

LEMMA ReportOffsetDomain ==
  ASSUME TypeOK, NEW n \in Server, NEW m, NEW o, ReportOffset(n, m, o)
  PROVE  \A r \in Server : DOMAIN isr'[r] = DOMAIN isr[r]
  BY Zenon DEF ReportOffset, RaiseOffset, TypeOK

LEMMA ProposeView ==
  ASSUME TypeOK, ViewInv, NEW op \in Ops, NEW m \in Server, Propose(op, m)
  PROVE  ViewInv'
  <1> SUFFICES ASSUME NEW n \in Server
               PROVE  /\ applied'[n] \in 1..Len(raftLog')
                      /\ CurrentEpoch(leaderEpoch[n], applied[n])'
                      /\ leader'[n] = raftLog'[leaderEpoch'[n]].server
                      /\ role'[n] = "leader" => leader'[n] = n
                      /\ role'[n] = "follower" => leader'[n] # n
                      /\ role'[n] # "down" => DOMAIN isr'[n] = ReplayedISR(applied[n])'
      BY Zenon DEF ViewInv
  <1>0. PICK k \in 0..Len(raftLog) : k = applied[n] /\ k \in 1..Len(raftLog)
        BY DEF ViewInv, TypeOK
  <1>1. k \in 1..Len(raftLog) /\ Len(raftLog) \in Nat
        BY <1>0 DEF TypeOK
  <1>2. UNCHANGED <<applied, leader, leaderEpoch, role, isr>>
        BY Zenon DEF Propose
  <1>3. /\ Len(raftLog') = Len(raftLog) + 1
        /\ \A i \in 1..k : raftLog'[i] = raftLog[i]
        /\ \A i : CurrentEpoch(i, k)' <=> CurrentEpoch(i, k)
        /\ ReplayedISR(k)' = ReplayedISR(k)
        BY ProposeKeepsPrefixes, Zenon
  <1>4. leaderEpoch[n] \in 1..k
        BY <1>0, Zenon DEF ViewInv, CurrentEpoch
  <1>5. CurrentEpoch(leaderEpoch[n], applied[n])'
        BY <1>0, <1>2, <1>3, Zenon DEF ViewInv, CurrentEpoch
  <1>6. ReplayedISR(applied[n])' = ReplayedISR(k)
        BY <1>0, <1>2, <1>3, Zenon DEF ReplayedISR
  <1> QED BY <1>0, <1>1, <1>2, <1>3, <1>4, <1>5, <1>6 DEF ViewInv

LEMMA ApplyView ==
  ASSUME TypeOK, ViewInv, NEW n \in Server, Apply(n)
  PROVE  ViewInv'
  <1> DEFINE e == applied[n] + 1
             o == raftLog[e]
  <1>1. /\ raftLog' = raftLog
        /\ applied' = [applied EXCEPT ![n] = e]
        /\ role[n] # "down"
        /\ e \in 1..Len(raftLog)
        BY DEF Apply, ViewInv, TypeOK
  <1>2. applied[n] \in Nat /\ leaderEpoch[n] \in 1..applied[n]
        BY Zenon DEF ViewInv, TypeOK, CurrentEpoch
  <1>3. /\ \A i, k : CurrentEpoch(i, k)' <=> CurrentEpoch(i, k)
        /\ \A k : ReplayedISR(k)' = ReplayedISR(k)
        BY <1>1, Zenon DEF CurrentEpoch, ReplayedISR
  <1>4. /\ o.op = "shrink" => ReplayedISR(e) = ReplayedISR(applied[n]) \ {o.server}
        /\ o.op = "expand" => ReplayedISR(e) = ReplayedISR(applied[n]) \cup {o.server}
        /\ o.op = "leader" => ReplayedISR(e) = ReplayedISR(applied[n])
        BY <1>1, <1>2, ReplayStep, Zenon
  <1>5. o.op \in {"shrink", "expand"} => CurrentEpoch(leaderEpoch[n], e)
    <2> SUFFICES ASSUME o.op \in {"shrink", "expand"} PROVE CurrentEpoch(leaderEpoch[n], e)
        BY Zenon
    <2>1. CurrentEpoch(leaderEpoch[n], applied[n])
          BY Zenon DEF ViewInv
    <2>2. (leaderEpoch[n] + 1)..e = ((leaderEpoch[n] + 1)..applied[n]) \cup {e}
          BY <1>2
    <2> QED BY <1>2, <2>1, <2>2 DEF CurrentEpoch, IsLeaderOp
  <1>6. o.op = "leader" => CurrentEpoch(e, e)
        BY <1>1 DEF CurrentEpoch, IsLeaderOp
  <1>7. \A r \in Server \ {n} : /\ applied'[r] = applied[r]
                                /\ leader'[r] = leader[r]
                                /\ leaderEpoch'[r] = leaderEpoch[r]
                                /\ role'[r] = role[r]
                                /\ DOMAIN isr'[r] = DOMAIN isr[r]
    <2>1. CASE ApplyShrinkISR(n, o.server)
          BY <1>1, <2>1, Zenon DEF ApplyShrinkISR, TypeOK
    <2>2. CASE ApplyExpandISR(n, o.server)
          BY <1>1, <2>2, Zenon DEF ApplyExpandISR, TypeOK
    <2>3. CASE ApplyChangeLeader(n, o.server, e)
      <3>1. role' = [role EXCEPT ![n] = "leader"] \/ role' = [role EXCEPT ![n] = "follower"]
            BY <2>3, BecomeFollowerCuts, Zenon DEF ApplyChangeLeader, BecomeLeader
      <3> QED BY <1>1, <2>3, <3>1, Zenon DEF ApplyChangeLeader, TypeOK
    <2> QED BY <2>1, <2>2, <2>3, Zenon DEF Apply
  <1>8. \A r \in Server \ {n} :
            /\ applied'[r] \in 1..Len(raftLog')
            /\ CurrentEpoch(leaderEpoch'[r], applied'[r])
            /\ leader'[r] = raftLog'[leaderEpoch'[r]].server
            /\ role'[r] = "leader" => leader'[r] = r
            /\ role'[r] = "follower" => leader'[r] # r
            /\ role'[r] # "down" => DOMAIN isr'[r] = ReplayedISR(applied'[r])
        BY <1>1, <1>7 DEF ViewInv
  <1>9. /\ applied'[n] \in 1..Len(raftLog')
        /\ CurrentEpoch(leaderEpoch'[n], applied'[n])
        /\ leader'[n] = raftLog'[leaderEpoch'[n]].server
        /\ role'[n] = "leader" => leader'[n] = n
        /\ role'[n] = "follower" => leader'[n] # n
        /\ role'[n] # "down" => DOMAIN isr'[n] = ReplayedISR(applied'[n])
    <2>0. applied'[n] = e
          BY <1>1, Zenon DEF TypeOK
    <2>1. CASE o.op = "shrink" /\ ApplyShrinkISR(n, o.server)
          BY <1>1, <1>4, <1>5, <2>0, <2>1, Zenon DEF ApplyShrinkISR, ViewInv, TypeOK
    <2>2. CASE o.op = "expand" /\ ApplyExpandISR(n, o.server)
          BY <1>1, <1>4, <1>5, <2>0, <2>2, Zenon DEF ApplyExpandISR, ViewInv, TypeOK
    <2>3. CASE o.op = "leader" /\ ApplyChangeLeader(n, o.server, e)
      <3>1. leader'[n] = o.server /\ leaderEpoch'[n] = e /\ isr' = isr
            BY <2>3, Zenon DEF ApplyChangeLeader, TypeOK
      <3>2. role'[n] = IF o.server = n THEN "leader" ELSE "follower"
            BY <2>3, BecomeFollowerCuts DEF ApplyChangeLeader, BecomeLeader, TypeOK
      <3> QED BY <1>1, <1>4, <1>6, <2>0, <2>3, <3>1, <3>2, Zenon DEF ViewInv
    <2> QED BY <2>1, <2>2, <2>3, Zenon DEF Apply
  <1>10. \A r \in Server :
            /\ applied'[r] \in 1..Len(raftLog')
            /\ CurrentEpoch(leaderEpoch'[r], applied'[r])
            /\ leader'[r] = raftLog'[leaderEpoch'[r]].server
            /\ role'[r] = "leader" => leader'[r] = r
            /\ role'[r] = "follower" => leader'[r] # r
            /\ role'[r] # "down" => DOMAIN isr'[r] = ReplayedISR(applied'[r])
        BY <1>8, <1>9, Zenon
  <1> QED BY <1>1, <1>10, ViewOf, Zenon

LEMMA CrashView ==
  ASSUME TypeOK, ViewInv, NEW n \in Server, Crash(n)
  PROVE  ViewInv'
  <1>1. /\ UNCHANGED <<raftLog, applied, leader, leaderEpoch>>
        /\ role' = [role EXCEPT ![n] = "down"]
        /\ isr' = [isr EXCEPT ![n] = <<>>]
        BY Zenon DEF Crash, metaVars
  <1>2. \A r \in Server : role'[r] # "down" => role'[r] = role[r] /\ isr'[r] = isr[r]
        BY <1>1, Zenon DEF TypeOK
  <1> QED BY <1>1, <1>2, ViewOf DEF ViewInv

LEMMA RestartView ==
  ASSUME TypeOK, ViewInv, NEW n \in Server, Restart(n)
  PROVE  ViewInv'
  <1>1. PICK k \in applied[n]..Len(raftLog), e \in 1..Len(raftLog) :
            /\ CurrentEpoch(e, k)
            /\ applied' = [applied EXCEPT ![n] = k]
            /\ leaderEpoch' = [leaderEpoch EXCEPT ![n] = e]
            /\ leader' = [leader EXCEPT ![n] = raftLog[e].server]
            /\ isr' = [isr EXCEPT ![n] = ReplayedOffsets(n, k)]
            /\ \/ raftLog[e].server = n /\ role' = [role EXCEPT ![n] = "leader"]
               \/ /\ raftLog[e].server # n
                  /\ BecomeFollower(n, ReopenEpochs(epochs[n], log[n]), hw[n])
        BY Zenon DEF Restart, LeadsIn
  <1>2. raftLog' = raftLog /\ applied[n] \in 1..Len(raftLog)
        BY Zenon DEF Restart, LeadsIn, ViewInv
  <1>3. role' = [role EXCEPT ![n] = IF raftLog[e].server = n THEN "leader" ELSE "follower"]
        BY <1>1, Zenon DEF BecomeFollower
  <1>4. \A r \in Server \ {n} : /\ applied'[r] = applied[r]
                                /\ leader'[r] = leader[r]
                                /\ leaderEpoch'[r] = leaderEpoch[r]
                                /\ role'[r] = role[r]
                                /\ isr'[r] = isr[r]
        BY <1>1, <1>3, Zenon DEF TypeOK
  <1>5. /\ applied'[n] = k
        /\ leaderEpoch'[n] = e
        /\ leader'[n] = raftLog[e].server
        /\ role'[n] = IF raftLog[e].server = n THEN "leader" ELSE "follower"
        /\ DOMAIN isr'[n] = ReplayedISR(k)
        BY <1>1, <1>3, Zenon DEF TypeOK, ReplayedOffsets
  <1>6. \A r \in Server :
            /\ applied'[r] \in 1..Len(raftLog')
            /\ CurrentEpoch(leaderEpoch'[r], applied'[r])
            /\ leader'[r] = raftLog'[leaderEpoch'[r]].server
            /\ role'[r] = "leader" => leader'[r] = r
            /\ role'[r] = "follower" => leader'[r] # r
            /\ role'[r] # "down" => DOMAIN isr'[r] = ReplayedISR(applied'[r])
    <2>1. k \in 1..Len(raftLog)
          BY <1>2
    <2>2. \A r \in Server \ {n} :
            /\ applied'[r] \in 1..Len(raftLog')
            /\ CurrentEpoch(leaderEpoch'[r], applied'[r])
            /\ leader'[r] = raftLog'[leaderEpoch'[r]].server
            /\ role'[r] = "leader" => leader'[r] = r
            /\ role'[r] = "follower" => leader'[r] # r
            /\ role'[r] # "down" => DOMAIN isr'[r] = ReplayedISR(applied'[r])
          BY <1>2, <1>4 DEF ViewInv
    <2>3. /\ applied'[n] \in 1..Len(raftLog')
          /\ CurrentEpoch(leaderEpoch'[n], applied'[n])
          /\ leader'[n] = raftLog'[leaderEpoch'[n]].server
          BY <1>1, <1>2, <1>5, <2>1, Zenon
    <2>4. /\ role'[n] = "leader" => leader'[n] = n
          /\ role'[n] = "follower" => leader'[n] # n
          /\ DOMAIN isr'[n] = ReplayedISR(applied'[n])
          BY <1>5, Zenon
    <2> TAKE r \in Server
    <2>5. CASE r = n
          BY <2>3, <2>4, <2>5, Zenon
    <2> QED BY <2>2, <2>5, Zenon
  <1> QED BY <1>2, <1>6, ViewOf, Zenon

LEMMA NextView == TypeOK /\ ViewInv /\ [Next]_vars => ViewInv'
  <1> SUFFICES ASSUME TypeOK, ViewInv, [Next]_vars PROVE ViewInv'
      BY Zenon
  <1>1. CASE UNCHANGED vars
        BY <1>1, ViewUnchanged, Zenon DEF vars, metaVars
  <1>2. ASSUME NEW n \in Server, Publish(n) PROVE ViewInv'
        BY <1>2, ViewUnchanged, ReportOffsetDomain, Zenon DEF Publish
  <1>3. ASSUME NEW n \in Server, Commit(n) PROVE ViewInv'
        BY <1>3, ViewUnchanged, Zenon DEF Commit
  <1>4. ASSUME NEW n \in Server, NEW m \in Server, Replicate(n, m) PROVE ViewInv'
        BY <1>4, ViewUnchanged, ReportOffsetDomain, Zenon DEF Replicate, Takes, Batches
  <1>5. ASSUME NEW n \in Server,
               RequestReplication(n) \/ RequestTimeout(n) \/ ReceiveResponse(n) \/ CheckpointHW(n)
        PROVE  ViewInv'
        BY <1>5, ViewUnchanged, Zenon
           DEF RequestReplication, FetchFrom, RequestTimeout, ReceiveResponse, Accepts, CheckpointHW, leaderVars
  <1>6. ASSUME NEW n \in Server, NEW m \in Server,
               ShrinkISR(n, m) \/ ExpandISR(n, m) \/ ElectLeader(n, m)
        PROVE  ViewInv'
    <2>1. \E op \in Ops : Propose(op, m)
          BY <1>6, Zenon DEF ShrinkISR, ExpandISR, ElectLeader, Candidates, Propose
    <2> QED BY <2>1, ProposeView, Zenon
  <1> QED BY <1>1, <1>2, <1>3, <1>4, <1>5, <1>6, ApplyView, CrashView, RestartView, Zenon DEF Next

\* Servers that applied the same prefix agree on the leader, the leader epoch
\* and the ISR, for any number of servers, crashes and recoveries: Apply, one
\* operation at a time, and Restart, which replays many, both lead to the state
\* the prefix defines.
THEOREM ViewsAgreement == Spec => []ViewsAgree
  <1>1. TypeOK /\ ViewInv => ViewsAgree
    <2> SUFFICES ASSUME TypeOK, ViewInv, NEW n \in Server, NEW m \in Server,
                        role[n] # "down", role[m] # "down", applied[n] = applied[m]
                 PROVE  /\ leader[n] = leader[m]
                        /\ leaderEpoch[n] = leaderEpoch[m]
                        /\ DOMAIN isr[n] = DOMAIN isr[m]
        BY Zenon DEF ViewsAgree
    <2>1. applied[n] \in Nat /\ CurrentEpoch(leaderEpoch[n], applied[n])
                             /\ CurrentEpoch(leaderEpoch[m], applied[n])
          BY Zenon DEF TypeOK, ViewInv
    <2>2. leaderEpoch[n] = leaderEpoch[m]
          BY <2>1, CurrentEpochUnique, Zenon
    <2> QED BY <2>2, Zenon DEF ViewInv
  <1> QED BY <1>1, InitView, NextView, TypeCorrect, PTL DEF Spec

-----------------------------------------------------------------------------
(* Where messages are copied to. *)

\* A request in flight is not newer than the epoch its sender is in, and one of
\* the same epoch still names the sender's newest offset.
Aligned(f) ==
    /\ fetch[f].epoch <= leaderEpoch[f]
    /\ role[f] = "down" => fetch[f].state = "idle"
    /\ fetch[f].state # "idle" /\ role[f] = "follower" /\ fetch[f].epoch = leaderEpoch[f]
       => fetch[f].offset = Newest(log[f])

AlignInv == \A f \in Server : Aligned(f)

-----------------------------------------------------------------------------
(* Epochs. *)

\* What a step may do to the metadata log and to the epochs servers are in.
LEMMA MetadataSteps ==
  ASSUME [Next]_vars
  PROVE  \/ raftLog' = raftLog /\ leaderEpoch' = leaderEpoch
         \/ raftLog' = raftLog /\ \E n \in Server : Apply(n) \/ Restart(n)
         \/ /\ leaderEpoch' = leaderEpoch
            /\ \E op \in Ops, m \in Server : Propose(op, m)
  <1> DEFINE Same == raftLog' = raftLog /\ leaderEpoch' = leaderEpoch
  <1>1. ASSUME NEW n \in Server, Publish(n) \/ Commit(n) \/ CheckpointHW(n) \/ Crash(n) PROVE Same
        BY <1>1, Zenon DEF Publish, Commit, CheckpointHW, Crash, metaVars
  <1>2. ASSUME NEW n \in Server, RequestReplication(n) \/ RequestTimeout(n) PROVE Same
        BY <1>2, Zenon DEF RequestReplication, FetchFrom, RequestTimeout, metaVars
  <1>3. ASSUME NEW n \in Server, ReceiveResponse(n) PROVE Same
        BY <1>3, Zenon DEF ReceiveResponse, Accepts, metaVars
  <1>4. ASSUME NEW n \in Server, NEW m \in Server, Replicate(n, m) PROVE Same
        BY <1>4, Zenon DEF Replicate, Takes, Batches, metaVars
  <1>5. ASSUME NEW n \in Server, Apply(n) PROVE raftLog' = raftLog
        BY <1>5, Zenon DEF Apply
  <1>6. ASSUME NEW n \in Server, Restart(n) PROVE raftLog' = raftLog
        BY <1>6, Zenon DEF Restart, LeadsIn
  <1>7. ASSUME NEW n \in Server, NEW m \in Server,
               ShrinkISR(n, m) \/ ExpandISR(n, m) \/ ElectLeader(n, m)
        PROVE  leaderEpoch' = leaderEpoch /\ \E op \in Ops : Propose(op, m)
        BY <1>7, Zenon DEF ShrinkISR, ExpandISR, ElectLeader, Candidates, Propose
  <1>8. ASSUME UNCHANGED vars PROVE Same
        BY <1>8, Zenon DEF vars, metaVars
  <1> HIDE DEF Same
  <1>9. Same \/ (\E n \in Server : Apply(n) \/ Restart(n))
             \/ (\E n, m \in Server : ShrinkISR(n, m) \/ ExpandISR(n, m) \/ ElectLeader(n, m))
        BY <1>1, <1>2, <1>3, <1>4, <1>8, Zenon DEF Next
  <1> QED BY <1>5, <1>6, <1>7, <1>9, Zenon DEF Same

\* The metadata log is only appended to, and the epoch a server is in only
\* grows: also a restarted server finds no older epoch than it had.
LEMMA EpochsGrow ==
  ASSUME TypeOK, ViewInv, ViewInv', [Next]_vars
  PROVE  /\ \A i \in 1..Len(raftLog) : i \in 1..Len(raftLog') /\ raftLog'[i] = raftLog[i]
         /\ \A n \in Server : /\ leaderEpoch[n] <= leaderEpoch'[n]
                              /\ leaderEpoch'[n] = leaderEpoch[n] => leader'[n] = leader[n]
  <1>1. \A i \in 1..Len(raftLog) : i \in 1..Len(raftLog') /\ raftLog'[i] = raftLog[i]
    <2>1. CASE raftLog' = raftLog
          BY <2>1, Zenon
    <2>2. ASSUME NEW op \in Ops, NEW m \in Server, Propose(op, m)
          PROVE  \A i \in 1..Len(raftLog) : i \in 1..Len(raftLog') /\ raftLog'[i] = raftLog[i]
      <3>1. Len(raftLog) \in 0..Len(raftLog) /\ Len(raftLog) \in Nat
            BY DEF TypeOK
      <3> QED BY <2>2, <3>1, ProposeKeepsPrefixes
    <2> QED BY <2>1, <2>2, MetadataSteps, Zenon
  <1>2. \A n \in Server : leaderEpoch[n] <= leaderEpoch'[n]
    <2>0. leaderEpoch \in [Server -> Nat]
          BY Zenon DEF TypeOK
    <2>1. CASE leaderEpoch' = leaderEpoch
          BY <2>0, <2>1
    <2>2. ASSUME NEW n \in Server, Apply(n) PROVE \A r \in Server : leaderEpoch[r] <= leaderEpoch'[r]
      <3>1. leaderEpoch[n] \in 1..applied[n] /\ applied[n] \in Nat
            BY DEF ViewInv, CurrentEpoch, TypeOK
      <3>2. leaderEpoch' = leaderEpoch \/ leaderEpoch' = [leaderEpoch EXCEPT ![n] = applied[n] + 1]
            BY <2>2, Zenon DEF Apply, ApplyShrinkISR, ApplyExpandISR, ApplyChangeLeader
      <3> QED BY <2>0, <3>1, <3>2
    <2>3. ASSUME NEW n \in Server, Restart(n) PROVE \A r \in Server : leaderEpoch[r] <= leaderEpoch'[r]
      <3>1. PICK k \in applied[n]..Len(raftLog), e \in 1..Len(raftLog) :
                CurrentEpoch(e, k) /\ leaderEpoch' = [leaderEpoch EXCEPT ![n] = e]
            BY <2>3, Zenon DEF Restart, LeadsIn
      <3>2. CurrentEpoch(leaderEpoch[n], applied[n]) /\ applied[n] \in Nat
            BY Zenon DEF ViewInv, TypeOK
      <3>3. leaderEpoch[n] <= e
            BY <3>1, <3>2 DEF CurrentEpoch
      <3> QED BY <2>0, <3>1, <3>3
    <2> QED BY <2>1, <2>2, <2>3, MetadataSteps, Zenon
  <1>3. ASSUME NEW n \in Server, leaderEpoch'[n] = leaderEpoch[n]
        PROVE  leader'[n] = leader[n]
    <2>1. leaderEpoch[n] \in 1..applied[n] /\ applied[n] \in 1..Len(raftLog)
          BY Zenon DEF ViewInv, CurrentEpoch
    <2>2. leaderEpoch[n] \in 1..Len(raftLog)
          BY <2>1 DEF TypeOK
    <2> QED BY <1>1, <1>3, <2>2 DEF ViewInv
  <1> QED BY <1>1, <1>2, <1>3, Zenon

-----------------------------------------------------------------------------
(* Requests and responses. *)

LEMMA InitAlign == Init => AlignInv
  BY DEF Init, AlignInv, Aligned, NoFetch

\* Each step of Next leaves the request of a server alone, or ends it, or is one
\* of the steps that are treated one by one below.
LEMMA AlignedSame ==
  ASSUME NEW f \in Server, Aligned(f), fetch'[f] = fetch[f], role'[f] = role[f],
         leaderEpoch'[f] = leaderEpoch[f], log'[f] = log[f]
  PROVE  Aligned(f)'
  BY Zenon DEF Aligned, Newest

LEMMA AlignedIdle ==
  ASSUME NEW f \in Server, TypeOK', fetch'[f].state = "idle",
         fetch'[f].epoch = 0 \/ (fetch'[f].epoch <= leaderEpoch[f] /\ leaderEpoch[f] <= leaderEpoch'[f]),
         leaderEpoch[f] \in Nat
  PROVE  Aligned(f)'
  <1>1. leaderEpoch'[f] \in Nat /\ fetch'[f] \in Fetch
        BY Zenon DEF TypeOK
  <1>2. fetch'[f].epoch \in Nat
        BY <1>1, Zenon DEF Fetch
  <1> QED BY <1>1, <1>2 DEF Aligned

LEMMA NextAlign ==
  ASSUME TypeOK, TypeOK', ViewInv, ViewInv', AlignInv, [Next]_vars
  PROVE  AlignInv'
  <1> SUFFICES ASSUME NEW f \in Server PROVE Aligned(f)'
      BY Zenon DEF AlignInv
  <1>1. /\ Aligned(f) /\ leaderEpoch[f] \in Nat /\ fetch[f] \in Fetch
        /\ log \in [Server -> Seq(Message)] /\ fetch \in [Server -> Fetch]
        /\ role \in [Server -> {"leader", "follower", "down"}] /\ leaderEpoch \in [Server -> Nat]
        BY Zenon DEF AlignInv, TypeOK
  <1>2. leaderEpoch[f] <= leaderEpoch'[f]
        BY EpochsGrow, Zenon
  <1>3. CASE UNCHANGED vars
        BY <1>1, <1>3, AlignedSame, Zenon DEF vars
  <1>4. ASSUME NEW n \in Server, Publish(n) PROVE Aligned(f)'
    <2>1. /\ UNCHANGED <<fetch, role, leaderEpoch>> /\ role[n] = "leader"
          /\ \E l : log' = [log EXCEPT ![n] = l]
          BY <1>4, Zenon DEF Publish, metaVars
    <2>2. CASE f = n
          BY <1>1, <2>1, <2>2, Zenon DEF Aligned
    <2>3. CASE f # n
          BY <1>1, <2>1, <2>3, AlignedSame, Zenon
    <2> QED BY <2>2, <2>3, Zenon
  <1>5. ASSUME NEW n \in Server, Commit(n) \/ CheckpointHW(n) PROVE Aligned(f)'
        BY <1>1, <1>5, AlignedSame, Zenon DEF Commit, CheckpointHW, metaVars
  <1>6. ASSUME NEW n \in Server, NEW m \in Server, Replicate(n, m) PROVE Aligned(f)'
    <2>1. UNCHANGED <<log, role, leaderEpoch>> /\ fetch[m].state = "request"
          BY <1>6, Zenon DEF Replicate, Takes, Batches, metaVars, logVars
    <2>2. \E batch, w : fetch' = [fetch EXCEPT ![m].state = "response", ![m].hw = w, ![m].entries = batch]
      <3>1. CASE fetch' = [fetch EXCEPT ![m].state = "response", ![m].hw = hw[n]]
        <4>1. fetch' = [fetch EXCEPT ![m].state = "response", ![m].hw = hw[n], ![m].entries = fetch[m].entries]
              BY <1>1, <3>1, Zenon DEF Fetch
        <4> QED BY <4>1, Zenon
      <3> QED BY <1>6, <3>1, Zenon DEF Replicate, Takes, Batches
    <2>3. fetch'[f].offset = fetch[f].offset /\ fetch'[f].epoch = fetch[f].epoch
          BY <1>1, <2>2 DEF Fetch
    <2>4. f # m => fetch'[f].state = fetch[f].state
          BY <1>1, <2>2, Zenon
    <2> QED BY <1>1, <2>1, <2>3, <2>4, Zenon DEF Aligned, Newest
  <1>7. ASSUME NEW n \in Server, RequestReplication(n) PROVE Aligned(f)'
    <2>1. /\ UNCHANGED <<log, role, leaderEpoch>> /\ role[n] = "follower"
          /\ fetch' = [fetch EXCEPT ![n] = [NoFetch EXCEPT !.state = "request",
                                                           !.offset = Newest(log[n]),
                                                           !.epoch = leaderEpoch[n]]]
          BY <1>7, Zenon DEF RequestReplication, FetchFrom, metaVars, logVars
    <2>2. CASE f = n
      <3>1. fetch'[f].epoch = leaderEpoch[f] /\ fetch'[f].offset = Newest(log[f])
            BY <1>1, <2>1, <2>2, Zenon DEF NoFetch
      <3> QED BY <1>1, <2>1, <2>2, <3>1 DEF Aligned, Newest
    <2>3. CASE f # n
          BY <1>1, <2>1, <2>3, AlignedSame, Zenon
    <2> QED BY <2>2, <2>3, Zenon
  <1>8. ASSUME NEW n \in Server, RequestTimeout(n) \/ ReceiveResponse(n) PROVE Aligned(f)'
    <2>1. /\ UNCHANGED <<role, leaderEpoch>> /\ fetch' = [fetch EXCEPT ![n] = NoFetch]
          /\ log' = log \/ \E l : log' = [log EXCEPT ![n] = l]
          BY <1>8, Zenon DEF RequestTimeout, ReceiveResponse, Accepts, metaVars, logVars
    <2>2. CASE f = n
          BY <1>1, <2>1, <2>2, AlignedIdle, Zenon DEF NoFetch
    <2>3. CASE f # n
          BY <1>1, <2>1, <2>3, AlignedSame, Zenon
    <2> QED BY <2>2, <2>3, Zenon
  <1>9. ASSUME NEW n \in Server, NEW m \in Server,
               ShrinkISR(n, m) \/ ExpandISR(n, m) \/ ElectLeader(n, m)
        PROVE  Aligned(f)'
    <2>1. UNCHANGED <<fetch, role, leaderEpoch, log>>
          BY <1>9, Zenon DEF ShrinkISR, ExpandISR, ElectLeader, Candidates, Propose, logVars
    <2> QED BY <1>1, <2>1, AlignedSame, Zenon
  <1>10. ASSUME NEW n \in Server, Apply(n) PROVE Aligned(f)'
    <2>1. fetch' = fetch /\ role[n] # "down"
          BY <1>10, Zenon DEF Apply
    <2>2. CASE UNCHANGED <<role, leaderEpoch, log>>
          BY <1>1, <2>1, <2>2, AlignedSame, Zenon
    <2>3. CASE ApplyChangeLeader(n, raftLog[applied[n] + 1].server, applied[n] + 1)
      <3>1. leaderEpoch' = [leaderEpoch EXCEPT ![n] = applied[n] + 1]
            BY <2>3, Zenon DEF ApplyChangeLeader
      <3>2. \E r : role' = [role EXCEPT ![n] = r] /\ r # "down"
            BY <2>3, BecomeFollowerCuts DEF ApplyChangeLeader, BecomeLeader
      <3>3. log' = log \/ \E l : log' = [log EXCEPT ![n] = l]
            BY <2>3, BecomeFollowerCuts, Zenon DEF ApplyChangeLeader, BecomeLeader
      <3>4. CASE f = n
        <4>1. leaderEpoch[n] \in 1..applied[n] /\ applied[n] \in Nat
              BY DEF ViewInv, CurrentEpoch, TypeOK
        <4>2. fetch'[f].epoch < leaderEpoch'[f] /\ role'[f] # "down" /\ fetch[f].epoch \in Nat
              BY <1>1, <2>1, <3>1, <3>2, <3>4, <4>1 DEF Aligned, Fetch
        <4> QED BY <1>1, <2>1, <3>1, <3>4, <4>1, <4>2 DEF Aligned
      <3>5. CASE f # n
            BY <1>1, <2>1, <3>1, <3>2, <3>3, <3>5, AlignedSame, Zenon
      <3> QED BY <3>4, <3>5, Zenon
    <2> QED BY <1>10, <2>2, <2>3, Zenon DEF Apply, ApplyShrinkISR, ApplyExpandISR
  <1>11. ASSUME NEW n \in Server, Crash(n) PROVE Aligned(f)'
    <2>1. /\ leaderEpoch' = leaderEpoch /\ fetch' = [fetch EXCEPT ![n] = NoFetch]
          /\ role' = [role EXCEPT ![n] = "down"] /\ (log' = log \/ \E l : log' = [log EXCEPT ![n] = l])
          BY <1>11, Zenon DEF Crash, metaVars
    <2>2. CASE f = n
          BY <1>1, <2>1, <2>2, AlignedIdle, Zenon DEF NoFetch
    <2>3. CASE f # n
          BY <1>1, <2>1, <2>3, AlignedSame, Zenon
    <2> QED BY <2>2, <2>3, Zenon
  <1>12. ASSUME NEW n \in Server, Restart(n) PROVE Aligned(f)'
    <2>1. /\ fetch' = fetch /\ role[n] = "down"
          /\ \E e : leaderEpoch' = [leaderEpoch EXCEPT ![n] = e]
          /\ \E r : role' = [role EXCEPT ![n] = r]
          /\ log' = log \/ \E l : log' = [log EXCEPT ![n] = l]
          BY <1>12, BecomeFollowerCuts, Zenon DEF Restart, LeadsIn
    <2>2. CASE f = n
          BY <1>1, <1>2, <2>1, <2>2, AlignedIdle, Zenon DEF Aligned
    <2>3. CASE f # n
          BY <1>1, <2>1, <2>3, AlignedSame, Zenon
    <2> QED BY <2>2, <2>3, Zenon
  <1> QED BY <1>3, <1>4, <1>5, <1>6, <1>7, <1>8, <1>9, <1>10, <1>11, <1>12, Zenon DEF Next

\* A batch that a follower accepts starts right after its newest message: the
\* epoch check of handleReplicationResponse is enough to rule out a gap, however
\* responses, elections and restarts interleave.
THEOREM ResponseAlignment == Spec => []ResponseAligned
  <1>1. AlignInv => ResponseAligned
        BY Zenon DEF AlignInv, Aligned, ResponseAligned
  <1>2. TypeOK /\ TypeOK' /\ ViewInv /\ AlignInv /\ [Next]_vars => AlignInv'
        BY NextView, NextAlign, Zenon
  <1> QED BY <1>1, <1>2, InitAlign, InitView, NextView, TypeCorrect, PTL DEF Spec

-----------------------------------------------------------------------------
(* Copies of messages. *)

LEMMA CopiesDef ==
  ASSUME TypeOK
  PROVE  \A c : c \in Copies <=>
            \/ \E n \in Server : \E i \in 1..Len(log[n]) : c = <<i, log[n][i]>>
            \/ \E f \in Server : \E j \in 1..Len(fetch[f].entries) :
                  c = <<fetch[f].offset + 1 + j, fetch[f].entries[j]>>
  <1>1. /\ \A n \in Server : DOMAIN log[n] = 1..Len(log[n])
        /\ \A f \in Server : DOMAIN fetch[f].entries = 1..Len(fetch[f].entries)
        BY DEF TypeOK, Fetch
  <1> SUFFICES ASSUME NEW c
               PROVE  c \in Copies <=>
                        \/ \E n \in Server : \E i \in 1..Len(log[n]) : c = <<i, log[n][i]>>
                        \/ \E f \in Server : \E j \in 1..Len(fetch[f].entries) :
                              c = <<fetch[f].offset + 1 + j, fetch[f].entries[j]>>
      BY Zenon
  <1> DEFINE Stored(n) == {<<i, log[n][i]>> : i \in DOMAIN log[n]}
             Sent(f) == {<<fetch[f].offset + 1 + j, fetch[f].entries[j]>> : j \in DOMAIN fetch[f].entries}
  <1>2. Copies = (UNION {Stored(n) : n \in Server}) \cup (UNION {Sent(f) : f \in Server})
        BY Zenon DEF Copies
  <1>3. \A n \in Server : c \in Stored(n) <=> \E i \in 1..Len(log[n]) : c = <<i, log[n][i]>>
        BY <1>1, Zenon
  <1>4. \A f \in Server : c \in Sent(f) <=> \E j \in 1..Len(fetch[f].entries) :
                              c = <<fetch[f].offset + 1 + j, fetch[f].entries[j]>>
        BY <1>1, Zenon
  <1>5. c \in UNION {Stored(n) : n \in Server} <=> \E n \in Server : c \in Stored(n)
        BY SMT
  <1>6. c \in UNION {Sent(f) : f \in Server} <=> \E f \in Server : c \in Sent(f)
        BY SMT
  <1> HIDE DEF Stored, Sent
  <1>7. c \in Copies <=> (\E n \in Server : c \in Stored(n)) \/ (\E f \in Server : c \in Sent(f))
        BY <1>2, <1>5, <1>6, SMT
  <1> QED BY <1>3, <1>4, <1>7, SMT

LEMMA CopiesDefNext ==
  ASSUME TypeOK'
  PROVE  \A c : c \in Copies' <=>
            \/ \E n \in Server : \E i \in 1..Len(log'[n]) : c = <<i, log'[n][i]>>
            \/ \E f \in Server : \E j \in 1..Len(fetch'[f].entries) :
                  c = <<fetch'[f].offset + 1 + j, fetch'[f].entries[j]>>
  <1>1. /\ \A n \in Server : DOMAIN log'[n] = 1..Len(log'[n])
        /\ \A f \in Server : DOMAIN fetch'[f].entries = 1..Len(fetch'[f].entries)
        BY DEF TypeOK, Fetch
  <1> SUFFICES ASSUME NEW c
               PROVE  c \in Copies' <=>
                        \/ \E n \in Server : \E i \in 1..Len(log'[n]) : c = <<i, log'[n][i]>>
                        \/ \E f \in Server : \E j \in 1..Len(fetch'[f].entries) :
                              c = <<fetch'[f].offset + 1 + j, fetch'[f].entries[j]>>
      BY Zenon
  <1> DEFINE Stored(n) == {<<i, log[n][i]>> : i \in DOMAIN log[n]}
             Sent(f) == {<<fetch[f].offset + 1 + j, fetch[f].entries[j]>> : j \in DOMAIN fetch[f].entries}
  <1>2. Copies' = (UNION {Stored(n)' : n \in Server}) \cup (UNION {Sent(f)' : f \in Server})
        BY Zenon DEF Copies
  <1>3. \A n \in Server : c \in Stored(n)' <=> \E i \in 1..Len(log'[n]) : c = <<i, log'[n][i]>>
        BY <1>1, Zenon
  <1>4. \A f \in Server : c \in Sent(f)' <=> \E j \in 1..Len(fetch'[f].entries) :
                              c = <<fetch'[f].offset + 1 + j, fetch'[f].entries[j]>>
        BY <1>1, Zenon
  <1>5. c \in UNION {Stored(n)' : n \in Server} <=> \E n \in Server : c \in Stored(n)'
        BY SMT
  <1>6. c \in UNION {Sent(f)' : f \in Server} <=> \E f \in Server : c \in Sent(f)'
        BY SMT
  <1> HIDE DEF Stored, Sent
  <1>7. c \in Copies' <=> (\E n \in Server : c \in Stored(n)') \/ (\E f \in Server : c \in Sent(f)')
        BY <1>2, <1>5, <1>6, SMT
  <1> QED BY <1>3, <1>4, <1>7, SMT

\* No copy is new when every log is cut or left alone, and every batch on its
\* way was on its way before.
LEMMA CopiesKept ==
  ASSUME TypeOK, TypeOK',
         \A n \in Server : /\ Len(log'[n]) <= Len(log[n])
                           /\ \A i \in 1..Len(log'[n]) : log'[n][i] = log[n][i],
         \A f \in Server : \/ fetch'[f].entries = <<>>
                           \/ fetch'[f].entries = fetch[f].entries /\ fetch'[f].offset = fetch[f].offset
  PROVE  Copies' \subseteq Copies
  <1> SUFFICES ASSUME NEW c \in Copies' PROVE c \in Copies
      BY Zenon
  <1>1. ASSUME NEW n \in Server, NEW i \in 1..Len(log'[n]), c = <<i, log'[n][i]>>
        PROVE  c \in Copies
    <2>1. Len(log[n]) \in Nat /\ Len(log'[n]) \in Nat
          BY DEF TypeOK
    <2>2. i \in 1..Len(log[n]) /\ c = <<i, log[n][i]>>
          BY <1>1, <2>1
    <2> QED BY <2>2, CopiesDef, Zenon
  <1>2. ASSUME NEW f \in Server, NEW j \in 1..Len(fetch'[f].entries),
               c = <<fetch'[f].offset + 1 + j, fetch'[f].entries[j]>>
        PROVE  c \in Copies
    <2>1. fetch'[f].entries # <<>>
          OBVIOUS
    <2>2. fetch'[f].entries = fetch[f].entries /\ fetch'[f].offset = fetch[f].offset
          BY <2>1, Zenon
    <2> QED BY <1>2, <2>2, CopiesDef, Zenon
  <1> QED BY <1>1, <1>2, CopiesDefNext

\* A cut log is a prefix of the log.
LEMMA CutIsPrefix ==
  ASSUME TypeOK, NEW n \in Server, NEW length \in 0..Len(log[n]),
         log' = [log EXCEPT ![n] = SubSeq(log[n], 1, length)]
  PROVE  \A r \in Server : /\ Len(log'[r]) <= Len(log[r])
                           /\ \A i \in 1..Len(log'[r]) : log'[r][i] = log[r][i]
  <1>1. log \in [Server -> Seq(Message)] /\ log[n] \in Seq(Message) /\ Len(log[n]) \in Nat
        BY DEF TypeOK
  <1>2. /\ Len(SubSeq(log[n], 1, length)) = length
        /\ \A i \in 1..length : SubSeq(log[n], 1, length)[i] = log[n][i]
        BY <1>1, SubSeqProperties
  <1> SUFFICES ASSUME NEW r \in Server
               PROVE  /\ Len(log'[r]) <= Len(log[r])
                      /\ \A i \in 1..Len(log'[r]) : log'[r][i] = log[r][i]
      BY Zenon
  <1>3. CASE r = n
        BY <1>1, <1>2, <1>3
  <1>4. CASE r # n
    <2>1. log'[r] = log[r] /\ log[r] \in Seq(Message)
          BY <1>1, <1>4, Zenon
    <2> QED BY <2>1
  <1> QED BY <1>3, <1>4, Zenon

LEMMA PrefixOf ==
  ASSUME NEW l \in Seq(Message), NEW k \in 0..Len(l)
  PROVE  /\ SubSeq(l, 1, k) \in Seq(Message)
         /\ Len(SubSeq(l, 1, k)) = k
         /\ \A i \in 1..k : SubSeq(l, 1, k)[i] = l[i]
  <1>1. \A i \in 1..k : l[i] \in Message
        OBVIOUS
  <1> QED BY <1>1, SubSeqProperties

LEMMA BatchOf ==
  ASSUME NEW l \in Seq(Message), NEW a \in Nat \ {0}, NEW b \in a..Len(l)
  PROVE  /\ Len(SubSeq(l, a, b)) = b - a + 1
         /\ \A k \in 1..(b - a + 1) : SubSeq(l, a, b)[k] = l[a + k - 1]
  <1>1. \A i \in a..b : l[i] \in Message
        OBVIOUS
  <1> QED BY <1>1, SubSeqProperties

LEMMA ReplicateCopies ==
  ASSUME TypeOK, TypeOK', NEW n \in Server, NEW m \in Server, Replicate(n, m)
  PROVE  Copies' \subseteq Copies
  <1> DEFINE from == fetch[m].offset
  <1>0. log' = log
        BY Zenon DEF Replicate, Takes, Batches, logVars
  <1>b. log \in [Server -> Seq(Message)] /\ fetch \in [Server -> Fetch]
        BY Zenon DEF TypeOK
  <1>1. log[n] \in Seq(Message) /\ fetch \in [Server -> Fetch] /\ Len(log[n]) \in Nat
        BY <1>b
  <1>a. from \in Int /\ from + 2 \in Nat \ {0}
        BY <1>1 DEF Fetch, Offset
  <1>2. CASE fetch' = [fetch EXCEPT ![m].state = "response", ![m].hw = hw[n]]
    <2>1. \A f \in Server : fetch'[f].entries = fetch[f].entries /\ fetch'[f].offset = fetch[f].offset
          BY <1>1, <1>2, Zenon DEF Fetch
    <2>2. \A r \in Server : Len(log'[r]) <= Len(log[r])
          BY <1>0 DEF TypeOK
    <2> QED BY <1>0, <2>1, <2>2, CopiesKept, Zenon
  <1>3. ASSUME NEW to \in (from + 2)..Len(log[n]),
               fetch' = [fetch EXCEPT ![m].state = "response", ![m].hw = hw[n],
                                      ![m].entries = SubSeq(log[n], from + 2, to)]
        PROVE  Copies' \subseteq Copies
    <2> SUFFICES ASSUME NEW c \in Copies' PROVE c \in Copies
        BY Zenon
    <2>1. ASSUME NEW r \in Server, NEW i \in 1..Len(log'[r]), c = <<i, log'[r][i]>>
          PROVE  c \in Copies
          BY <1>0, <2>1, CopiesDef, Zenon
    <2>2. ASSUME NEW f \in Server, NEW j \in 1..Len(fetch'[f].entries),
                 c = <<fetch'[f].offset + 1 + j, fetch'[f].entries[j]>>
          PROVE  c \in Copies
      <3>1. CASE f # m
        <4>1. fetch'[f] = fetch[f]
              BY <1>1, <1>3, <3>1, Zenon
        <4> QED BY <2>2, <4>1, CopiesDef, Zenon
      <3>2. CASE f = m
        <4>1. fetch'[f].offset = from /\ fetch'[f].entries = SubSeq(log[n], from + 2, to)
              BY <1>1, <1>3, <3>2, Zenon DEF Fetch
        <4>2. /\ Len(SubSeq(log[n], from + 2, to)) = to - (from + 2) + 1
              /\ \A k \in 1..(to - (from + 2) + 1) :
                    SubSeq(log[n], from + 2, to)[k] = log[n][from + 2 + k - 1]
          <5> HIDE DEF from
          <5> QED BY <1>1, <1>a, BatchOf, Zenon
        <4>3. j \in 1..(to - (from + 2) + 1)
              BY <4>1, <4>2, Zenon
        <4>4. from + 1 + j \in 1..Len(log[n]) /\ c = <<from + 1 + j, log[n][from + 1 + j]>>
          <5> HIDE DEF from
          <5>1. from + 2 + j - 1 = from + 1 + j /\ from + 1 + j \in 1..Len(log[n])
                BY <1>1, <1>a, <4>3
          <5>2. fetch'[f].entries[j] = log[n][from + 1 + j]
                BY <4>1, <4>2, <4>3, <5>1, Zenon
          <5> QED BY <2>2, <4>1, <5>1, <5>2, Zenon
        <4> QED BY <4>4, CopiesDef, Zenon
      <3> QED BY <3>1, <3>2, Zenon
    <2> QED BY <2>1, <2>2, CopiesDefNext, Zenon
  <1> QED BY <1>2, <1>3, Zenon DEF Replicate, Takes, Batches

LEMMA BeyondFirst ==
  ASSUME NEW a \in Nat, NEW b \in Nat, NEW i \in 1..(a + b), i > a
  PROVE  i \in Int /\ i - a \in 1..b /\ ~(i <= a)
  OBVIOUS

LEMMA ReceiveCopies ==
  ASSUME TypeOK, TypeOK', AlignInv, NEW n \in Server, ReceiveResponse(n)
  PROVE  Copies' \subseteq Copies
  <1> DEFINE r == fetch[n]
  <1>1. /\ fetch' = [fetch EXCEPT ![n] = NoFetch] /\ fetch \in [Server -> Fetch]
        /\ log \in [Server -> Seq(Message)] /\ r.entries \in Seq(Message) /\ r.state = "response"
        BY Zenon DEF ReceiveResponse, Accepts, TypeOK, Fetch
  <1>2. /\ fetch'[n].entries = <<>>
        /\ \A f \in Server \ {n} : fetch'[f] = fetch[f]
        BY <1>1, Zenon DEF NoFetch
  <1>3. CASE log' = log
    <2>1. \A s \in Server : Len(log'[s]) <= Len(log[s])
          BY <1>1, <1>3
    <2> QED BY <1>2, <1>3, <2>1, CopiesKept, Zenon
  <1>4. CASE /\ role[n] = "follower" /\ r.epoch = leaderEpoch[n]
             /\ log' = [log EXCEPT ![n] = log[n] \o r.entries]
    <2>1. r.offset = Len(log[n]) - 1
          BY <1>1, <1>4, Zenon DEF AlignInv, Aligned, Newest
    <2>a. Len(log[n]) \in Nat /\ Len(r.entries) \in Nat /\ r.offset + 1 = Len(log[n])
          BY <1>1, <2>1
    <2>2. /\ Len(log'[n]) = Len(log[n]) + Len(r.entries)
          /\ \A i \in 1..Len(log'[n]) :
                log'[n][i] = IF i <= Len(log[n]) THEN log[n][i] ELSE r.entries[i - Len(log[n])]
          BY <1>1, <1>4, ConcatProperties
    <2> SUFFICES ASSUME NEW c \in Copies' PROVE c \in Copies
        BY Zenon
    <2>3. ASSUME NEW s \in Server, NEW i \in 1..Len(log'[s]), c = <<i, log'[s][i]>>
          PROVE  c \in Copies
      <3>1. CASE s # n
        <4>1. log'[s] = log[s]
              BY <1>1, <1>4, <3>1, Zenon
        <4> QED BY <2>3, <4>1, CopiesDef, Zenon
      <3>2. CASE s = n /\ i <= Len(log[n])
        <4>1. i \in 1..Len(log[n]) /\ c = <<i, log[n][i]>>
          <5>1. i \in 1..Len(log'[n]) /\ c = <<i, log'[n][i]>>
                BY <2>3, <3>2, Zenon
          <5>2. i \in 1..Len(log[n])
                BY <2>a, <3>2, <5>1
          <5>3. log'[n][i] = log[n][i]
                BY <2>2, <3>2, <5>1, Zenon
          <5> QED BY <5>1, <5>2, <5>3, Zenon
        <4> QED BY <4>1, CopiesDef, Zenon
      <3>3. CASE s = n /\ i > Len(log[n])
        <4> DEFINE j == i - Len(log[n])
        <4>1. i \in 1..(Len(log[n]) + Len(r.entries)) /\ i \in 1..Len(log'[n]) /\ c = <<i, log'[n][i]>>
              BY <2>2, <2>3, <3>3, Zenon
        <4>2. j \in 1..Len(r.entries) /\ i = r.offset + 1 + j
          <5> HIDE DEF r
          <5>1. i \in Int /\ i - Len(log[n]) \in 1..Len(r.entries) /\ ~(i <= Len(log[n]))
                BY <2>a, <3>3, <4>1, BeyondFirst, Zenon
          <5> QED BY <2>1, <2>a, <5>1
        <4>3. log'[n][i] = r.entries[j]
          <5>1. ~(i <= Len(log[n]))
                BY <2>a, <3>3, <4>1
          <5> QED BY <2>2, <4>1, <5>1, Zenon
        <4>4. c = <<r.offset + 1 + j, r.entries[j]>>
              BY <4>1, <4>2, <4>3, Zenon
        <4> QED BY <4>2, <4>4, CopiesDef, Zenon
      <3> QED BY <2>a, <3>1, <3>2, <3>3
    <2>4. ASSUME NEW f \in Server, NEW j \in 1..Len(fetch'[f].entries),
                 c = <<fetch'[f].offset + 1 + j, fetch'[f].entries[j]>>
          PROVE  c \in Copies
      <3>1. f # n
            BY <1>2, <2>4
      <3> QED BY <1>2, <2>4, <3>1, CopiesDef, Zenon
    <2> QED BY <2>3, <2>4, CopiesDefNext, Zenon
  <1> QED BY <1>3, <1>4, Zenon DEF ReceiveResponse, Accepts

LEMMA NoNewCopies ==
  ASSUME TypeOK, TypeOK', AlignInv, [Next]_vars, \A n \in Server : ~Publish(n)
  PROVE  Copies' \subseteq Copies
  <1>1. log \in [Server -> Seq(Message)] /\ fetch \in [Server -> Fetch]
        BY Zenon DEF TypeOK
  <1> DEFINE LogsCut == \A n \in Server : /\ Len(log'[n]) <= Len(log[n])
                                          /\ \A i \in 1..Len(log'[n]) : log'[n][i] = log[n][i]
             FetchesEnd == \A f \in Server :
                             \/ fetch'[f].entries = <<>>
                             \/ fetch'[f].entries = fetch[f].entries /\ fetch'[f].offset = fetch[f].offset
  <1>2. log' = log => LogsCut
        BY <1>1
  <1>3. fetch' = fetch => FetchesEnd
        BY Zenon
  <1>4. ASSUME NEW n \in Server, NEW c, NEW w, BecomeFollower(n, c, w) PROVE LogsCut
    <2>1. PICK length \in 0..Len(log[n]) : log' = [log EXCEPT ![n] = SubSeq(log[n], 1, length)]
          BY <1>4, BecomeFollowerCuts, Zenon
    <2> QED BY <2>1, CutIsPrefix, Zenon
  <1>5. CASE LogsCut /\ FetchesEnd
        BY <1>5, CopiesKept, Zenon
  <1>6. CASE UNCHANGED vars
        BY <1>2, <1>3, <1>5, <1>6, Zenon DEF vars
  <1>7. ASSUME NEW n \in Server, Commit(n) \/ CheckpointHW(n) PROVE LogsCut /\ FetchesEnd
        BY <1>2, <1>3, <1>7, Zenon DEF Commit, CheckpointHW
  <1>8. ASSUME NEW n \in Server, NEW m \in Server,
               ShrinkISR(n, m) \/ ExpandISR(n, m) \/ ElectLeader(n, m)
        PROVE  LogsCut /\ FetchesEnd
    <2>1. UNCHANGED <<log, fetch>>
          BY <1>8, Zenon DEF ShrinkISR, ExpandISR, ElectLeader, Candidates, Propose, logVars
    <2> QED BY <1>2, <1>3, <2>1, Zenon
  <1>9. ASSUME NEW n \in Server, RequestReplication(n) \/ RequestTimeout(n)
        PROVE  LogsCut /\ FetchesEnd
    <2>1. log' = log
          BY <1>9, Zenon DEF RequestReplication, FetchFrom, RequestTimeout, logVars
    <2>2. CASE fetch' = [fetch EXCEPT ![n] = NoFetch]
          BY <1>1, <1>2, <2>1, <2>2, Zenon DEF NoFetch
    <2>3. CASE fetch' = [fetch EXCEPT ![n] = [NoFetch EXCEPT !.state = "request",
                                                             !.offset = Newest(log[n]),
                                                             !.epoch = leaderEpoch[n]]]
      <3>1. fetch'[n].entries = <<>> /\ \A f \in Server \ {n} : fetch'[f] = fetch[f]
            BY <1>1, <2>3, Zenon DEF NoFetch
      <3> QED BY <1>2, <2>1, <3>1, Zenon
    <2> QED BY <1>9, <2>2, <2>3, Zenon DEF RequestReplication, FetchFrom, RequestTimeout
  <1>10. ASSUME NEW n \in Server, Apply(n) PROVE LogsCut /\ FetchesEnd
    <2>1. fetch' = fetch
          BY <1>10, Zenon DEF Apply
    <2>2. \/ log' = log
          \/ BecomeFollower(n, epochs[n], hw[n])
          BY <1>10, Zenon DEF Apply, ApplyShrinkISR, ApplyExpandISR, ApplyChangeLeader, BecomeLeader
    <2> QED BY <1>2, <1>3, <1>4, <2>1, <2>2, Zenon
  <1>11. ASSUME NEW n \in Server, Crash(n) PROVE LogsCut /\ FetchesEnd
    <2>1. /\ fetch' = [fetch EXCEPT ![n] = NoFetch]
          /\ \/ log' = log
             \/ \E k \in 0..(Len(log[n]) - 1) : log' = [log EXCEPT ![n] = SubSeq(log[n], 1, k)]
          BY <1>11, Zenon DEF Crash
    <2>2. fetch'[n].entries = <<>> /\ \A f \in Server \ {n} : fetch'[f] = fetch[f]
          BY <1>1, <2>1, Zenon DEF NoFetch
    <2>3. log' = log \/ \E k \in 0..Len(log[n]) : log' = [log EXCEPT ![n] = SubSeq(log[n], 1, k)]
      <3>1. 0..(Len(log[n]) - 1) \subseteq 0..Len(log[n])
            BY <1>1
      <3> QED BY <2>1, <3>1, Zenon
    <2>4. ASSUME NEW k \in 0..Len(log[n]), log' = [log EXCEPT ![n] = SubSeq(log[n], 1, k)]
          PROVE  LogsCut
          BY <2>4, CutIsPrefix, Zenon
    <2> QED BY <1>2, <2>2, <2>3, <2>4, Zenon
  <1>12. ASSUME NEW n \in Server, Restart(n) PROVE LogsCut /\ FetchesEnd
    <2>1. fetch' = fetch
          BY <1>12, Zenon DEF Restart, LeadsIn
    <2>2. log' = log \/ BecomeFollower(n, ReopenEpochs(epochs[n], log[n]), hw[n])
          BY <1>12, Zenon DEF Restart, LeadsIn
    <2> QED BY <1>2, <1>3, <1>4, <2>1, <2>2, Zenon
  <1> HIDE DEF LogsCut, FetchesEnd
  <1> QED BY <1>5, <1>6, <1>7, <1>8, <1>9, <1>10, <1>11, <1>12, ReplicateCopies, ReceiveCopies, Zenon
          DEF Next

LEMMA PublishCopies ==
  ASSUME TypeOK, TypeOK', NEW n \in Server, Publish(n)
  PROVE  /\ Len(log'[n]) = Len(log[n]) + 1
         /\ \A i \in 1..Len(log[n]) : log'[n][i] = log[n][i]
         /\ log'[n][Len(log[n]) + 1].epoch = leaderEpoch[n]
         /\ \A c \in Copies' : c \in Copies \/ c = <<Len(log[n]) + 1, log'[n][Len(log[n]) + 1]>>
  <1> DEFINE message == [epoch |-> leaderEpoch[n], id |-> published]
  <1>1. log \in [Server -> Seq(Message)] /\ leaderEpoch[n] \in Nat /\ published \in Nat
        BY Zenon DEF TypeOK
  <1>2. log' = [log EXCEPT ![n] = Append(log[n], message)] /\ fetch' = fetch
        BY Zenon DEF Publish
  <1>3. message \in Message
        BY <1>1, Zenon DEF Message
  <1>4. /\ Len(log'[n]) = Len(log[n]) + 1 /\ Len(log[n]) \in Nat
        /\ \A i \in 1..Len(log[n]) : log'[n][i] = log[n][i]
        /\ log'[n][Len(log[n]) + 1] = message
        BY <1>1, <1>2, <1>3, AppendProperties
  <1>5. ASSUME NEW c \in Copies', c # <<Len(log[n]) + 1, message>> PROVE c \in Copies
    <2>1. ASSUME NEW r \in Server, NEW i \in 1..Len(log'[r]), c = <<i, log'[r][i]>> PROVE c \in Copies
      <3>1. CASE r # n
        <4>1. log'[r] = log[r]
              BY <1>1, <1>2, <3>1, Zenon
        <4> QED BY <2>1, <4>1, CopiesDef, Zenon
      <3>2. CASE r = n
        <4>1. i \in 1..(Len(log[n]) + 1) /\ c = <<i, log'[n][i]>>
              BY <1>4, <2>1, <3>2, Zenon
        <4>2. i # Len(log[n]) + 1
              BY <1>4, <1>5, <4>1, Zenon
        <4>3. i \in 1..Len(log[n]) /\ c = <<i, log[n][i]>>
              BY <1>4, <4>1, <4>2
        <4> QED BY <4>3, CopiesDef, Zenon
      <3> QED BY <3>1, <3>2, Zenon
    <2>2. ASSUME NEW f \in Server, NEW j \in 1..Len(fetch'[f].entries),
                 c = <<fetch'[f].offset + 1 + j, fetch'[f].entries[j]>>
          PROVE  c \in Copies
          BY <1>2, <2>2, CopiesDef, Zenon
    <2> QED BY <2>1, <2>2, CopiesDefNext, Zenon
  <1> QED BY <1>4, <1>5

-----------------------------------------------------------------------------
(* The messages in the logs. *)

\* The epoch of a message is the index of an operation that its writer, the
\* server the operation names, has applied.
KnownEpochs ==
    \A c \in Copies :
        /\ c[2].epoch \in 1..Len(raftLog)
        /\ leaderEpoch[raftLog[c[2].epoch].server] >= c[2].epoch

\* LogMatching, of the messages on their way too.
CopiesMatch ==
    \A c, d \in Copies : c[1] = d[1] /\ c[2].epoch = d[2].epoch => c = d

EpochInv == KnownEpochs /\ LeaderHoldsEpoch /\ CopiesMatch

-----------------------------------------------------------------------------
(* The epoch invariant. *)

\* In the epoch it leads, a server's log changes by Publish only: it follows
\* nobody, and neither a crash nor a recovery cuts its log.
LEMMA LeaderLogKept ==
  ASSUME LoseTail = FALSE, TypeOK, ViewInv, [Next]_vars,
         NEW n \in Server, leader[n] = n, leaderEpoch'[n] = leaderEpoch[n], ~Publish(n)
  PROVE  log'[n] = log[n]
  <1>1. log \in [Server -> Seq(Message)] /\ leaderEpoch \in [Server -> Nat]
        BY Zenon DEF TypeOK
  <1>2. CASE log' = log
        BY <1>2, Zenon
  <1>3. ASSUME NEW r \in Server, r # n, \E l : log' = [log EXCEPT ![r] = l] PROVE log'[n] = log[n]
        BY <1>1, <1>3, Zenon
  <1>4. ASSUME NEW r \in Server, Publish(r) PROVE r # n /\ \E l : log' = [log EXCEPT ![r] = l]
        BY <1>4, Zenon DEF Publish
  <1>5. ASSUME NEW r \in Server, ReceiveResponse(r)
        PROVE  log' = log \/ (r # n /\ \E l : log' = [log EXCEPT ![r] = l])
        BY <1>5, Zenon DEF ReceiveResponse, Accepts, ViewInv
  <1>6. ASSUME NEW r \in Server, Apply(r)
        PROVE  log' = log \/ (r # n /\ \E l : log' = [log EXCEPT ![r] = l])
    <2>1. leaderEpoch[r] \in 1..applied[r] /\ applied[r] \in Nat
          BY Zenon DEF ViewInv, CurrentEpoch, TypeOK
    <2>2. \/ log' = log
          \/ /\ leaderEpoch' = [leaderEpoch EXCEPT ![r] = applied[r] + 1]
             /\ BecomeFollower(r, epochs[r], hw[r])
          BY <1>6, Zenon DEF Apply, ApplyShrinkISR, ApplyExpandISR, ApplyChangeLeader, BecomeLeader
    <2> QED BY <1>1, <2>1, <2>2, BecomeFollowerCuts
  <1>7. ASSUME NEW r \in Server, Crash(r) PROVE log' = log
        BY <1>7, Zenon DEF Crash
  <1>8. ASSUME NEW r \in Server, Restart(r)
        PROVE  log' = log \/ (r # n /\ \E l : log' = [log EXCEPT ![r] = l])
    <2>1. PICK e : /\ leaderEpoch' = [leaderEpoch EXCEPT ![r] = e]
                   /\ \/ log' = log
                      \/ /\ raftLog[e].server # r
                         /\ BecomeFollower(r, ReopenEpochs(epochs[r], log[r]), hw[r])
          BY <1>8, Zenon DEF Restart, LeadsIn
    <2>2. r = n => e = leaderEpoch[n] /\ raftLog[e].server = n
          BY <1>1, <2>1, Zenon DEF ViewInv
    <2> QED BY <2>1, <2>2, BecomeFollowerCuts, Zenon
  <1>9. ASSUME NEW r \in Server, NEW m \in Server,
               ShrinkISR(r, m) \/ ExpandISR(r, m) \/ ElectLeader(r, m)
        PROVE  log' = log
        BY <1>9, Zenon DEF ShrinkISR, ExpandISR, ElectLeader, Candidates, Propose, logVars
  <1>10. ASSUME NEW r \in Server, NEW m \in Server,
                Replicate(r, m) \/ Commit(r) \/ RequestReplication(r) \/ RequestTimeout(r) \/ CheckpointHW(r)
         PROVE  log' = log
         BY <1>10, Zenon DEF Replicate, Takes, Batches, Commit, RequestReplication, FetchFrom, RequestTimeout, CheckpointHW, logVars
  <1>11. CASE UNCHANGED vars
         BY <1>11, Zenon DEF vars
  <1> QED BY <1>2, <1>3, <1>4, <1>5, <1>6, <1>7, <1>8, <1>9, <1>10, <1>11, Zenon DEF Next

LEMMA InitEpoch == Init => EpochInv
  <1> SUFFICES ASSUME Init PROVE EpochInv
      BY Zenon
  <1>1. \A c : c \notin Copies
    <2>1. /\ \A n \in Server : Len(log[n]) = 0
          /\ \A f \in Server : Len(fetch[f].entries) = 0
          BY DEF Init, NoFetch
    <2> QED BY <2>1, InitType, CopiesDef
  <1> QED BY <1>1, Zenon DEF EpochInv, KnownEpochs, LeaderHoldsEpoch, CopiesMatch

\* A server that leads in the next state already led in that epoch, or no
\* message of the epoch exists: its writer has not entered it.
LEMMA LeaderHoldsOld ==
  ASSUME LoseTail = FALSE, TypeOK, TypeOK', ViewInv, ViewInv', EpochInv, [Next]_vars,
         NEW w \in Server, leader'[w] = w,
         NEW c \in Copies, c[2].epoch = leaderEpoch'[w]
  PROVE  /\ leaderEpoch'[w] = leaderEpoch[w]
         /\ leader[w] = w
         /\ c[1] \in DOMAIN log[w] /\ log[w][c[1]] = c[2]
  <1> DEFINE e == c[2].epoch
  <1>1. /\ e \in 1..Len(raftLog) /\ leaderEpoch[raftLog[e].server] >= e
        BY Zenon DEF EpochInv, KnownEpochs
  <1>2. raftLog[e] = raftLog'[e]
        BY <1>1, EpochsGrow, Zenon
  <1>3. raftLog[e].server = w
        BY <1>2 DEF ViewInv
  <1>4. leaderEpoch[w] >= leaderEpoch'[w] /\ leaderEpoch[w] <= leaderEpoch'[w]
        BY <1>1, <1>3, EpochsGrow, Zenon
  <1>5. leaderEpoch'[w] = leaderEpoch[w]
        BY <1>4 DEF TypeOK
  <1>6. leader[w] = w
        BY <1>5, EpochsGrow, Zenon
  <1> QED BY <1>5, <1>6, Zenon DEF EpochInv, LeaderHoldsEpoch

LEMMA NextEpoch ==
  ASSUME LoseTail = FALSE, TypeOK, TypeOK', ViewInv, ViewInv', AlignInv, EpochInv, [Next]_vars
  PROVE  EpochInv'
  <1>1. \A c \in Copies : /\ c[2].epoch \in 1..Len(raftLog')
                          /\ leaderEpoch'[raftLog'[c[2].epoch].server] >= c[2].epoch
    <2> SUFFICES ASSUME NEW c \in Copies
                 PROVE  /\ c[2].epoch \in 1..Len(raftLog')
                        /\ leaderEpoch'[raftLog'[c[2].epoch].server] >= c[2].epoch
        BY Zenon
    <2> DEFINE e == c[2].epoch
               s == raftLog[e].server
    <2>1. e \in 1..Len(raftLog) /\ leaderEpoch[s] >= e
          BY Zenon DEF EpochInv, KnownEpochs
    <2>2. s \in Server
          BY <2>1, OperationAt, Zenon
    <2>3. e \in 1..Len(raftLog') /\ raftLog'[e] = raftLog[e] /\ leaderEpoch[s] <= leaderEpoch'[s]
          BY <2>1, <2>2, EpochsGrow, Zenon
    <2>4. leaderEpoch[s] \in Nat /\ leaderEpoch'[s] \in Nat
          BY <2>2, Zenon DEF TypeOK
    <2>5. e \in Nat /\ raftLog'[e].server = s
          BY <2>1, <2>3
    <2> HIDE DEF e, s
    <2>6. leaderEpoch'[s] >= e
          BY <2>1, <2>3, <2>4, <2>5
    <2>7. leaderEpoch'[raftLog'[e].server] >= e /\ e \in 1..Len(raftLog')
          BY <2>3, <2>5, <2>6, Zenon
    <2> QED BY <2>7, Zenon DEF e
  <1>2. CASE \A n \in Server : ~Publish(n)
    <2>1. Copies' \subseteq Copies
          BY <1>2, NoNewCopies, Zenon
    <2>2. KnownEpochs'
          BY <1>1, <2>1, Zenon DEF KnownEpochs
    <2>3. CopiesMatch'
          BY <2>1, Zenon DEF EpochInv, CopiesMatch
    <2>4. LeaderHoldsEpoch'
      <3> SUFFICES ASSUME NEW w \in Server, leader'[w] = w,
                          NEW c \in Copies', c[2].epoch = leaderEpoch'[w]
                   PROVE  c[1] \in DOMAIN log'[w] /\ log'[w][c[1]] = c[2]
          BY Zenon DEF LeaderHoldsEpoch
      <3>1. /\ leaderEpoch'[w] = leaderEpoch[w] /\ leader[w] = w
            /\ c[1] \in DOMAIN log[w] /\ log[w][c[1]] = c[2]
            BY <2>1, LeaderHoldsOld, Zenon
      <3>2. log'[w] = log[w]
            BY <1>2, <3>1, LeaderLogKept, Zenon
      <3> QED BY <3>1, <3>2, Zenon
    <2> QED BY <2>2, <2>3, <2>4, Zenon DEF EpochInv
  <1>3. ASSUME NEW n \in Server, Publish(n) PROVE EpochInv'
    <2> DEFINE new == <<Len(log[n]) + 1, log'[n][Len(log[n]) + 1]>>
    <2>1. /\ Len(log'[n]) = Len(log[n]) + 1 /\ Len(log[n]) \in Nat
          /\ \A i \in 1..Len(log[n]) : log'[n][i] = log[n][i]
          /\ new[2].epoch = leaderEpoch[n]
          /\ \A c \in Copies' : c \in Copies \/ c = new
      <3>1. Len(log[n]) \in Nat
            BY DEF TypeOK
      <3> QED BY <1>3, <3>1, PublishCopies, Zenon
    <2>2. /\ leader[n] = n /\ UNCHANGED <<raftLog, leader, leaderEpoch>>
          /\ raftLog[leaderEpoch[n]].server = n
          BY <1>3, Zenon DEF Publish, metaVars, ViewInv
    <2>3. leaderEpoch[n] \in 1..Len(raftLog) /\ leaderEpoch[n] \in Nat
      <3>1. leaderEpoch[n] \in 1..applied[n] /\ applied[n] \in 1..Len(raftLog)
            BY Zenon DEF ViewInv, CurrentEpoch
      <3> QED BY <3>1 DEF TypeOK
    <2>4. DOMAIN log[n] = 1..Len(log[n]) /\ DOMAIN log'[n] = 1..(Len(log[n]) + 1)
          BY <2>1 DEF TypeOK
    <2>5. \A c \in Copies : c[2].epoch = leaderEpoch[n] => c[1] \in 1..Len(log[n]) /\ log[n][c[1]] = c[2]
          BY <2>2, <2>4, Zenon DEF EpochInv, LeaderHoldsEpoch
    <2> HIDE DEF new
    <2>6. KnownEpochs'
          BY <1>1, <2>1, <2>2, <2>3 DEF KnownEpochs
    <2>7. \A c \in Copies : ~(c[1] = new[1] /\ c[2].epoch = new[2].epoch)
          BY <2>1, <2>5 DEF new
    <2>8. CopiesMatch'
          BY <2>1, <2>7, Zenon DEF EpochInv, CopiesMatch
    <2>9. LeaderHoldsEpoch'
      <3> SUFFICES ASSUME NEW w \in Server, leader'[w] = w,
                          NEW c \in Copies', c[2].epoch = leaderEpoch'[w]
                   PROVE  c[1] \in DOMAIN log'[w] /\ log'[w][c[1]] = c[2]
          BY Zenon DEF LeaderHoldsEpoch
      <3>1. CASE w = n /\ c = new
            BY <2>1, <2>4, <3>1 DEF new
      <3>2. CASE w = n /\ c # new
        <4>1. c[1] \in 1..Len(log[n]) /\ log[n][c[1]] = c[2]
              BY <2>1, <2>2, <2>5, <3>2, Zenon
        <4> QED BY <2>1, <2>4, <3>2, <4>1
      <3>3. CASE w # n
        <4>1. c # new
          <5>1. leaderEpoch'[w] = leaderEpoch[w] /\ leader[w] = w
                BY <2>2, Zenon
          <5>2. raftLog[leaderEpoch[w]].server = w
                BY <5>1, Zenon DEF ViewInv
          <5>3. leaderEpoch[w] # leaderEpoch[n]
                BY <2>2, <3>3, <5>2, Zenon
          <5> QED BY <2>1, <5>1, <5>3, Zenon
        <4>2. c \in Copies
              BY <2>1, <4>1, Zenon
        <4>3. /\ leaderEpoch'[w] = leaderEpoch[w] /\ leader[w] = w
              /\ c[1] \in DOMAIN log[w] /\ log[w][c[1]] = c[2]
              BY <4>2, LeaderHoldsOld, Zenon
        <4>4. log'[w] = log[w]
              BY <1>3, <3>3, Zenon DEF Publish, TypeOK
        <4> QED BY <4>3, <4>4, Zenon
      <3> QED BY <3>1, <3>2, <3>3, Zenon
    <2> QED BY <2>6, <2>8, <2>9, Zenon DEF EpochInv
  <1> QED BY <1>2, <1>3, Zenon

\* The whole inductive invariant.
LEMMA LogInvariance ==
  ASSUME LoseTail = FALSE
  PROVE  Spec => [](TypeOK /\ ViewInv /\ AlignInv /\ EpochInv)
  <1>1. TypeOK /\ TypeOK' /\ ViewInv /\ AlignInv /\ EpochInv /\ [Next]_vars => AlignInv' /\ EpochInv'
        BY NextView, NextAlign, NextEpoch, Zenon
  <1> QED BY <1>1, InitView, InitAlign, InitEpoch, NextView, TypeCorrect, PTL DEF Spec

\* Two replicas that hold a message of the same epoch at the same offset hold
\* the same message, whatever elections, truncations, crashes and restarts took
\* place, as long as no crash loses the tail of a log: becomeLeader of a recovered
\* leader goes on with the epoch it had, and relies on its log for the offsets
\* the epoch has given away.
THEOREM LogMatchingHolds ==
  ASSUME LoseTail = FALSE
  PROVE  Spec => []LogMatching
  <1>1. TypeOK /\ EpochInv => LogMatching
    <2> SUFFICES ASSUME TypeOK, EpochInv, NEW n \in Server, NEW m \in Server,
                        NEW i \in DOMAIN log[n] \cap DOMAIN log[m], log[n][i].epoch = log[m][i].epoch
                 PROVE  log[n][i] = log[m][i]
        BY Zenon DEF LogMatching
    <2>1. i \in 1..Len(log[n]) /\ i \in 1..Len(log[m])
          BY DEF TypeOK
    <2>2. <<i, log[n][i]>> \in Copies /\ <<i, log[m][i]>> \in Copies
          BY <2>1, CopiesDef, Zenon
    <2> QED BY <2>2, Zenon DEF EpochInv, CopiesMatch
  <1> QED BY <1>1, LogInvariance, PTL

\* The server that leads an epoch holds every copy of the epoch's messages,
\* stored or on their way.
THEOREM LeaderHoldsItsEpoch ==
  ASSUME LoseTail = FALSE
  PROVE  Spec => []LeaderHoldsEpoch
  <1>1. EpochInv => LeaderHoldsEpoch
        BY Zenon DEF EpochInv
  <1> QED BY <1>1, LogInvariance, PTL

\* A server only appends to its log while it leads in one epoch, also when it
\* crashes and recovers in between.
THEOREM LeaderOnlyAppends ==
  ASSUME LoseTail = FALSE
  PROVE  Spec => LeaderAppendOnly
  <1> DEFINE Kept == \A n \in Server :
                        leader[n] = n /\ leaderEpoch'[n] = leaderEpoch[n]
                        => /\ Len(log'[n]) >= Len(log[n])
                           /\ SubSeq(log'[n], 1, Len(log[n])) = log[n]
  <1>1. TypeOK /\ TypeOK' /\ ViewInv /\ [Next]_vars => Kept
    <2> SUFFICES ASSUME TypeOK, TypeOK', ViewInv, [Next]_vars,
                        NEW n \in Server, leader[n] = n, leaderEpoch'[n] = leaderEpoch[n]
                 PROVE  /\ Len(log'[n]) >= Len(log[n])
                        /\ SubSeq(log'[n], 1, Len(log[n])) = log[n]
        BY Zenon
    <2>1. log[n] \in Seq(Message) /\ log'[n] \in Seq(Message)
          BY Zenon DEF TypeOK
    <2>2. /\ Len(log'[n]) >= Len(log[n])
          /\ \A i \in 1..Len(log[n]) : log'[n][i] = log[n][i]
      <3>1. CASE Publish(n)
        <4>1. /\ Len(log'[n]) = Len(log[n]) + 1
              /\ \A i \in 1..Len(log[n]) : log'[n][i] = log[n][i]
              BY <3>1, PublishCopies, Zenon
        <4>2. Len(log[n]) \in Nat
              BY <2>1
        <4>3. Len(log'[n]) >= Len(log[n])
              BY <4>1, <4>2
        <4> QED BY <4>1, <4>3, Zenon
      <3>2. CASE ~Publish(n)
        <4>1. log'[n] = log[n]
              BY <3>2, LeaderLogKept, Zenon
        <4> QED BY <2>1, <4>1
      <3> QED BY <3>1, <3>2, Zenon
    <2>3. /\ SubSeq(log'[n], 1, Len(log[n])) \in Seq(Message)
          /\ Len(SubSeq(log'[n], 1, Len(log[n]))) = Len(log[n])
          /\ \A i \in 1..Len(log[n]) : SubSeq(log'[n], 1, Len(log[n]))[i] = log[n][i]
      <3>1. Len(log[n]) \in 0..Len(log'[n])
            BY <2>1, <2>2
      <3>2. /\ SubSeq(log'[n], 1, Len(log[n])) \in Seq(Message)
            /\ Len(SubSeq(log'[n], 1, Len(log[n]))) = Len(log[n])
            /\ \A i \in 1..Len(log[n]) : SubSeq(log'[n], 1, Len(log[n]))[i] = log'[n][i]
            BY <2>1, <3>1, PrefixOf, Zenon
      <3> QED BY <2>2, <3>2, Zenon
    <2>4. SubSeq(log'[n], 1, Len(log[n])) = log[n]
          BY <2>1, <2>3, SeqEqual, Zenon
    <2> QED BY <2>2, <2>4, Zenon
  <1>2. TypeOK /\ TypeOK' /\ ViewInv /\ [Next]_vars => [Kept]_vars
        BY <1>1, Zenon
  <1>3. Spec => [][Kept]_vars
        BY <1>2, LogInvariance, PTL DEF Spec
  <1> QED BY <1>3, Zenon DEF LeaderAppendOnly

=============================================================================
