------------------------- MODULE MetadataStepProofs -------------------------
(***************************************************************************)
(* Proofs about Metadata, continued: the inductive invariant, AllInv, and  *)
(* that every action preserves it.                                         *)
(***************************************************************************)
EXTENDS Metadata, FSMProofs

-----------------------------------------------------------------------------
\* The invariant.

Fields == {"status", "applied", "recover", "restored", "streams", "leader", "notify",
           "reports", "persist"}

\* Entry a is about a stream that an earlier entry deleted or paused.
Excused(L, a) ==
    /\ a \in 1 .. Len(L)
    /\ \E i \in 1 .. a - 1 : L[i].type \in {"delete", "pause"} /\ L[i].stream = L[a].stream

\* y is the memory of server n.
NodeInv(L, n, y) ==
    /\ DOMAIN y = Fields
    /\ y.applied \in 0 .. Len(L) /\ y.recover \in Int /\ y.restored \in BOOLEAN
    /\ y.status = "up" =>
         /\ Live(L, n, y.streams, y.applied, y.recover, y.restored)
         /\ Writing(L, y.streams, y.applied, y.persist)
    /\ y.status # "up" => DOMAIN y.streams = {}
    /\ y.status = "panicked" => Excused(L, y.applied)

AllInv ==
    /\ LogOK(log)
    /\ "scenario" \in DOMAIN count /\ count.scenario \in DOMAIN Scenarios
    /\ DOMAIN node = Server /\ DOMAIN snap = Server
    /\ \A n \in Server : NodeInv(log, n, node[n])
    /\ \A n \in Server : Sound(log, snap[n].parts, snap[n].index)

-----------------------------------------------------------------------------
\* The invariant and a longer log.

\* A running server stays in accord with a log that grows.
LEMMA LiveAppend ==
    ASSUME NEW L, LogOK(L), NEW op, op \in Entries, NEW n, NEW st, NEW a, a \in Nat, NEW r, NEW b,
           Live(L, n, st, a, r, b)
    PROVE  Live(Append(L, op), n, st, a, r, b)
<1> DEFINE M == Append(L, op)
           P == Parts(st)
<1>1. L \in Seq(Entries) /\ Len(L) \in Nat
  BY DEF LogOK
<1>2. Len(M) = Len(L) + 1 /\ \A c \in 1 .. Len(L) : M[c] = L[c]
  BY <1>1, AppendKeeps, Zenon
<1>3. /\ \A s, p : \A c \in 1 .. Len(L) : Creates(M, c, s, p) <=> Creates(L, c, s, p)
      /\ \A s : \A c \in 1 .. Len(L) : Pauses(M, c, s) <=> Pauses(L, c, s)
  BY <1>1, AppendKeeps, Zenon
<1>4. Sound(M, P, a) /\ Sound(L, P, a)
  BY <1>1, SoundAppend, Zenon DEF Live
<1>5. /\ \A s, p : <<s, p>> \in DOMAIN P <=> HasPartition(st, s, p)
      /\ \A s, p : HasPartition(st, s, p) => P[<<s, p>>] = st[s][p]
  BY PartsOfView, Zenon
<1> HIDE DEF M, P
<1>6. ASSUME NEW s \in Stream, NEW p \in Partition, HasPartition(st, s, p)
      PROVE  LivePart(M, n, s, p, st[s][p], a, b)
  <2> DEFINE x == st[s][p]
  <2>1. LivePart(L, n, s, p, x, a, b)
    BY <1>6, Zenon DEF Live
  <2>2. <<s, p>> \in DOMAIN P /\ P[<<s, p>>] = x
    BY <1>5, <1>6, Zenon
  <2> HIDE DEF x
  <2>3. x \in ListedRecord /\ EpochsOK(L, s, p, x, a)
    BY <1>4, <2>2, Zenon DEF Sound, PartOK
  <2>4. x.epoch \in 1 .. Len(L) /\ x.leaderEpoch \in 1 .. Len(L) /\ a \in 0 .. Len(L)
    BY <1>4, <2>3, Zenon DEF EpochsOK, Creates, Changes, Sound
  <2>5. M[x.leaderEpoch].leader = L[x.leaderEpoch].leader
    BY <1>2, <2>4, Zenon
  <2>6. Quiet(M, s) => Quiet(L, s)
    BY <1>1, <1>2, <1>3 DEF Quiet
  <2>7. \A d \in 1 .. a : Pauses(L, d, s) => Pauses(M, d, s)
    BY <1>1, <1>3, <2>4
  <2>8. \A c \in a + 1 .. x.epoch : Creates(M, c, s, p) => Creates(L, c, s, p)
    BY <1>1, <1>3, <2>4
  <2>9. LivePart(M, n, s, p, x, a, b)
    BY <2>1, <2>5, <2>6, <2>7, <2>8, Zenon DEF LivePart
  <2> QED
    BY <2>9, Zenon DEF x
<1> QED
  BY <1>4, <1>6, Zenon DEF Live, M, P

\* So does a snapshot that is being written.
LEMMA WritingAppend ==
    ASSUME NEW L, LogOK(L), NEW op, op \in Entries, NEW st, NEW a, a \in 0 .. Len(L), NEW z,
           Writing(L, st, a, z)
    PROVE  Writing(Append(L, op), st, a, z)
<1> DEFINE M == Append(L, op)
           parts == z.parts
           j == z.index
<1>1. L \in Seq(Entries) /\ Len(L) \in Nat
  BY DEF LogOK
<1>2. \A s, p : \A c \in 1 .. Len(L) :
         /\ Creates(M, c, s, p) <=> Creates(L, c, s, p)
         /\ PausesPartition(M, c, s, p) <=> PausesPartition(L, c, s, p)
  BY <1>1, AppendKeeps, AppendKeepsMore, Zenon
<1>3. Sound(M, parts, j) /\ j \in 0 .. a
  BY <1>1, SoundAppend, Zenon DEF Writing
<1>4. ListedOK(L, st, a, parts, j)
  BY Zenon DEF Writing
<1> HIDE DEF M, parts, j
<1>5. \A d \in j + 1 .. a : d \in 1 .. Len(L) /\ \A c \in d + 1 .. a : c \in 1 .. Len(L)
  BY <1>1, <1>3
<1>6. ListedOK(M, st, a, parts, j)
  <2>1. ASSUME NEW s \in Stream, NEW p \in Partition, <<s, p>> \in DOMAIN parts,
               HasPartition(st, s, p), st[s][p].obj = parts[<<s, p>>].obj,
               NEW d \in j + 1 .. a, PausesPartition(M, d, s, p)
        PROVE  st[s][p].paused /\ \A c \in d + 1 .. a : ~Creates(M, c, s, p)
    <3>1. PausesPartition(L, d, s, p)
      BY <1>2, <1>5, <2>1, Zenon
    <3>2. st[s][p].paused /\ \A c \in d + 1 .. a : ~Creates(L, c, s, p)
      BY <1>4, <2>1, <3>1, Zenon DEF ListedOK
    <3> QED
      BY <1>2, <1>5, <3>2, Zenon
  <2> QED
    BY <1>4, <2>1, Zenon DEF ListedOK
<1> QED
  BY <1>3, <1>6, Zenon DEF Writing, M, parts, j

\* So does everything a server holds.
LEMMA NodeInvAppend ==
    ASSUME NEW L, LogOK(L), NEW op, op \in Entries, NEW n, NEW y, NodeInv(L, n, y)
    PROVE  NodeInv(Append(L, op), n, y)
<1> DEFINE M == Append(L, op)
<1>1. L \in Seq(Entries) /\ Len(L) \in Nat
  BY DEF LogOK
<1>2. Len(M) = Len(L) + 1 /\ \A c \in 1 .. Len(L) : M[c] = L[c]
  BY <1>1, AppendKeeps
<1>3. y.applied \in 0 .. Len(L) /\ y.applied \in Nat /\ y.applied \in 0 .. Len(M)
  BY <1>1, <1>2 DEF NodeInv
<1>4. y.status = "up" =>
        /\ Live(M, n, y.streams, y.applied, y.recover, y.restored)
        /\ Writing(M, y.streams, y.applied, y.persist)
  BY <1>3, LiveAppend, WritingAppend, Zenon DEF NodeInv
<1> HIDE DEF M
<1>5. Excused(L, y.applied) => Excused(M, y.applied)
  BY <1>1, <1>2 DEF Excused
<1> QED
  BY <1>3, <1>4, <1>5, Zenon DEF NodeInv, M

-----------------------------------------------------------------------------
\* What a running server knows, the entries it proposes and those it fails on.

\* Apply panics only on an entry about a stream that was deleted or paused
\* before.
LEMMA PanicExcused ==
    ASSUME NEW L, LogOK(L), NEW n, NEW st, NEW a, a \in Nat, NEW r, NEW b, Live(L, n, st, a, r, b),
           a < Len(L), NEW i, NEW op, EntryAt(L, a, i, op), Panics(st, op, i)
    PROVE  Excused(L, i)
<1> DEFINE P == Parts(st)
           s == op.stream
<1>1. op \in Entries /\ i \in Nat /\ i = a + 1 /\ op = L[i] /\ i \in 1 .. Len(L) /\ Len(L) \in Nat
  BY EntryFacts, Zenon
<1>2. s \in Stream
  BY <1>1, Zenon DEF Entries
<1>3. Sound(L, P, a)
  BY Zenon DEF Live
<1>4. /\ \A t, q : <<t, q>> \in DOMAIN P <=> HasPartition(st, t, q)
      /\ \A t, q : HasPartition(st, t, q) => P[<<t, q>>] = st[t][q]
  BY PartsOfView, Zenon
<1> HIDE DEF P
<1>5. SUFFICES Disturbed(L, a, s)
  <2>1. ASSUME NEW d \in 1 .. a, Deletes(L, d, s) \/ Pauses(L, d, s) PROVE Excused(L, i)
    <3>1. d \in 1 .. i - 1 /\ L[d].type \in {"delete", "pause"} /\ L[d].stream = L[i].stream
      BY <1>1, <2>1 DEF Deletes, Pauses
    <3> QED
      BY <1>1, <3>1, Zenon DEF Excused
  <2> QED
    BY <2>1, Zenon DEF Disturbed
<1>6. CASE op.type \in {"shrink", "expand", "elect"}
  <2> DEFINE p == op.partition
             x == st[s][p]
  <2>1. p \in Partition /\ Changes(L, i, s, p)
    BY <1>1, <1>6, Zenon DEF Entries, Changes
  <2>2. /\ \E c \in 1 .. a : Creates(L, c, s, p)
        /\ op.type # "elect" /\ ~Disturbed(L, a, s) =>
             \A c \in 1 .. Len(L) : FirstCreates(L, c, s, p) => op.replica \in L[c].replicas
    BY <1>1, <1>2, <2>1 DEF LogOK
  <2>3. \/ ~HasPartition(st, s, p)
        \/ /\ HasPartition(st, s, p) /\ ~(x.epoch >= i)
           /\ IF op.type = "elect" THEN i < x.leaderEpoch ELSE op.replica \notin x.replicas
    BY <1>6, Zenon DEF Panics, AlreadyApplied
  <2>4. CASE ~HasPartition(st, s, p)
    <3>1. PICK c \in 1 .. a : Creates(L, c, s, p)
      BY <2>2, Zenon
    <3>2. <<s, p>> \notin DOMAIN P
      BY <1>4, <2>4, Zenon
    <3>3. PICK d \in c + 1 .. a : Deletes(L, d, s)
      BY <1>2, <1>3, <2>1, <3>1, <3>2, Zenon DEF Sound, Presence
    <3>4. d \in 1 .. a
      BY <1>1
    <3> QED
      BY <3>3, <3>4, Zenon DEF Disturbed
  <2>5. CASE /\ HasPartition(st, s, p) /\ ~(x.epoch >= i)
             /\ IF op.type = "elect" THEN i < x.leaderEpoch ELSE op.replica \notin x.replicas
    <3>1. <<s, p>> \in DOMAIN P /\ P[<<s, p>>] = x
      BY <1>4, <2>5, Zenon
    <3> HIDE DEF x, p, s
    <3>2. x \in ListedRecord /\ EpochsOK(L, s, p, x, a) /\ ReplicasOK(L, s, p, x)
      BY <1>2, <1>3, <2>1, <3>1, Zenon DEF Sound, PartOK
    <3>3a. x.leaderEpoch \in Nat /\ x.epoch \in Nat /\ x.leaderEpoch <= x.epoch
      BY <3>2, Zenon DEF ListedRecord, EpochsOK
    <3>3b. i \in Nat
      BY <1>1, Zenon
    <3>3. x.epoch < i /\ x.leaderEpoch < i
      BY <2>5, <3>3a, <3>3b
    <3>4. op.type # "elect" /\ op.replica \notin x.replicas
      BY <2>5, <3>3, <3>3a, <3>3b
    <3>5. \E c \in 1 .. Len(L) : FirstCreates(L, c, s, p)
      <4>1. PICK c \in 1 .. a : Creates(L, c, s, p)
        BY <2>2, Zenon
      <4>2. c \in 1 .. Len(L)
        BY <1>1
      <4>3. \E d \in 1 .. c : FirstCreates(L, d, s, p)
        BY <1>2, <2>1, <4>1, <4>2, Zenon DEF LogOK
      <4> QED
        BY <1>1, <4>2, <4>3
    <3>6. CASE \A c \in 1 .. Len(L) : FirstCreates(L, c, s, p) =>
                  x.replicas = L[c].replicas /\ x.assigned = L[c].replicas
      BY <2>2, <3>4, <3>5, <3>6, Zenon
    <3>7. CASE \A c \in 1 .. Len(L) : Changes(L, c, s, p) /\ ~Disturbed(L, c - 1, s) => c <= x.epoch
      <4>1. i \in 1 .. Len(L) /\ i - 1 = a
        BY <1>1
      <4>2. ~(i <= x.epoch)
        BY <3>3, <3>3a, <3>3b
      <4>3. Disturbed(L, i - 1, s)
        BY <2>1, <3>7, <4>1, <4>2, Zenon
      <4> QED
        BY <4>1, <4>3, Zenon
    <3> QED
      BY <3>2, <3>6, <3>7, Zenon DEF ReplicasOK
  <2> QED
    BY <2>3, <2>4, <2>5, Zenon
<1>7. CASE op.type = "delete"
  <2>1. PICK p : HasPartition(st, s, p) /\ st[s][p].paused
    BY <1>7, Zenon DEF Panics, HasPartition
  <2>2. p \in Partition
    BY <2>1, Zenon DEF Live, ViewOK, HasPartition
  <2>3. \E d \in 1 .. a : Pauses(L, d, s)
    BY <1>2, <2>1, <2>2, Zenon DEF Live, LivePart
  <2> QED
    BY <2>3, Zenon DEF Disturbed
<1> QED
  BY <1>6, <1>7, Zenon DEF Panics

\* What a server knows of a partition when it proposes an entry about it.
LEMMA KnownPartition ==
    ASSUME NEW L, LogOK(L), NEW n, NEW st, NEW a, a \in Nat, NEW r, NEW b, Live(L, n, st, a, r, b),
           NEW s, s \in Stream, NEW p, p \in Partition, HasPartition(st, s, p)
    PROVE  /\ \E c \in 1 .. Len(L) : Creates(L, c, s, p)
           /\ \E c \in 1 .. Len(L) : Creates(L, c, s, 0)
           /\ st[s][p] \in ListedRecord /\ EpochsOK(L, s, p, st[s][p], a)
           /\ ~Disturbed(L, Len(L), s) =>
                \A c \in 1 .. Len(L) : FirstCreates(L, c, s, p) => st[s][p].replicas = L[c].replicas
<1> DEFINE P == Parts(st)
<1>1. <<s, p>> \in DOMAIN P /\ P[<<s, p>>] = st[s][p]
  BY PartsOfView
<1>2. Sound(L, P, a) /\ Len(L) \in Nat
  BY DEF Live, LogOK
<1> HIDE DEF P
<1>3. PICK c \in 1 .. a : Creates(L, c, s, p)
  BY <1>1, <1>2, Zenon DEF Sound, Presence
<1>4. c \in 1 .. Len(L)
  BY <1>2 DEF Sound
<1>5. PICK d \in 1 .. c : Creates(L, d, s, 0)
  BY <1>3, <1>4, Zenon DEF LogOK
<1>6. d \in 1 .. Len(L)
  BY <1>2, <1>4
<1>7. st[s][p] \in ListedRecord /\ PartOK(L, s, p, st[s][p], a)
  BY <1>1, <1>2, Zenon DEF Sound
<1>8. EpochsOK(L, s, p, st[s][p], a) /\ ReplicasOK(L, s, p, st[s][p])
  BY <1>7, Zenon DEF PartOK
<1>9. ~Disturbed(L, Len(L), s) =>
         \A e \in 1 .. Len(L) : FirstCreates(L, e, s, p) => st[s][p].replicas = L[e].replicas
  BY <1>8, Zenon DEF ReplicasOK
<1> QED
  BY <1>3, <1>4, <1>5, <1>6, <1>7, <1>8, <1>9, Zenon

-----------------------------------------------------------------------------
\* The steps.

\* What a step does to the log.
Grows == log' = log \/ \E op : Legit(log, op) /\ log' = Append(log, op)
KeepsScenario == "scenario" \in DOMAIN count' /\ count'.scenario = count.scenario

\* A step of one server keeps the invariant if it leaves the log, or adds a
\* legitimate entry to it, and keeps what the server holds right.
LEMMA StepInv ==
    ASSUME AllInv, Grows, KeepsScenario, DOMAIN node' = Server, DOMAIN snap' = Server,
           \A m \in Server : NodeInv(log, m, node'[m]),
           \A m \in Server : Sound(log, snap'[m].parts, snap'[m].index)
    PROVE  AllInv'
<1>1. LogOK(log) /\ log \in Seq(Entries)
  BY Zenon DEF AllInv, LogOK
<1>2. CASE log' = log
  BY <1>1, <1>2, Zenon DEF AllInv, KeepsScenario
<1>3. CASE \E op : Legit(log, op) /\ log' = Append(log, op)
  <2>1. PICK op : Legit(log, op) /\ log' = Append(log, op)
    BY <1>3, Zenon
  <2>2. op \in Entries /\ LogOK(log')
    BY <1>1, <2>1, LogOKAppend, Zenon DEF Legit
  <2>3. \A m \in Server : NodeInv(log', m, node'[m])
    BY <1>1, <2>1, <2>2, NodeInvAppend, Zenon
  <2>4. \A m \in Server : Sound(log', snap'[m].parts, snap'[m].index)
    BY <1>1, <2>1, <2>2, SoundAppend, Zenon
  <2> QED
    BY <2>2, <2>3, <2>4, Zenon DEF AllInv, KeepsScenario
<1> QED
  BY <1>2, <1>3, Zenon DEF Grows

\* What a server knows is not changed.
SameNode(y, z) ==
    /\ DOMAIN z = DOMAIN y
    /\ z.status = y.status /\ z.applied = y.applied /\ z.recover = y.recover
    /\ z.restored = y.restored /\ z.streams = y.streams /\ z.persist = y.persist

\* A step that changes only who leads, reports and notifications keeps the
\* invariant.
LEMMA IdleInv ==
    ASSUME AllInv, Grows, KeepsScenario, DOMAIN node' = Server, snap' = snap,
           \A m \in Server : SameNode(node[m], node'[m])
    PROVE  AllInv'
<1>1. \A m \in Server : NodeInv(log, m, node'[m])
  BY DEF AllInv, NodeInv, SameNode
<1> QED
  BY <1>1, StepInv, Zenon DEF AllInv

\* applyRaftOperation leaves the servers as they are.
LEMMA ProposeInv ==
    ASSUME AllInv, NEW op, Legit(log, op), Propose(op), UNCHANGED <<raft, node, snap, count>>
    PROVE  AllInv'
<1>1. Grows
  BY Zenon DEF Grows, Propose
<1>2. KeepsScenario /\ DOMAIN node' = Server
  BY Zenon DEF KeepsScenario, AllInv
<1>3. \A m \in Server : SameNode(node[m], node'[m])
  BY Zenon DEF SameNode
<1> QED
  BY <1>1, <1>2, <1>3, IdleInv, Zenon

\* What AllInv says of a server that is up.
LEMMA UpServer ==
    ASSUME AllInv, NEW n \in Server, Up(n)
    PROVE  /\ DOMAIN node[n] = Fields /\ LogOK(log) /\ Len(log) \in Nat
           /\ node[n].applied \in 0 .. Len(log) /\ node[n].applied \in Nat
           /\ node[n].recover \in Int /\ node[n].restored \in BOOLEAN
           /\ Live(log, n, View(n), node[n].applied, node[n].recover, node[n].restored)
           /\ Writing(log, View(n), node[n].applied, node[n].persist)
<1>1. LogOK(log) /\ NodeInv(log, n, node[n])
  BY Zenon DEF AllInv
<1>2. Len(log) \in Nat
  BY <1>1 DEF LogOK
<1> QED
  BY <1>1, <1>2 DEF NodeInv, Up, View

\* The entries of the metadataAPI.
LEMMA CreateLegit ==
    ASSUME NEW s \in Stream, NEW p \in Partition, NEW f, NEW a \in Assignments(f),
           p = 0 \/ \E c \in 1 .. Len(log), q \in Partition : Creates(log, c, s, q)
    PROVE  Legit(log, CreateOp(s, p, a)) /\ a[1] \in SUBSET Server /\ a[2] \in Server
<1>1. PICK R \in SUBSET Server : a \in {R} \X R
  BY Zenon DEF Assignments
<1>2. a[1] = R /\ a[2] \in R
  BY <1>1, Zenon
<1> DEFINE op == CreateOp(s, p, a)
<1>3. /\ op \in Entries /\ op.type = "create" /\ op.stream = s /\ op.partition = p
      /\ op.replicas = R /\ op.leader = a[2]
  BY <1>2, Zenon DEF CreateOp, Entries
<1> HIDE DEF op
<1>4. Legit(log, op)
  BY <1>2, <1>3, Zenon DEF Legit
<1> QED
  BY <1>2, <1>4, Zenon DEF op

\* CreatePartition keeps the invariant (metadata.go).
LEMMA CreatePartitionInv ==
    ASSUME AllInv, NEW n \in Server, NEW s \in Stream, NEW p \in Partition, CreatePartition(n, s, p)
    PROVE  AllInv'
<1>0. PICK f \in Bound.factors : \E a \in Assignments(f) : Propose(CreateOp(s, p, a))
  BY Zenon DEF CreatePartition
<1>1. PICK a \in Assignments(f) : Propose(CreateOp(s, p, a))
  BY <1>0, Zenon
<1>2. p = 0 \/ \E c \in 1 .. Len(log), q \in Partition : Creates(log, c, s, q)
  <2>1. CASE p # 0
    <3>1. PICK i \in 1 .. Len(log) : log[i].type = "create" /\ log[i].stream = s
      BY <2>1, Zenon DEF CreatePartition
    <3>2. log[i] \in Entries
      BY DEF AllInv, LogOK
    <3>3. log[i].partition \in Partition
      BY <3>1, <3>2, Zenon DEF Entries
    <3> QED
      BY <3>1, <3>3, Zenon DEF Creates
  <2> QED
    BY <2>1, Zenon
<1>3. Legit(log, CreateOp(s, p, a))
  BY <1>2, CreateLegit, Zenon
<1> QED
  BY <1>1, <1>3, ProposeInv, Zenon DEF CreatePartition

\* So do DeleteStream and PauseStream.
LEMMA DeletePauseInv ==
    ASSUME AllInv, NEW n \in Server, NEW s \in Stream,
           DeleteStream(n, s) \/ \E ps \in Bound.pauses : PauseStream(n, s, ps)
    PROVE  AllInv'
<1>1. CASE DeleteStream(n, s)
  <2> DEFINE op == [type |-> "delete", stream |-> s]
  <2>1. Legit(log, op)
    BY Zenon DEF Legit, Entries
  <2>2. Propose(op) /\ UNCHANGED <<raft, node, snap, count>>
    BY <1>1, Zenon DEF DeleteStream
  <2> HIDE DEF op
  <2> QED
    BY <2>1, <2>2, ProposeInv, Zenon
<1>2. ASSUME NEW ps \in Bound.pauses, PauseStream(n, s, ps) PROVE AllInv'
  <2> DEFINE op == [type |-> "pause", stream |-> s, partitions |-> ps]
  <2>1. ps \in SUBSET Partition
    BY MetadataAssumption, Zenon DEF AllInv, Bound
  <2>2. Legit(log, op)
    BY <2>1, Zenon DEF Legit, Entries
  <2>3. Propose(op) /\ UNCHANGED <<raft, node, snap, count>>
    BY <1>2, Zenon DEF PauseStream
  <2> HIDE DEF op
  <2> QED
    BY <2>2, <2>3, ProposeInv, Zenon
<1> QED
  BY <1>1, <1>2, Zenon

\* So do the requests of a partition leader to change the ISR.
LEMMA ISRInv ==
    ASSUME AllInv, NEW n \in Server, NEW s \in Stream, NEW p \in Partition, NEW r \in Server,
           ShrinkISR(n, s, p, r) \/ ExpandISR(n, s, p, r)
    PROVE  AllInv'
<1>1. PICK type \in {"shrink", "expand"} :
         Propose([type |-> type, stream |-> s, partition |-> p, replica |-> r])
  BY Zenon DEF ShrinkISR, ExpandISR
<1> DEFINE op == [type |-> type, stream |-> s, partition |-> p, replica |-> r]
<1>2. Up(n) /\ HasPartition(View(n), s, p) /\ r \in View(n)[s][p].replicas
  BY Zenon DEF ShrinkISR, ExpandISR, ISRRequest, Handles, Part
<1>3. /\ \E c \in 1 .. Len(log) : Creates(log, c, s, p)
      /\ ~Disturbed(log, Len(log), s) =>
           \A c \in 1 .. Len(log) : FirstCreates(log, c, s, p) => r \in log[c].replicas
  BY <1>2, UpServer, KnownPartition
<1>4. /\ op \in Entries /\ op.type \in {"shrink", "expand"} /\ op.stream = s /\ op.partition = p
      /\ op.replica = r
  BY Zenon DEF Entries
<1>5. Propose(op) /\ UNCHANGED <<raft, node, snap, count>>
  BY <1>1, Zenon DEF ShrinkISR, ExpandISR
<1> HIDE DEF op
<1>6. Legit(log, op)
  BY <1>3, <1>4, Zenon DEF Legit
<1> QED
  BY <1>5, <1>6, ProposeInv, Zenon

\* Only the reports, notifications or controller state of servers change.
LEMMA NodeShape ==
    ASSUME AllInv
    PROVE  DOMAIN node = Server /\ \A m \in Server : DOMAIN node[m] = Fields
  BY Zenon DEF AllInv, NodeInv

\* Reports touch nothing else of a server.
LEMMA ReportInv ==
    ASSUME AllInv, NEW n \in Server, NEW reports,
           node' = [node EXCEPT ![n].reports = reports], Grows, KeepsScenario, snap' = snap
    PROVE  AllInv'
<1>1. DOMAIN node = Server /\ \A m \in Server : DOMAIN node[m] = Fields
  BY NodeShape, Zenon
<1>2. DOMAIN node' = Server /\ \A m \in Server : SameNode(node[m], node'[m])
  BY <1>1, Zenon DEF SameNode, Fields
<1> QED
  BY <1>2, IdleInv, Zenon

\* ReportLeader keeps the invariant, whether it elects a leader or not.
LEMMA ReportLeaderInv ==
    ASSUME AllInv, NEW n \in Server, NEW s \in Stream, NEW p \in Partition, NEW w \in Server,
           ReportLeader(n, s, p, w)
    PROVE  AllInv'
<1>1. Up(n) /\ HasPartition(View(n), s, p) /\ snap' = snap
  BY Zenon DEF ReportLeader, SameGeneration
<1>2. KeepsScenario
  BY Zenon DEF KeepsScenario, AllInv, ReportLeader
<1> DEFINE k == <<s, p, Part(n, s, p).obj>>
           report == [ReportOf(n, k) EXCEPT !.witnesses = @ \cup {w}]
<1>3. CASE ElectNewPartitionLeader(n, s, p, [report EXCEPT !.timer = FALSE])
  <2> DEFINE candidates == IF Cardinality(Part(n, s, p).isr) <= 1 THEN {}
                           ELSE Part(n, s, p).isr \ {Part(n, s, p).leader}
  <2>1. /\ \E reports : node' = [node EXCEPT ![n].reports = reports]
        /\ \/ UNCHANGED log
           \/ \E l \in candidates :
                Propose([type |-> "elect", stream |-> s, partition |-> 0, leader |-> l])
    BY <1>3, Zenon DEF ElectNewPartitionLeader
  <2>2. Grows
    <3>1. CASE UNCHANGED log
      BY <3>1, Zenon DEF Grows
    <3>2. ASSUME NEW l \in candidates,
                 Propose([type |-> "elect", stream |-> s, partition |-> 0, leader |-> l])
          PROVE  Grows
      <4> DEFINE op == [type |-> "elect", stream |-> s, partition |-> 0, leader |-> l]
      <4>1. View(n)[s][p] \in ListedRecord /\ \E c \in 1 .. Len(log) : Creates(log, c, s, 0)
        BY <1>1, UpServer, KnownPartition, Zenon
      <4>2. l \in Server
        BY <3>2, <4>1, Zenon DEF Part, ListedRecord
      <4>3. op \in Entries /\ op.type = "elect" /\ op.stream = s /\ op.partition = 0
        BY <4>2, MetadataAssumption, Zenon DEF Entries
      <4>4. log' = Append(log, op)
        BY <3>2, Zenon DEF Propose
      <4> HIDE DEF op
      <4>5. Legit(log, op)
        BY <4>1, <4>3, Zenon DEF Legit
      <4> QED
        BY <4>4, <4>5, Zenon DEF Grows
    <3> QED
      BY <2>1, <3>1, <3>2, Zenon
  <2> QED
    BY <1>1, <1>2, <2>1, <2>2, ReportInv, Zenon
<1>4. CASE /\ node' = [node EXCEPT ![n].reports = With(@, k, [report EXCEPT !.timer = TRUE])]
           /\ UNCHANGED log
  <2>1. \E reports : node' = [node EXCEPT ![n].reports = reports]
    BY <1>4, Zenon
  <2> QED
    BY <1>1, <1>2, <1>4, <2>1, ReportInv, Zenon DEF Grows
<1> QED
  BY <1>3, <1>4, Zenon DEF ReportLeader

\* So does the timer of a report.
LEMMA ExpireReportInv ==
    ASSUME AllInv, NEW n \in Server, NEW k, ExpireReport(n, k)
    PROVE  AllInv'
<1>1. \E reports : node' = [node EXCEPT ![n].reports = reports]
  BY Zenon DEF ExpireReport
<1>2. KeepsScenario /\ Grows /\ snap' = snap
  BY Zenon DEF ExpireReport, KeepsScenario, Grows, AllInv
<1> QED
  BY <1>1, <1>2, ReportInv, Zenon

\* So do elections in the Raft group and the notifications of them.
LEMMA LeadershipInv ==
    ASSUME AllInv, NEW n \in Server, Elect(n) \/ LeadershipAcquired(n) \/ LeadershipLost(n)
    PROVE  AllInv'
<1>1. DOMAIN node = Server /\ \A m \in Server : DOMAIN node[m] = Fields
  BY NodeShape, Zenon
<1>2. KeepsScenario /\ Grows /\ snap' = snap
  BY Zenon DEF Elect, LeadershipAcquired, LeadershipLost, KeepsScenario, Grows, AllInv
<1>3. DOMAIN node' = Server /\ \A m \in Server : SameNode(node[m], node'[m])
  <2>1. CASE Elect(n)
    BY <1>1, <2>1, Zenon DEF Elect, SameNode, Fields
  <2>2. CASE LeadershipAcquired(n)
    BY <1>1, <2>2, Zenon DEF LeadershipAcquired, SameNode, Fields
  <2>3. CASE LeadershipLost(n)
    BY <1>1, <2>3, Zenon DEF LeadershipLost, SameNode, Fields
  <2> QED
    BY <2>1, <2>2, <2>3, Zenon
<1> QED
  BY <1>2, <1>3, IdleInv, Zenon

-----------------------------------------------------------------------------
\* Apply.

\* Server n, with memory y, applies entry i, op, while its recovery ends at r.
Applies(n, y, op, i, r, new, st) ==
    /\ new = ApplyEntry(n, y.streams, op, i, i <= r)
    /\ st = IF i = r THEN FinishedRecovery(n, new) ELSE new

\* An entry that is applied keeps what a server knows and is about to write
\* right.
LEMMA AppliesLive ==
    ASSUME NEW L, NEW n, NEW y, NEW op, NEW i, NEW r, NEW new, NEW st,
           Applies(n, y, op, i, r, new, st), LogOK(L), n \in Server,
           NodeInv(L, n, y), y.status = "up", EntryAt(L, y.applied, i, op), y.applied < Len(L),
           ~Panics(y.streams, op, i), r \in Int, y.recover # -1 => r = y.recover
    PROVE  /\ Live(L, n, st, i, IF i < r THEN r ELSE 0, y.restored)
           /\ Writing(L, st, i, Listed(y.persist, st))
<1> DEFINE a == y.applied
           old == y.streams
           b == y.restored
           r0 == y.recover
           rec == i <= r
           r2 == IF i < r THEN r ELSE 0
           parts == y.persist.parts
           j == y.persist.index
<1>1. /\ a \in Nat /\ r0 \in Int /\ b \in BOOLEAN /\ rec \in BOOLEAN
      /\ Live(L, n, old, a, r0, b) /\ Writing(L, old, a, y.persist)
  BY DEF NodeInv, LogOK
<1>2. new = ApplyEntry(n, old, op, i, rec) /\ st = IF i = r THEN FinishedRecovery(n, new) ELSE new
  BY Zenon DEF Applies
<1>3. i \in Nat /\ i = a + 1 /\ EntryAt(L, a, i, op) /\ a < Len(L) /\ ~Panics(old, op, i)
  BY <1>1 DEF EntryAt
<1>4. r0 # -1 => r = r0
  BY Zenon
<1>5. /\ DOMAIN y.persist = {"index", "parts"}
      /\ j \in 0 .. a /\ Sound(L, parts, j) /\ ListedOK(L, old, a, parts, j)
      /\ y.persist = [index |-> j, parts |-> parts]
  BY <1>1, Zenon DEF Writing
<1>5a. rec <=> i <= r
  BY Zenon
<1> HIDE DEF a, old, b, r0, rec, r2, parts, j
<1>6. Live(L, n, st, i, r2, b)
  <2>1. Entered(n, old, op, i, r, rec, new, st, r2)
    BY <1>1, <1>2, <1>5a, Zenon DEF Entered, r2
  <2> QED
    BY <2>1, <1>1, <1>3, <1>4, LiveApply, Zenon
<1>7. ListedOK(L, new, i, parts, j)
  <2>1. AppliedTo(n, old, op, i, rec, new)
    BY <1>2, Zenon DEF AppliedTo
  <2> QED
    BY <1>1, <1>3, <1>5, <2>1, ListedApply
<1>8. ViewOK(new) /\ Sound(L, Parts(new), i)
  <2>1. AppliedTo(n, old, op, i, rec, new)
    BY <1>2, Zenon DEF AppliedTo
  <2> QED
    BY <1>1, <1>3, <2>1, LiveEntry, Zenon
<1>9. ListedOK(L, st, i, parts, j)
  <2>1. CASE i # r
    BY <1>2, <1>7, <2>1, Zenon
  <2>2. CASE i = r
    <3>1. st = FinishedRecovery(n, new)
      BY <1>2, <2>2, Zenon
    <3>2. /\ \A s, p : HasPartition(st, s, p) <=> HasPartition(new, s, p)
          /\ \A s, p : HasPartition(new, s, p) => st[s][p] = StartRecovered(n, new[s][p])
      BY <3>1, FinishedView
    <3>3. /\ \A s, p : <<s, p>> \in DOMAIN Parts(new) <=> HasPartition(new, s, p)
          /\ \A s, p : HasPartition(new, s, p) => Parts(new)[<<s, p>>] = new[s][p]
      BY PartsOfView, Zenon
    <3>4. ASSUME NEW s \in Stream, NEW p \in Partition, HasPartition(st, s, p)
          PROVE  /\ HasPartition(new, s, p)
                 /\ st[s][p].obj = new[s][p].obj /\ st[s][p].paused = new[s][p].paused
      <4>1. HasPartition(new, s, p) /\ st[s][p] = StartRecovered(n, new[s][p])
        BY <3>2, <3>4, Zenon
      <4>2. new[s][p] \in ListedRecord
        BY <1>8, <3>3, <4>1, Zenon DEF Sound
      <4> QED
        BY <4>1, <4>2, StartedRecord
    <3>5. KeepsObjects(new, st)
      BY <3>4, Zenon DEF KeepsObjects
    <3> QED
      BY <1>7, <3>5, ListedKeeps, Zenon
  <2> QED
    BY <2>1, <2>2, Zenon
<1>10. Writing(L, st, i, y.persist)
  <2>1. j \in 0 .. i
    BY <1>1, <1>3, <1>5
  <2> QED
    BY <1>5, <1>9, <2>1, Zenon DEF Writing, parts, j
<1>11. Writing(L, st, i, Listed(y.persist, st))
  BY <1>3, <1>6, <1>10, WritingFollows, Zenon
<1> QED
  BY <1>6, <1>11, Zenon DEF r2, b

\* A server that is not up knows nothing.
LEMMA StoppedInv ==
    ASSUME NEW L, NEW n, NEW y, DOMAIN y = Fields, LogOK(L),
           y.status # "up", y.recover \in Int, y.restored \in BOOLEAN, y.streams = <<>>,
           y.applied \in 0 .. Len(L), y.status = "panicked" => Excused(L, y.applied)
    PROVE  NodeInv(L, n, y)
<1>1. DOMAIN << >> = {}
  OBVIOUS
<1>2. DOMAIN y.streams = {}
  BY <1>1, Zenon
<1> QED
  BY <1>2, Zenon DEF NodeInv

\* The fields of a server that has just started.
LEMMA StartedFields ==
    /\ DOMAIN Started = Fields /\ Started.recover = -1 /\ Started.recover \in Int
    /\ ~Started.restored /\ Started.restored \in BOOLEAN
    /\ Started.streams = <<>> /\ Started.applied = 0 /\ Started.status = "up"
    /\ Started.persist = NoSnapshot /\ ~Started.leader /\ Started.notify = <<>>
    /\ Started.reports = <<>>
  BY DEF Started, Fields

\* Apply keeps the invariant, the panics included (fsm.go).
LEMMA ApplyInv ==
    ASSUME AllInv, NEW n \in Server, Apply(n)
    PROVE  AllInv'
<1> DEFINE i == node[n].applied + 1
           op == log[i]
<1>1. /\ Up(n) /\ i <= Len(log) /\ snap' = snap /\ Grows /\ KeepsScenario
  BY Zenon DEF Apply, Grows, KeepsScenario, AllInv
<1>2. /\ DOMAIN node = Server /\ \A m \in Server : DOMAIN node[m] = Fields
      /\ \A m \in Server : NodeInv(log, m, node[m])
      /\ \A m \in Server : Sound(log, snap'[m].parts, snap'[m].index)
      /\ DOMAIN snap' = Server
  BY <1>1, NodeShape, Zenon DEF AllInv
<1>3. /\ node[n].applied \in Nat /\ node[n].applied < Len(log) /\ EntryAt(log, node[n].applied, i, op)
      /\ LogOK(log) /\ Len(log) \in Nat /\ i \in 0 .. Len(log) /\ i \in Nat
      /\ Live(log, n, View(n), node[n].applied, node[n].recover, node[n].restored)
      /\ node[n].status = "up" /\ node[n].recover \in Int /\ node[n].restored \in BOOLEAN
  BY <1>1, UpServer DEF EntryAt, Up
<1>4. CASE Panics(View(n), op, i)
  <2> DEFINE y == [Started EXCEPT !.status = "panicked", !.applied = i]
  <2>1. node' = [node EXCEPT ![n] = y]
    BY <1>4, Zenon DEF Apply
  <2>2. /\ DOMAIN y = Fields /\ y.status = "panicked" /\ y.recover \in Int /\ y.restored \in BOOLEAN
        /\ y.streams = <<>> /\ y.applied = i
    BY StartedFields, Zenon DEF Fields
  <2>3. Excused(log, i)
    BY <1>3, <1>4, PanicExcused, Zenon
  <2> HIDE DEF y
  <2>4. NodeInv(log, n, y)
    BY <1>3, <2>2, <2>3, StoppedInv, Zenon
  <2>5. DOMAIN node' = Server /\ \A m \in Server : NodeInv(log, m, node'[m])
    BY <1>2, <2>1, <2>4, Zenon
  <2> QED
    BY <1>1, <1>2, <2>5, StepInv, Zenon
<1>5. CASE ~Panics(View(n), op, i)
  <2>1. PICK r \in RecoverTo(n) : \E reports :
          LET new == ApplyEntry(n, View(n), op, i, i <= r)
              st  == IF i = r THEN FinishedRecovery(n, new) ELSE new
          IN node' = [node EXCEPT ![n].applied = i,
                                  ![n].recover = IF i < r THEN r ELSE 0,
                                  ![n].streams = st,
                                  ![n].persist = Listed(@, st),
                                  ![n].reports = reports]
    BY <1>5, Zenon DEF Apply
  <2>2. r \in Int /\ (node[n].recover # -1 => r = node[n].recover)
    BY <1>3 DEF RecoverTo
  <2> DEFINE new == ApplyEntry(n, View(n), op, i, i <= r)
             st == IF i = r THEN FinishedRecovery(n, new) ELSE new
  <2>3. PICK reports :
          node' = [node EXCEPT ![n].applied = i,
                               ![n].recover = IF i < r THEN r ELSE 0,
                               ![n].streams = st,
                               ![n].persist = Listed(@, st),
                               ![n].reports = reports]
    BY <2>1, Zenon
  <2>4. Applies(n, node[n], op, i, r, new, st)
    BY Zenon DEF Applies, View
  <2> HIDE DEF new, st, op, i
  <2> DEFINE y == node'[n]
  <2>5. /\ DOMAIN node' = Server /\ (\A m \in Server \ {n} : node'[m] = node[m])
        /\ DOMAIN y = Fields /\ y.applied = i /\ y.recover = (IF i < r THEN r ELSE 0)
        /\ y.streams = st /\ y.persist = Listed(node[n].persist, st)
        /\ y.status = "up" /\ y.restored = node[n].restored
    BY <1>2, <1>3, <2>3 DEF Fields
  <2>6. /\ Live(log, n, st, i, IF i < r THEN r ELSE 0, node[n].restored)
        /\ Writing(log, st, i, Listed(node[n].persist, st))
    BY <1>2, <1>3, <1>5, <2>2, <2>4, AppliesLive, Zenon DEF View
  <2> HIDE DEF y
  <2>7. NodeInv(log, n, y)
    BY <1>3, <2>2, <2>5, <2>6 DEF NodeInv
  <2>8. \A m \in Server : NodeInv(log, m, node'[m])
    BY <1>2, <2>5, <2>7, Zenon DEF y
  <2> QED
    BY <1>1, <1>2, <2>5, <2>8, StepInv, Zenon
<1> QED
  BY <1>4, <1>5, Zenon

-----------------------------------------------------------------------------
\* The other steps that change what servers know.

\* Only server n changes.
LEMMA NodeStepInv ==
    ASSUME AllInv, NEW n \in Server, Grows, KeepsScenario, DOMAIN node' = Server, snap' = snap,
           \A m \in Server \ {n} : node'[m] = node[m], NodeInv(log, n, node'[n])
    PROVE  AllInv'
<1>1. \A m \in Server : NodeInv(log, m, node'[m])
  BY Zenon DEF AllInv
<1> QED
  BY <1>1, StepInv, Zenon DEF AllInv

\* Resuming a partition keeps the invariant (resumeStream, api.go).
LEMMA ResumeInv ==
    ASSUME AllInv, NEW n \in Server, NEW s \in Stream, NEW p \in Partition, Resume(n, s, p)
    PROVE  AllInv'
<1>1. /\ Up(n) /\ HasPartition(View(n), s, p) /\ View(n)[s][p].paused
      /\ snap' = snap /\ KeepsScenario
  BY Zenon DEF Resume, Part, KeepsScenario, AllInv
<1> DEFINE L == log
           a == node[n].applied
           r == node[n].recover
           b == node[n].restored
           z == node[n].persist
<1>2. /\ DOMAIN node[n] = Fields /\ LogOK(L) /\ Len(L) \in Nat /\ a \in 0 .. Len(L) /\ a \in Nat
      /\ r \in Int /\ b \in BOOLEAN /\ Live(L, n, View(n), a, r, b) /\ Writing(L, View(n), a, z)
      /\ DOMAIN node = Server /\ node[n].status = "up"
  BY <1>1, UpServer, NodeShape, Zenon DEF Up
<1>3. PICK A \in Assignments(Cardinality(Part(n, s, p).assigned)) :
         IF node[n].leader \/ raft.leader = n
         THEN /\ LET st == [View(n) EXCEPT ![s][p].assigned = A[1], ![s][p].leader = A[2]]
                 IN node' = [node EXCEPT ![n].streams = st, ![n].persist = Listed(@, st)]
              /\ IF raft.leader = n THEN Propose(CreateOp(s, p, A)) ELSE UNCHANGED log
         ELSE Propagate(CreateOp(s, p, A)) /\ UNCHANGED node
  BY Zenon DEF Resume
<1>4. Legit(log, CreateOp(s, p, A)) /\ A[1] \in SUBSET Server /\ A[2] \in Server
  <2>1. \E c \in 1 .. Len(log) : Creates(log, c, s, p)
    BY <1>1, <1>2, KnownPartition, Zenon
  <2> QED
    BY <2>1, CreateLegit, Zenon
<1>5. Grows
  BY <1>3, <1>4, Zenon DEF Grows, Propose, Propagate
<1>6. CASE UNCHANGED node
  <2>1. NodeInv(log, n, node'[n]) /\ DOMAIN node' = Server
    BY <1>2, <1>6, Zenon DEF AllInv
  <2> QED
    BY <1>1, <1>5, <1>6, <2>1, NodeStepInv, Zenon
<1>7. CASE node[n].leader \/ raft.leader = n
  <2> DEFINE st == [View(n) EXCEPT ![s][p].assigned = A[1], ![s][p].leader = A[2]]
  <2>1. node' = [node EXCEPT ![n].streams = st, ![n].persist = Listed(@, st)]
    BY <1>3, <1>7, Zenon
  <2>2. Reassigned(View(n), s, p, A[1], A[2], st)
    BY Zenon DEF Reassigned
  <2> HIDE DEF st
  <2>3. /\ DOMAIN node' = Server /\ (\A m \in Server \ {n} : node'[m] = node[m])
        /\ DOMAIN node'[n] = Fields /\ node'[n].applied = a /\ node'[n].recover = r
        /\ node'[n].restored = b /\ node'[n].status = "up" /\ node'[n].streams = st
        /\ node'[n].persist = Listed(z, st)
    BY <1>2, <2>1, Zenon DEF Fields
  <2> HIDE DEF L, a, r, b, z
  <2>4. Live(L, n, st, a, r, b) /\ KeepsObjects(View(n), st)
    BY <1>1, <1>2, <1>4, <2>2, ResumedLive
  <2>5. Writing(L, st, a, z)
    <3>1. ListedOK(L, View(n), a, z.parts, z.index)
      BY <1>2, Zenon DEF Writing
    <3>2. ListedOK(L, st, a, z.parts, z.index)
      BY <2>4, <3>1, ListedKeeps, Zenon
    <3> QED
      BY <1>2, <3>2, Zenon DEF Writing
  <2>6. Writing(L, st, a, Listed(z, st))
    BY <1>2, <2>4, <2>5, WritingFollows, Zenon
  <2>7. NodeInv(L, n, node'[n])
    BY <1>2, <2>3, <2>4, <2>6, Zenon DEF NodeInv
  <2> QED
    BY <1>1, <1>5, <2>3, <2>7, NodeStepInv, Zenon DEF L
<1> QED
  BY <1>3, <1>6, <1>7, Zenon

\* Snapshot keeps the invariant.
LEMMA SnapshotInv ==
    ASSUME AllInv, NEW n \in Server, Snapshot(n)
    PROVE  AllInv'
<1>1. Up(n) /\ Grows /\ snap' = snap /\ KeepsScenario
  BY Zenon DEF Snapshot, Grows, KeepsScenario, AllInv
<1>2. node' = [node EXCEPT ![n].persist = [index |-> node[n].applied, parts |-> Parts(View(n))]]
  BY Zenon DEF Snapshot, Parts, Part
<1>3. DOMAIN node[n] = Fields /\ DOMAIN node = Server /\ node[n].status = "up"
  BY <1>1, NodeShape, Zenon DEF Up
<1> DEFINE z == [index |-> node[n].applied, parts |-> Parts(View(n))]
<1>4. Writing(log, View(n), node[n].applied, z)
  BY <1>1, UpServer, WritingStarts, Zenon
<1>5. /\ DOMAIN node' = Server /\ (\A m \in Server \ {n} : node'[m] = node[m])
      /\ DOMAIN node'[n] = Fields /\ node'[n].applied = node[n].applied
      /\ node'[n].recover = node[n].recover /\ node'[n].restored = node[n].restored
      /\ node'[n].status = "up" /\ node'[n].streams = View(n) /\ node'[n].persist = z
  BY <1>2, <1>3, Zenon DEF Fields, View
<1> HIDE DEF z
<1>6. NodeInv(log, n, node'[n])
  BY <1>1, <1>4, <1>5, UpServer, Zenon DEF NodeInv
<1> QED
  BY <1>1, <1>5, <1>6, NodeStepInv, Zenon

\* So does Persist, which writes the partitions as they have become.
LEMMA PersistInv ==
    ASSUME AllInv, NEW n \in Server, Persist(n)
    PROVE  AllInv'
<1>1. Up(n) /\ Grows /\ KeepsScenario
  BY Zenon DEF Persist, Grows, KeepsScenario, AllInv
<1>2. /\ snap' = [snap EXCEPT ![n] = node[n].persist]
      /\ node' = [node EXCEPT ![n].persist = NoSnapshot]
  BY Zenon DEF Persist
<1>3. DOMAIN node[n] = Fields /\ DOMAIN node = Server /\ node[n].status = "up" /\ DOMAIN snap = Server
  BY <1>1, NodeShape, Zenon DEF Up, AllInv
<1>4. Writing(log, View(n), node[n].applied, NoSnapshot)
  BY <1>1, UpServer, WritingNothing, Zenon
<1>5. /\ DOMAIN node' = Server /\ (\A m \in Server \ {n} : node'[m] = node[m])
      /\ DOMAIN node'[n] = Fields /\ node'[n].applied = node[n].applied
      /\ node'[n].recover = node[n].recover /\ node'[n].restored = node[n].restored
      /\ node'[n].status = "up" /\ node'[n].streams = View(n) /\ node'[n].persist = NoSnapshot
  BY <1>2, <1>3, Zenon DEF Fields, View
<1>6. NodeInv(log, n, node'[n])
  BY <1>1, <1>4, <1>5, UpServer, Zenon DEF NodeInv
<1>7. \A m \in Server : NodeInv(log, m, node'[m])
  BY <1>5, <1>6, Zenon DEF AllInv
<1>8. Sound(log, node[n].persist.parts, node[n].persist.index)
  BY <1>1, UpServer, Zenon DEF Writing
<1>9. DOMAIN snap' = Server /\ \A m \in Server : Sound(log, snap'[m].parts, snap'[m].index)
  BY <1>2, <1>3, <1>8, Zenon DEF AllInv
<1> QED
  BY <1>1, <1>5, <1>7, <1>9, StepInv, Zenon

\* So does a snapshot that another server sends.
LEMMA InstallSnapshotInv ==
    ASSUME AllInv, NEW n \in Server, NEW m \in Server, InstallSnapshot(n, m)
    PROVE  AllInv'
<1> DEFINE parts == snap[m].parts
           i == snap[m].index
           st == Restored(n, parts)
           z == Detached(node[n].persist)
<1>1. Up(n) /\ Grows /\ KeepsScenario /\ node[n].applied < i /\ snap' = [snap EXCEPT ![n] = snap[m]]
  BY Zenon DEF InstallSnapshot, Grows, KeepsScenario, AllInv
<1>2. node' = [node EXCEPT ![n].streams = st, ![n].reports = <<>>, ![n].applied = i,
                           ![n].restored = TRUE, ![n].persist = Detached(@)]
  BY Zenon DEF InstallSnapshot
<1>3. /\ DOMAIN node[n] = Fields /\ DOMAIN node = Server /\ node[n].status = "up"
      /\ DOMAIN snap = Server /\ Sound(log, parts, i) /\ LogOK(log) /\ Len(log) \in Nat
      /\ node[n].applied \in Nat /\ node[n].recover \in Int
      /\ Writing(log, View(n), node[n].applied, node[n].persist)
  BY <1>1, NodeShape, UpServer, Zenon DEF Up, AllInv
<1> HIDE DEF parts, i
<1>4. i \in 0 .. Len(log) /\ i \in Nat /\ node[n].applied <= i
  BY <1>1, <1>3 DEF Sound
<1>5. Live(log, n, st, i, node[n].recover, TRUE)
  BY <1>3, <1>4, RestoredLive, Zenon
<1>6. Writing(log, st, i, z)
  BY <1>3, <1>4, WritingDetached, Zenon
<1>7. /\ DOMAIN node' = Server /\ (\A k \in Server \ {n} : node'[k] = node[k])
      /\ DOMAIN node'[n] = Fields /\ node'[n].applied = i
      /\ node'[n].recover = node[n].recover /\ node'[n].restored = TRUE
      /\ node'[n].status = "up" /\ node'[n].streams = st /\ node'[n].persist = z
  BY <1>2, <1>3, Zenon DEF Fields
<1> HIDE DEF st, z
<1>8. NodeInv(log, n, node'[n])
  <2>1. node'[n].restored \in BOOLEAN
    BY <1>7, Zenon
  <2>2. Live(log, n, node'[n].streams, node'[n].applied, node'[n].recover, node'[n].restored)
    BY <1>5, <1>7, Zenon
  <2> QED
    BY <1>3, <1>4, <1>6, <1>7, <2>1, <2>2, Zenon DEF NodeInv
<1>9. \A k \in Server : NodeInv(log, k, node'[k])
  BY <1>7, <1>8, Zenon DEF AllInv
<1>10. DOMAIN snap' = Server /\ \A k \in Server : Sound(log, snap'[k].parts, snap'[k].index)
  BY <1>1, <1>3, Zenon DEF AllInv
<1> QED
  BY <1>1, <1>7, <1>9, <1>10, StepInv, Zenon

\* So does a crash, after which the snapshot is all that is left.
LEMMA CrashInv ==
    ASSUME AllInv, NEW n \in Server, Crash(n) \/ StepDown(n)
    PROVE  AllInv'
<1> DEFINE y == [Started EXCEPT !.status = "down"]
<1>1. Grows /\ KeepsScenario /\ snap' = snap /\ node' = [node EXCEPT ![n] = y]
  BY Zenon DEF Crash, StepDown, Grows, KeepsScenario, AllInv
<1>2. /\ DOMAIN y = Fields /\ y.status = "down" /\ y.recover \in Int /\ y.restored \in BOOLEAN
      /\ y.streams = <<>> /\ y.applied = 0
  BY StartedFields, Zenon DEF Fields
<1>3. DOMAIN node = Server /\ LogOK(log) /\ 0 \in 0 .. Len(log)
  <2>1. DOMAIN node = Server /\ LogOK(log)
    BY Zenon DEF AllInv
  <2>2. Len(log) \in Nat
    BY <2>1 DEF LogOK
  <2> QED
    BY <2>1, <2>2
<1> HIDE DEF y
<1>4. NodeInv(log, n, y)
  BY <1>2, <1>3, StoppedInv, Zenon
<1>5. DOMAIN node' = Server /\ (\A m \in Server \ {n} : node'[m] = node[m]) /\ node'[n] = y
  BY <1>1, <1>3, Zenon
<1> QED
  BY <1>1, <1>4, <1>5, NodeStepInv, Zenon

\* A server that starts without a snapshot knows nothing.
LEMMA EmptyLive ==
    ASSUME NEW L, LogOK(L), NEW n, NEW st, DOMAIN st = {}
    PROVE  Live(L, n, st, 0, -1, FALSE)
<1>1. ViewOK(st) /\ \A s, p : ~HasPartition(st, s, p)
  BY Zenon DEF ViewOK, HasPartition
<1>2. DOMAIN Parts(st) = {}
  BY Zenon DEF Parts, Partitions
<1> DEFINE P == Parts(st)
<1> HIDE DEF P
<1>3. 0 \in 0 .. Len(L) /\ 1 .. 0 = {} /\ DOMAIN P = {}
  BY <1>2 DEF LogOK, P
<1>4. Presence(L, P, 0)
  BY <1>3, Zenon DEF Presence
<1>5. Sound(L, P, 0)
  BY <1>3, <1>4, Zenon DEF Sound
<1> QED
  BY <1>1, <1>5, Zenon DEF Live, P

\* A server that starts without a snapshot knows nothing and is right about
\* it.
LEMMA StartedInv ==
    ASSUME NEW L, LogOK(L), NEW n, NEW y, DOMAIN y = Fields, y.status = "up",
           y.applied = 0, y.recover = -1, ~y.restored, y.restored \in BOOLEAN,
           DOMAIN y.streams = {}, y.persist = NoSnapshot
    PROVE  NodeInv(L, n, y)
<1>1. 0 \in 0 .. Len(L) /\ -1 \in Int
  BY DEF LogOK
<1>2. Live(L, n, y.streams, 0, -1, FALSE)
  BY EmptyLive, Zenon
<1>3. Live(L, n, y.streams, y.applied, y.recover, y.restored)
  <2>1. y.restored = FALSE
    BY Zenon
  <2> QED
    BY <1>2, <2>1, Zenon
<1>4. Writing(L, y.streams, y.applied, y.persist)
  BY WritingNothing
<1> QED
  BY <1>1, <1>3, <1>4, Zenon DEF NodeInv

\* Starting keeps the invariant, with and without a snapshot.
LEMMA StartInv ==
    ASSUME AllInv, NEW n \in Server, Start(n)
    PROVE  AllInv'
<1> DEFINE z == snap[n]
           st == Restored(n, z.parts)
           y == [Started EXCEPT !.applied = z.index, !.restored = z # NoSnapshot, !.streams = st]
<1>1. Grows /\ KeepsScenario /\ snap' = snap /\ node' = [node EXCEPT ![n] = y]
  BY Zenon DEF Start, Grows, KeepsScenario, AllInv
<1>2. DOMAIN node = Server /\ LogOK(log) /\ Sound(log, z.parts, z.index) /\ Len(log) \in Nat
  BY DEF AllInv, LogOK
<1>3. /\ DOMAIN y = Fields /\ y.status = "up" /\ y.recover = -1 /\ y.recover \in Int
      /\ y.streams = st /\ y.applied = z.index /\ y.persist = NoSnapshot
      /\ y.restored = (z # NoSnapshot)
  BY StartedFields, Zenon DEF Fields
<1>4. y.restored \in BOOLEAN
  BY <1>3, Zenon
<1>4a. y.restored <=> z # NoSnapshot
  BY <1>3, Zenon
<1>5. DOMAIN node' = Server /\ (\A m \in Server \ {n} : node'[m] = node[m]) /\ node'[n] = y
  BY <1>1, <1>2, Zenon
<1>6. z.index \in 0 .. Len(log) /\ z.index \in Nat
  BY <1>2 DEF Sound
<1>7. CASE z = NoSnapshot
  <2>1. z.index = 0 /\ DOMAIN z.parts = {} /\ DOMAIN z.parts \subseteq Stream \X Partition
    BY <1>2, <1>7, WritingNothing, Zenon
  <2>2. DOMAIN st = {}
    BY <2>1, RestoredView, Zenon
  <2> HIDE DEF y, st, z
  <2>3. NodeInv(log, n, y)
    BY <1>2, <1>3, <1>4, <1>4a, <1>7, <2>1, <2>2, StartedInv, Zenon
  <2> QED
    BY <1>1, <1>5, <2>3, NodeStepInv, Zenon
<1>8. CASE z # NoSnapshot
  <2>1. Live(log, n, st, z.index, y.recover, TRUE)
    BY <1>2, <1>3, <1>6, RestoredLive, Zenon
  <2> HIDE DEF y, st, z
  <2>2. y.restored = TRUE
    BY <1>4, <1>4a, <1>8, Zenon
  <2>3. Live(log, n, y.streams, y.applied, y.recover, y.restored)
    BY <1>3, <2>1, <2>2, Zenon
  <2>4. Writing(log, y.streams, y.applied, y.persist)
    BY <1>2, <1>3, <1>6, WritingNothing, Zenon
  <2>5. NodeInv(log, n, y)
    BY <1>3, <1>4, <1>6, <2>3, <2>4, Zenon DEF NodeInv
  <2> QED
    BY <1>1, <1>5, <2>5, NodeStepInv, Zenon
<1> QED
  BY <1>7, <1>8, Zenon

-----------------------------------------------------------------------------
\* The invariant.

\* The invariant holds at the start.
LEMMA InitAll ==
    Init => AllInv
<1> SUFFICES ASSUME Init PROVE AllInv
  BY Zenon
<1>1. log = <<>> /\ Len(log) = 0 /\ 1 .. 0 = {} /\ log \in Seq(Entries)
  BY DEF Init
<1>2. LogOK(log)
  BY <1>1, Zenon DEF LogOK
<1>3. "scenario" \in DOMAIN count /\ count.scenario \in DOMAIN Scenarios
  BY DEF Init
<1>4. DOMAIN node = Server /\ DOMAIN snap = Server /\ \A n \in Server : snap[n] = NoSnapshot
  BY Zenon DEF Init
<1>5. \A n \in Server : Sound(log, snap[n].parts, snap[n].index)
  BY <1>2, <1>4, WritingNothing, Zenon
<1>6. ASSUME NEW n \in Server PROVE NodeInv(log, n, node[n])
  <2>1. DOMAIN << >> = {}
    OBVIOUS
  <2>2. CASE n \in Absent
    <3> DEFINE y == [Started EXCEPT !.status = "down"]
    <3>1. node[n] = y
      BY <2>2, Zenon DEF Init
    <3>2. /\ DOMAIN y = Fields /\ y.status = "down" /\ y.recover \in Int
          /\ y.restored \in BOOLEAN /\ y.streams = <<>> /\ y.applied = 0
      BY StartedFields, Zenon DEF Fields
    <3>3. 0 \in 0 .. Len(log)
      BY <1>1
    <3> HIDE DEF y
    <3> QED
      BY <1>2, <3>1, <3>2, <3>3, StoppedInv, Zenon
  <2>3. CASE n \notin Absent
    <3>1. node[n] = Started
      BY <2>3, Zenon DEF Init
    <3>2. DOMAIN Started.streams = {}
      BY <2>1, StartedFields, Zenon
    <3> QED
      BY <1>2, <3>1, <3>2, StartedFields, StartedInv, Zenon
  <2> QED
    BY <2>2, <2>3, Zenon
<1> QED
  BY <1>2, <1>3, <1>4, <1>5, <1>6, Zenon DEF AllInv

\* Every step keeps the invariant.
LEMMA NextAll ==
    AllInv /\ [Next]_vars => AllInv'
<1> SUFFICES ASSUME AllInv, [Next]_vars PROVE AllInv'
  BY Zenon
<1>1. CASE UNCHANGED vars
  <2>1. log' = log /\ node' = node /\ snap' = snap /\ count' = count
    BY <1>1, Zenon DEF vars
  <2> QED
    BY <2>1, Zenon DEF AllInv
<1>2. CASE Next
  <2>1. PICK n \in Server :
           \/ Apply(n) \/ Snapshot(n) \/ Persist(n) \/ Crash(n) \/ Start(n)
           \/ Elect(n) \/ LeadershipAcquired(n) \/ StepDown(n) \/ LeadershipLost(n)
           \/ \E m \in Server : InstallSnapshot(n, m)
           \/ \E s \in Stream :
                 \/ DeleteStream(n, s)
                 \/ \E ps \in Bound.pauses : PauseStream(n, s, ps)
                 \/ \E p \in Partition :
                       \/ CreatePartition(n, s, p) \/ Resume(n, s, p)
                       \/ \E r \in Server :
                             ShrinkISR(n, s, p, r) \/ ExpandISR(n, s, p, r) \/ ReportLeader(n, s, p, r)
           \/ \E k \in DOMAIN node[n].reports : ExpireReport(n, k)
    BY <1>2, Zenon DEF Next
  <2>2. CASE Apply(n) \/ Snapshot(n) \/ Persist(n) \/ Crash(n) \/ Start(n) \/ StepDown(n)
    BY <2>2, ApplyInv, SnapshotInv, PersistInv, CrashInv, StartInv, Zenon
  <2>3. CASE Elect(n) \/ LeadershipAcquired(n) \/ LeadershipLost(n)
    BY <2>3, LeadershipInv, Zenon
  <2>4. CASE \E m \in Server : InstallSnapshot(n, m)
    BY <2>4, InstallSnapshotInv, Zenon
  <2>5. ASSUME NEW s \in Stream,
               DeleteStream(n, s) \/ \E ps \in Bound.pauses : PauseStream(n, s, ps)
        PROVE  AllInv'
    BY <2>5, DeletePauseInv, Zenon
  <2>6. ASSUME NEW s \in Stream, NEW p \in Partition, CreatePartition(n, s, p) \/ Resume(n, s, p)
        PROVE  AllInv'
    BY <2>6, CreatePartitionInv, ResumeInv, Zenon
  <2>7. ASSUME NEW s \in Stream, NEW p \in Partition, NEW r \in Server,
               ShrinkISR(n, s, p, r) \/ ExpandISR(n, s, p, r) \/ ReportLeader(n, s, p, r)
        PROVE  AllInv'
    BY <2>7, ISRInv, ReportLeaderInv, Zenon
  <2>8. CASE \E k \in DOMAIN node[n].reports : ExpireReport(n, k)
    BY <2>8, ExpireReportInv, Zenon
  <2> QED
    BY <2>1, <2>2, <2>3, <2>4, <2>5, <2>6, <2>7, <2>8, Zenon
<1> QED
  BY <1>1, <1>2, Zenon

\* AllInv is an invariant: everything a server knows, is about to write to a
\* snapshot or has in one comes from the committed log (Apply, Snapshot, Restore).
THEOREM MetadataInvariant == Spec => []AllInv
  BY InitAll, NextAll, PTL DEF Spec

=============================================================================
