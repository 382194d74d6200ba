--------------------------- MODULE MetadataProofs ---------------------------
(***************************************************************************)
(* The theorems about Metadata.                                            *)
(***************************************************************************)
EXTENDS MetadataStepProofs

-----------------------------------------------------------------------------
\* What follows from the invariant in a state.

\* The records of the partitions a server knows.
LEMMA KnownRecord ==
    ASSUME AllInv, NEW n, n \in Server, NEW s, NEW p, HasPartition(View(n), s, p)
    PROVE  /\ Up(n) /\ s \in Stream /\ p \in Partition /\ Len(log) \in Nat
           /\ View(n)[s][p] \in ListedRecord
           /\ PartOK(log, s, p, View(n)[s][p], node[n].applied)
           /\ LivePart(log, n, s, p, View(n)[s][p], node[n].applied, node[n].restored)
           /\ Recovers(View(n)[s][p], node[n].applied, node[n].recover, node[n].restored)
           /\ node[n].applied \in 0 .. Len(log) /\ node[n].recover \in Int
<1>1. NodeInv(log, n, node[n])
  BY Zenon DEF AllInv
<1>2. Up(n)
  BY <1>1, Zenon DEF Up, NodeInv, View, HasPartition
<1>3. /\ Live(log, n, View(n), node[n].applied, node[n].recover, node[n].restored)
      /\ Len(log) \in Nat /\ node[n].applied \in 0 .. Len(log) /\ node[n].recover \in Int
  BY <1>2, UpServer, Zenon
<1>4. s \in Stream /\ p \in Partition
  BY <1>3, Zenon DEF Live, ViewOK, HasPartition
<1>5. <<s, p>> \in DOMAIN Parts(View(n)) /\ Parts(View(n))[<<s, p>>] = View(n)[s][p]
  BY PartsOfView
<1>6. View(n)[s][p] \in ListedRecord /\ PartOK(log, s, p, View(n)[s][p], node[n].applied)
  BY <1>3, <1>4, <1>5, Zenon DEF Live, Sound
<1> QED
  BY <1>2, <1>3, <1>4, <1>6, Zenon DEF Live

\* The same, for the pairs that Partitions yields.
LEMMA PartitionsOf ==
    ASSUME NEW st, NEW k, k \in Partitions(st)
    PROVE  HasPartition(st, k[1], k[2]) /\ k = <<k[1], k[2]>>
<1>1. PICK s \in DOMAIN st : k \in {<<s, p>> : p \in DOMAIN st[s]}
  BY Zenon DEF Partitions
<1>2. PICK p \in DOMAIN st[s] : k = <<s, p>>
  BY <1>1, Zenon
<1> QED
  BY <1>1, <1>2, Zenon DEF HasPartition

\* A server that has recovered runs what it should.
LEMMA AllRuns == AllInv => RunsAsViewed
<1> SUFFICES ASSUME AllInv, NEW n \in Server, Up(n), ~Recovering(n), NEW k \in Partitions(View(n))
             PROVE  LET p == Part(n, k[1], k[2])
                    IN ~p.paused => /\ n = p.leader => p.runs = "leader"
                                    /\ n \in p.replicas \ {p.leader} => p.runs = "follower"
  BY Zenon DEF RunsAsViewed
<1> DEFINE x == View(n)[k[1]][k[2]]
<1>1. /\ x \in ListedRecord /\ node[n].applied \in Int /\ node[n].recover \in Int
      /\ LivePart(log, n, k[1], k[2], x, node[n].applied, node[n].restored)
      /\ Recovers(x, node[n].applied, node[n].recover, node[n].restored)
  BY PartitionsOf, KnownRecord
<1> HIDE DEF x
<1>2. x.recovered => x.paused
  BY <1>1, Zenon DEF Recovers, Recovering
<1>3. ~x.paused => /\ n = x.leader => x.runs = "leader"
                   /\ n \in x.replicas \ {x.leader} => x.runs = "follower"
  BY <1>1, <1>2, Zenon DEF LivePart
<1> QED
  BY <1>3, Zenon DEF Part, x

\* A server that recovers runs nothing.
LEMMA AllIdle == AllInv => IdleWhileRecovering
<1> SUFFICES ASSUME AllInv, NEW n \in Server, Up(n), Recovering(n), ~node[n].restored,
                    NEW k \in Partitions(View(n))
             PROVE  Part(n, k[1], k[2]).runs = "no"
  BY Zenon DEF IdleWhileRecovering
<1> DEFINE x == View(n)[k[1]][k[2]]
<1>1. /\ LivePart(log, n, k[1], k[2], x, node[n].applied, node[n].restored)
      /\ Recovers(x, node[n].applied, node[n].recover, node[n].restored)
  BY PartitionsOf, KnownRecord, Zenon
<1> HIDE DEF x
<1>2. x.recovered
  BY <1>1, Zenon DEF Recovers, Recovering
<1>3. x.runs = "no"
  BY <1>1, <1>2, Zenon DEF LivePart
<1> QED
  BY <1>3, Zenon DEF Part, x

\* The leader of a leader epoch is the one of the entry of that index.
LEMMA AllOneLeader == AllInv => OneLeaderPerEpoch
<1> SUFFICES ASSUME AllInv, NEW m \in Server, NEW n \in Server,
                    NEW k \in Partitions(View(m)) \cap Partitions(View(n)),
                    Part(m, k[1], k[2]).runs = "leader", Part(n, k[1], k[2]).runs = "leader",
                    Part(m, k[1], k[2]).leaderEpoch = Part(n, k[1], k[2]).leaderEpoch,
                    m \in Part(m, k[1], k[2]).replicas, n \in Part(n, k[1], k[2]).replicas,
                    NeverPaused(k[1]) \/ ~(node[m].restored \/ node[n].restored)
             PROVE  m = n
  BY DEF OneLeaderPerEpoch
<1>1. NeverPaused(k[1]) => Quiet(log, k[1])
  BY Zenon DEF NeverPaused, Quiet, Pauses
<1> DEFINE x == View(m)[k[1]][k[2]]
           y == View(n)[k[1]][k[2]]
<1>2. /\ LivePart(log, m, k[1], k[2], x, node[m].applied, node[m].restored)
      /\ LivePart(log, n, k[1], k[2], y, node[n].applied, node[n].restored)
  BY PartitionsOf, KnownRecord, Zenon
<1>3. /\ x.runs = "leader" /\ y.runs = "leader" /\ x.leaderEpoch = y.leaderEpoch
      /\ m \in x.replicas /\ n \in y.replicas
  BY Zenon DEF Part
<1> HIDE DEF x, y
<1>4. log[x.leaderEpoch].leader = m
  BY <1>1, <1>2, <1>3, Zenon DEF LivePart
<1>5. log[y.leaderEpoch].leader = n
  BY <1>1, <1>2, <1>3, Zenon DEF LivePart
<1> QED
  BY <1>3, <1>4, <1>5, Zenon

\* A server that has panicked has met an entry about a stream deleted or
\* paused before.
LEMMA AllApplies == AllInv => AppliesEntries
  BY Zenon DEF AllInv, NodeInv, Excused, AppliesEntries

-----------------------------------------------------------------------------
\* Servers that have applied the whole log.

\* x and y are two records of a partition at the end of the log.
LEMMA EpochOrder ==
    ASSUME NEW L, NEW s, NEW p, NEW x, NEW y, NEW a, a = Len(L), Len(L) \in Nat,
           x \in ListedRecord, y \in ListedRecord, EpochsOK(L, s, p, x, a), EpochsOK(L, s, p, y, a),
           Creates(L, x.epoch, s, p) => CreatesAfresh(L, x.epoch, s, p)
    PROVE  x.epoch <= y.epoch
<1>1. x.epoch \in 1 .. a /\ y.epoch \in 1 .. a /\ y.leaderEpoch \in Nat
  BY Zenon DEF EpochsOK, Creates, Changes, ListedRecord
<1>2. CASE Changes(L, x.epoch, s, p)
  BY <1>1, <1>2, Zenon DEF EpochsOK
<1>3. CASE Creates(L, x.epoch, s, p)
  <2> SUFFICES ASSUME y.epoch < x.epoch PROVE FALSE
    BY <1>1
  <2>1. y.epoch \in 1 .. x.epoch - 1 /\ (Creates(L, y.epoch, s, p) \/ Changes(L, y.epoch, s, p))
    BY <1>1 DEF EpochsOK
  <2>2. PICK d \in y.epoch + 1 .. x.epoch - 1 : Deletes(L, d, s)
    BY <1>3, <2>1, Zenon DEF CreatesAfresh
  <2>3. d \in 1 .. a
    BY <1>1
  <2>4. d < y.leaderEpoch /\ y.leaderEpoch <= y.epoch
    BY <2>2, <2>3, Zenon DEF EpochsOK
  <2> QED
    BY <1>1, <2>4
<1> QED
  BY <1>2, <1>3, Zenon DEF EpochsOK

\* The same of leader epochs.
LEMMA LeaderEpochOrder ==
    ASSUME NEW L, NEW s, NEW p, NEW x, NEW y, NEW a, a = Len(L), Len(L) \in Nat,
           x \in ListedRecord, y \in ListedRecord, EpochsOK(L, s, p, x, a), EpochsOK(L, s, p, y, a),
           Creates(L, x.leaderEpoch, s, p) => CreatesAfresh(L, x.leaderEpoch, s, p),
           x.epoch = y.epoch
    PROVE  x.leaderEpoch <= y.leaderEpoch
<1>1. x.leaderEpoch \in 1 .. a /\ y.leaderEpoch \in 1 .. a /\ y.epoch \in Nat
  BY Zenon DEF EpochsOK, Creates, Changes, ListedRecord
<1>2. CASE Changes(L, x.leaderEpoch, s, p) /\ L[x.leaderEpoch].type = "elect"
  <2>1. x.leaderEpoch <= x.epoch
    BY Zenon DEF EpochsOK
  <2>2. x.leaderEpoch \in 1 .. y.epoch
    BY <1>1, <2>1
  <2> QED
    BY <1>2, <2>2, Zenon DEF EpochsOK
<1>3. CASE Creates(L, x.leaderEpoch, s, p)
  <2> SUFFICES ASSUME y.leaderEpoch < x.leaderEpoch PROVE FALSE
    BY <1>1
  <2>1. /\ y.leaderEpoch \in 1 .. x.leaderEpoch - 1
        /\ Creates(L, y.leaderEpoch, s, p) \/ Changes(L, y.leaderEpoch, s, p)
    BY <1>1 DEF EpochsOK
  <2>2. PICK d \in y.leaderEpoch + 1 .. x.leaderEpoch - 1 : Deletes(L, d, s)
    BY <1>3, <2>1, Zenon DEF CreatesAfresh
  <2>3. d \in 1 .. a
    BY <1>1
  <2>4. d < y.leaderEpoch
    BY <2>2, <2>3, Zenon DEF EpochsOK
  <2> QED
    BY <1>1, <2>4
<1> QED
  BY <1>2, <1>3, Zenon DEF EpochsOK

\* At the end of the log both epochs are those of the last entries about the
\* partition.
LEMMA SameAtEnd ==
    ASSUME NEW L, NEW s, NEW p, NEW x, NEW y, NEW a, PartOK(L, s, p, x, a), PartOK(L, s, p, y, a),
           a = Len(L), Len(L) \in Nat, x \in ListedRecord, y \in ListedRecord, Quiet(L, s)
    PROVE  x.leader = y.leader /\ x.leaderEpoch = y.leaderEpoch /\ x.epoch = y.epoch
<1>1. EpochsOK(L, s, p, x, a) /\ EpochsOK(L, s, p, y, a)
  BY Zenon DEF PartOK
<1>2. /\ Creates(L, x.epoch, s, p) => CreatesAfresh(L, x.epoch, s, p)
      /\ Creates(L, x.leaderEpoch, s, p) => CreatesAfresh(L, x.leaderEpoch, s, p)
      /\ Creates(L, y.epoch, s, p) => CreatesAfresh(L, y.epoch, s, p)
      /\ Creates(L, y.leaderEpoch, s, p) => CreatesAfresh(L, y.leaderEpoch, s, p)
      /\ x.leader = L[x.leaderEpoch].leader /\ y.leader = L[y.leaderEpoch].leader
  BY Zenon DEF PartOK, QuietOK
<1>3. x.epoch \in Nat /\ y.epoch \in Nat /\ x.leaderEpoch \in Nat /\ y.leaderEpoch \in Nat
  BY Zenon DEF ListedRecord
<1>4. x.epoch <= y.epoch /\ y.epoch <= x.epoch
  BY <1>1, <1>2, EpochOrder, Zenon
<1>5. x.epoch = y.epoch
  BY <1>3, <1>4
<1>6. x.leaderEpoch <= y.leaderEpoch /\ y.leaderEpoch <= x.leaderEpoch
  BY <1>1, <1>2, <1>5, LeaderEpochOrder, Zenon
<1> QED
  BY <1>2, <1>3, <1>5, <1>6

\* At the end of the log the partitions a server knows are those the log says.
LEMMA KnownAtEnd ==
    ASSUME AllInv, NEW m, NEW n, m \in Server, n \in Server, Up(m), Up(n),
           node[m].applied = Len(log), node[n].applied = Len(log),
           NEW s, NEW p, HasPartition(View(m), s, p)
    PROVE  HasPartition(View(n), s, p)
<1> DEFINE a == Len(log)
           P == Parts(View(m))
           Q == Parts(View(n))
<1>1. s \in Stream /\ p \in Partition
  BY KnownRecord, Zenon
<1>2. Sound(log, P, a) /\ Sound(log, Q, a)
  BY UpServer, Zenon DEF Live
<1>3. <<s, p>> \in DOMAIN P /\ (<<s, p>> \in DOMAIN Q => HasPartition(View(n), s, p))
  BY PartsOfView, Zenon
<1> HIDE DEF a, P, Q
<1>4. PICK c \in 1 .. a : Creates(log, c, s, p) /\ \A d \in c + 1 .. a : ~Deletes(log, d, s)
  BY <1>1, <1>2, <1>3, Zenon DEF Sound, Presence
<1>5. <<s, p>> \in DOMAIN Q
  BY <1>1, <1>2, <1>4, Zenon DEF Sound, Presence
<1> QED
  BY <1>3, <1>5, Zenon

\* A server that restored a snapshot agrees with the others at the end of the
\* log.
LEMMA AllRestored == AllInv => RestoredAgrees
<1> SUFFICES ASSUME AllInv, NEW m \in Server, NEW n \in Server, Up(m), Up(n),
                    node[m].applied = Len(log), node[n].applied = Len(log),
                    NEW s \in Stream, NeverPaused(s)
             PROVE  /\ s \in DOMAIN View(m) <=> s \in DOMAIN View(n)
                    /\ s \in DOMAIN View(m) =>
                         [p \in DOMAIN View(m)[s] |->
                            <<Part(m, s, p).leader, Part(m, s, p).leaderEpoch, Part(m, s, p).epoch>>]
                       = [p \in DOMAIN View(n)[s] |->
                            <<Part(n, s, p).leader, Part(n, s, p).leaderEpoch, Part(n, s, p).epoch>>]
  BY Zenon DEF RestoredAgrees
<1>1. Quiet(log, s)
  BY Zenon DEF NeverPaused, Quiet, Pauses
<1>2. \A p : HasPartition(View(m), s, p) <=> HasPartition(View(n), s, p)
  BY KnownAtEnd, Zenon
<1>3. ViewOK(View(m)) /\ ViewOK(View(n))
  BY UpServer, Zenon DEF Live
<1>4. s \in DOMAIN View(m) <=> s \in DOMAIN View(n)
  <2>1. s \in DOMAIN View(m) <=> \E p : HasPartition(View(m), s, p)
    BY <1>3, Zenon DEF ViewOK, HasPartition
  <2>2. s \in DOMAIN View(n) <=> \E p : HasPartition(View(n), s, p)
    BY <1>3, Zenon DEF ViewOK, HasPartition
  <2> QED
    BY <1>2, <2>1, <2>2, Zenon
<1>5. ASSUME NEW p, HasPartition(View(m), s, p)
      PROVE  /\ Part(m, s, p).leader = Part(n, s, p).leader
             /\ Part(m, s, p).leaderEpoch = Part(n, s, p).leaderEpoch
             /\ Part(m, s, p).epoch = Part(n, s, p).epoch
  <2> DEFINE x == View(m)[s][p]
             y == View(n)[s][p]
  <2>1. x \in ListedRecord /\ PartOK(log, s, p, x, Len(log)) /\ Len(log) \in Nat
    BY <1>5, KnownRecord, Zenon
  <2>2. HasPartition(View(n), s, p)
    BY <1>2, <1>5, Zenon
  <2>3. y \in ListedRecord /\ PartOK(log, s, p, y, Len(log))
    BY <2>2, KnownRecord, Zenon
  <2> HIDE DEF x, y
  <2>4. x.leader = y.leader /\ x.leaderEpoch = y.leaderEpoch /\ x.epoch = y.epoch
    BY <1>1, <2>1, <2>3, SameAtEnd
  <2> QED
    BY <2>4, Zenon DEF Part, x, y
<1>6. ASSUME s \in DOMAIN View(m)
      PROVE  DOMAIN View(m)[s] = DOMAIN View(n)[s]
  <2>1. \A p : p \in DOMAIN View(m)[s] <=> p \in DOMAIN View(n)[s]
    BY <1>2, <1>4, <1>6, Zenon DEF HasPartition
  <2> QED
    BY <1>3, <1>4, <1>6, <2>1, Zenon DEF ViewOK
<1>7. s \in DOMAIN View(m) => \A p \in DOMAIN View(m)[s] : HasPartition(View(m), s, p)
  BY Zenon DEF HasPartition
<1> QED
  BY <1>4, <1>5, <1>6, <1>7, Zenon

-----------------------------------------------------------------------------
\* Epochs.

\* An entry does not lower the epoch of a partition.
LEMMA EntryKeepsEpoch ==
    ASSUME NEW L, NEW n, NEW st, NEW a, NEW r0, NEW b, NEW i, NEW op, NEW r, NEW rec, NEW new,
           NEW st2, NEW r2, NEW s, NEW p, Entered(n, st, op, i, r, rec, new, st2, r2),
           Live(L, n, st, a, r0, b), EntryAt(L, a, i, op), LogOK(L), n \in Server, a \in Nat,
           r0 \in Int, b \in BOOLEAN, a < Len(L), ~Panics(st, op, i),
           s \in Stream, p \in Partition, HasPartition(st, s, p), HasPartition(st2, s, p)
    PROVE  st[s][p].epoch <= st2[s][p].epoch
<1>0. rec \in BOOLEAN /\ AppliedTo(n, st, op, i, rec, new)
  BY Zenon DEF Entered, AppliedTo
<1>0a. HasPartition(new, s, p)
  BY FinishedView, Zenon DEF Entered
<1> DEFINE P == Parts(st)
           Q == Parts(new)
           x == st[s][p]
           y == new[s][p]
<1>1. op \in Entries /\ i \in Nat /\ i = a + 1 /\ op = L[i] /\ i \in 1 .. Len(L)
  BY EntryFacts, Zenon
<1>2. EntryStep(n, P, Q, op, i, rec) /\ Sound(L, Q, i)
  BY <1>0, LiveEntry, Zenon
<1>3. /\ <<s, p>> \in DOMAIN P /\ P[<<s, p>>] = x
      /\ <<s, p>> \in DOMAIN Q /\ Q[<<s, p>>] = y
  BY <1>0a, PartsOfView
<1>4. Sound(L, P, a) /\ LivePart(L, n, s, p, x, a, b)
  BY Zenon DEF Live
<1> HIDE DEF P, Q, x, y
<1>5. x \in ListedRecord /\ y \in ListedRecord
  BY <1>2, <1>3, <1>4, Zenon DEF Sound
<1>6. PartStep(n, P, y, s, p, op, i, rec) /\ RecordOf(P, s, p, <<s, p>>, x)
  BY <1>2, <1>3, Zenon DEF EntryStep, RecordOf
<1>7. \/ IsCreate(op, s, p) /\ y.epoch = i /\ x.paused
      \/ x.epoch <= y.epoch
  BY <1>0, <1>1, <1>3, <1>5, <1>6, RecoversStep
<1>8. ASSUME IsCreate(op, s, p), x.paused PROVE x.epoch <= i
  <2>1. Creates(L, i, s, p)
    BY <1>1, <1>8, Zenon DEF IsCreate, Creates
  <2>2. i \notin a + 1 .. x.epoch
    BY <1>4, <1>8, <2>1, Zenon DEF LivePart
  <2>3. x.epoch \in Nat
    BY <1>5, Zenon DEF ListedRecord
  <2> QED
    BY <1>1, <2>2, <2>3
<1>9. x.epoch <= y.epoch
  BY <1>7, <1>8, Zenon
<1>10. st2[s][p].epoch = y.epoch
  <2>1. st2[s][p] = y \/ st2[s][p] = StartRecovered(n, y)
    BY <1>0a, FinishedView DEF Entered, y
  <2> QED
    BY <1>5, <2>1, StartedRecord
<1> QED
  BY <1>9, <1>10, Zenon DEF x

\* Apply lowers no epoch.
LEMMA ApplyKeepsEpoch ==
    ASSUME AllInv, NEW n \in Server, Apply(n), node'[n].status = "up",
           NEW s, NEW p, HasPartition(View(n), s, p), HasPartition(node'[n].streams, s, p)
    PROVE  View(n)[s][p].epoch <= node'[n].streams[s][p].epoch
<1> DEFINE i == node[n].applied + 1
           op == log[i]
           a == node[n].applied
<1>1. Up(n) /\ i <= Len(log) /\ DOMAIN node = Server /\ DOMAIN node[n] = Fields
  BY NodeShape, Zenon DEF Apply
<1>2. /\ a \in Nat /\ a < Len(log) /\ EntryAt(log, a, i, op) /\ LogOK(log) /\ Len(log) \in Nat
      /\ Live(log, n, View(n), a, node[n].recover, node[n].restored)
      /\ node[n].recover \in Int /\ node[n].restored \in BOOLEAN
      /\ s \in Stream /\ p \in Partition
  BY <1>1, UpServer, KnownRecord DEF EntryAt
<1>3. ~Panics(View(n), op, i)
  <2>1. [Started EXCEPT !.status = "panicked", !.applied = i].status = "panicked"
    BY StartedFields, Zenon DEF Fields
  <2> QED
    BY <1>1, <2>1, Zenon DEF Apply
<1>4. PICK r \in RecoverTo(n) : \E reports :
        LET new == ApplyEntry(n, View(n), op, i, i <= r)
            st  == IF i = r THEN FinishedRecovery(n, new) ELSE new
        IN node' = [node EXCEPT ![n].applied = i,
                                ![n].recover = IF i < r THEN r ELSE 0,
                                ![n].streams = st,
                                ![n].persist = Listed(@, st),
                                ![n].reports = reports]
  BY <1>3, Zenon DEF Apply
<1> DEFINE new == ApplyEntry(n, View(n), op, i, i <= r)
           st == IF i = r THEN FinishedRecovery(n, new) ELSE new
           r2 == IF i < r THEN r ELSE 0
           rec == i <= r
<1>5. PICK reports :
        node' = [node EXCEPT ![n].applied = i, ![n].recover = r2, ![n].streams = st,
                             ![n].persist = Listed(@, st), ![n].reports = reports]
  BY <1>4, Zenon
<1>6. Entered(n, View(n), op, i, r, rec, new, st, r2)
  BY DEF Entered
<1> HIDE DEF new, st, op, i, a, r2, rec
<1>7. node'[n].streams = st
  BY <1>1, <1>5, Zenon DEF Fields
<1> QED
  BY <1>2, <1>3, <1>6, <1>7, EntryKeepsEpoch, Zenon

\* Neither does any other step of a server.
LEMMA AllKeepsEpochs == AllInv /\ [Next]_vars => KeepsEpochs
<1> SUFFICES ASSUME AllInv, NEW n \in Server, Apply(n), node'[n].status = "up",
                    NEW k \in Partitions(View(n)) \cap Partitions(View(n)')
             PROVE  Part(n, k[1], k[2]).epoch <= Part(n, k[1], k[2])'.epoch
  BY Zenon DEF KeepsEpochs
<1>1. View(n)' = node'[n].streams /\ Part(n, k[1], k[2]) = View(n)[k[1]][k[2]]
  BY Zenon DEF View, Part
<1>2. Part(n, k[1], k[2])' = node'[n].streams[k[1]][k[2]]
  BY Zenon DEF View, Part
<1>3. HasPartition(View(n), k[1], k[2]) /\ HasPartition(node'[n].streams, k[1], k[2])
  BY <1>1, PartitionsOf, Zenon
<1> QED
  BY <1>1, <1>2, <1>3, ApplyKeepsEpoch, Zenon

-----------------------------------------------------------------------------
\* The Raft leader.

\* A Raft leader is up; the last notification it was sent is that it leads; if
\* it has dealt with all of them, it has applied what preceded its term.
LeadsOK(n) ==
    /\ Up(n)
    /\ node[n].notify # <<>> => node[n].notify[Len(node[n].notify)]
    /\ node[n].notify = <<>> => node[n].applied >= raft.start

RaftOK ==
    /\ raft \in [leader : Server \cup {None}, start : 0 .. Len(log)]
    /\ \A n \in Server : node[n].notify \in Seq(BOOLEAN)
    /\ \A n \in Server : raft.leader = n => LeadsOK(n)

\* No server leads at the start.
LEMMA InitRaft == Init => RaftOK
<1> SUFFICES ASSUME Init PROVE RaftOK
  BY Zenon
<1>1. log = <<>> /\ Len(log) = 0 /\ raft = [leader |-> None, start |-> 0] /\ None \notin Server
  BY MetadataAssumption, Zenon DEF Init
<1>2. \A n \in Server : node[n] = [Started EXCEPT !.status = "down"] \/ node[n] = Started
  BY Zenon DEF Init
<1>3. /\ [Started EXCEPT !.status = "down"].notify = <<>> /\ Started.notify = <<>>
      /\ <<>> \in Seq(BOOLEAN)
  BY StartedFields DEF Fields
<1>4. \A n \in Server : node[n].notify \in Seq(BOOLEAN)
  BY <1>2, <1>3, Zenon
<1>5. raft \in [leader : Server \cup {None}, start : 0 .. Len(log)] /\ raft.leader \notin Server
  BY <1>1
<1> QED
  BY <1>4, <1>5, Zenon DEF RaftOK

\* The Raft leader stays, or there is none any more.
LEMMA SameTerm ==
    ASSUME AllInv, RaftOK, AllInv',
           log' = log \/ \E op : log' = Append(log, op),
           raft' = raft \/ raft' = [raft EXCEPT !.leader = None],
           \A n \in Server : node'[n].notify \in {node[n].notify, <<>>},
           \A n \in Server : raft'.leader = n =>
              /\ node'[n].status = node[n].status /\ node'[n].applied >= node[n].applied
              /\ node'[n].notify = node[n].notify
    PROVE  RaftOK'
<1>1. Len(log) \in Nat /\ Len(log') \in Nat /\ Len(log') >= Len(log) /\ None \notin Server
  BY MetadataAssumption DEF AllInv, LogOK
<1>2. raft \in [leader : Server \cup {None}, start : 0 .. Len(log)]
  BY Zenon DEF RaftOK
<1>3. raft' \in [leader : Server \cup {None}, start : 0 .. Len(log')] /\ raft'.start = raft.start
  BY <1>1, <1>2
<1>4. <<>> \in Seq(BOOLEAN)
  OBVIOUS
<1>5. \A n \in Server : node'[n].notify \in Seq(BOOLEAN)
  BY <1>4, Zenon DEF RaftOK
<1>6. ASSUME NEW n \in Server, raft'.leader = n PROVE LeadsOK(n)'
  <2>1. raft.leader = n
    BY <1>1, <1>2, <1>6, Zenon
  <2>2. LeadsOK(n)
    BY <2>1, Zenon DEF RaftOK
  <2>3. /\ node'[n].status = node[n].status /\ node'[n].applied >= node[n].applied
        /\ node'[n].notify = node[n].notify
    BY <1>6, Zenon
  <2>4. node[n].applied \in Int /\ node'[n].applied \in Int /\ raft.start \in Int
    BY <1>1, <1>2 DEF AllInv, NodeInv
  <2>5. node[n].notify = <<>> => node'[n].applied >= raft.start
    BY <2>2, <2>3, <2>4 DEF LeadsOK
  <2> QED
    BY <1>3, <2>2, <2>3, <2>5, Zenon DEF LeadsOK, Up
<1> QED
  BY <1>3, <1>5, <1>6, Zenon DEF RaftOK

\* The steps that leave the notifications of the servers alone.
TermKept ==
    /\ log' = log \/ \E op : log' = Append(log, op)
    /\ raft' = raft \/ raft' = [raft EXCEPT !.leader = None]
    /\ \A n \in Server : node'[n].notify \in {node[n].notify, <<>>}
    /\ \A n \in Server : raft'.leader = n =>
          /\ node'[n].status = node[n].status /\ node'[n].applied >= node[n].applied
          /\ node'[n].notify = node[n].notify

\* Those that change nothing of what RaftOK is about but the length of the log.
LEMMA MinorTerm ==
    ASSUME AllInv, log' = log \/ \E op : log' = Append(log, op), raft' = raft,
           \A n \in Server : /\ node'[n].notify = node[n].notify /\ node'[n].status = node[n].status
                             /\ node'[n].applied = node[n].applied
    PROVE  TermKept
<1>1. \A n \in Server : node[n].applied \in Int
  BY DEF AllInv, NodeInv, LogOK
<1> QED
  BY <1>1 DEF TermKept

\* A request adds an entry to the current term and changes no leadership.
LEMMA RequestTerm ==
    ASSUME AllInv, NEW n \in Server, NEW s \in Stream, NEW p \in Partition, NEW r \in Server,
           \/ DeleteStream(n, s) \/ (\E ps \in Bound.pauses : PauseStream(n, s, ps))
           \/ CreatePartition(n, s, p) \/ ShrinkISR(n, s, p, r) \/ ExpandISR(n, s, p, r)
    PROVE  TermKept
<1>1. raft' = raft /\ node' = node /\ \E op : log' = Append(log, op)
  BY Zenon DEF DeleteStream, PauseStream, CreatePartition, ShrinkISR, ExpandISR, Propose
<1> QED
  BY <1>1, MinorTerm, Zenon

\* Neither does a leader report.
LEMMA ReportTerm ==
    ASSUME AllInv, NEW n \in Server, NEW s \in Stream, NEW p \in Partition, NEW r \in Server,
           ReportLeader(n, s, p, r) \/ Resume(n, s, p)
    PROVE  TermKept
<1>1. DOMAIN node = Server /\ \A m \in Server : DOMAIN node[m] = Fields
  BY NodeShape, Zenon
<1>2. raft' = raft /\ (log' = log \/ \E op : log' = Append(log, op))
  <2>1. CASE ReportLeader(n, s, p, r)
    BY <2>1, Zenon DEF ReportLeader, ElectNewPartitionLeader, Propose
  <2>2. CASE Resume(n, s, p)
    BY <2>2, Zenon DEF Resume, Propagate, Propose
  <2> QED
    BY <2>1, <2>2, Zenon
<1>3. \/ \E reports : node' = [node EXCEPT ![n].reports = reports]
      \/ \E st, z : node' = [node EXCEPT ![n].streams = st, ![n].persist = z]
      \/ node' = node
  <2>1. CASE ReportLeader(n, s, p, r)
    BY <2>1, Zenon DEF ReportLeader, ElectNewPartitionLeader
  <2>2. CASE Resume(n, s, p)
    BY <2>2, Zenon DEF Resume
  <2> QED
    BY <2>1, <2>2, Zenon
<1>4. \A m \in Server : /\ node'[m].notify = node[m].notify /\ node'[m].status = node[m].status
                        /\ node'[m].applied = node[m].applied
  <2>1. CASE \E reports : node' = [node EXCEPT ![n].reports = reports]
    BY <1>1, <2>1 DEF Fields
  <2>2. CASE \E st, z : node' = [node EXCEPT ![n].streams = st, ![n].persist = z]
    <3>1. PICK st, z : node' = [node EXCEPT ![n].streams = st, ![n].persist = z]
      BY <2>2, Zenon
    <3> QED
      BY <1>1, <3>1, Zenon DEF Fields
  <2>3. CASE node' = node
    BY <2>3, Zenon
  <2> QED
    BY <1>3, <2>1, <2>2, <2>3, Zenon
<1> QED
  BY <1>2, <1>4, MinorTerm, Zenon

\* Neither do resuming, expiring reports and writing snapshots.
LEMMA LocalTerm ==
    ASSUME AllInv, NEW n \in Server,
           Snapshot(n) \/ Persist(n) \/ \E k \in DOMAIN node[n].reports : ExpireReport(n, k)
    PROVE  TermKept
<1>1. DOMAIN node = Server /\ \A m \in Server : DOMAIN node[m] = Fields
  BY NodeShape, Zenon
<1>2. raft' = raft /\ log' = log
  BY Zenon DEF Snapshot, Persist, ExpireReport
<1>3. \/ \E reports : node' = [node EXCEPT ![n].reports = reports]
      \/ \E z : node' = [node EXCEPT ![n].persist = z]
  BY Zenon DEF Snapshot, Persist, ExpireReport
<1>4. \A m \in Server : /\ node'[m].notify = node[m].notify /\ node'[m].status = node[m].status
                        /\ node'[m].applied = node[m].applied
  BY <1>1, <1>3 DEF Fields
<1> QED
  BY <1>2, <1>4, MinorTerm, Zenon

\* A server stops or starts.
LEMMA StopTerm ==
    ASSUME AllInv, RaftOK, NEW n \in Server, log' = log,
           NEW y, node' = [node EXCEPT ![n] = y], y.notify = <<>>,
           \/ raft' = raft /\ raft.leader # n
           \/ raft' = [raft EXCEPT !.leader = None]
    PROVE  TermKept
<1>1. DOMAIN node = Server /\ \A m \in Server : node[m].applied \in Int
  BY DEF AllInv, NodeInv, LogOK
<1>2. node'[n] = y /\ \A m \in Server \ {n} : node'[m] = node[m]
  BY <1>1, Zenon
<1>3. raft'.leader # n /\ (raft' = raft \/ raft' = [raft EXCEPT !.leader = None])
  BY MetadataAssumption, Zenon DEF RaftOK
<1> QED
  BY <1>1, <1>2, <1>3 DEF TermKept

\* Applying an entry moves a server towards the end of the log.
LEMMA ApplyTerm ==
    ASSUME AllInv, RaftOK, NEW n \in Server, Apply(n)
    PROVE  TermKept
<1> DEFINE i == node[n].applied + 1
           op == log[i]
<1>1. DOMAIN node = Server /\ DOMAIN node[n] = Fields /\ log' = log
  BY NodeShape, Zenon DEF Apply
<1>2. node[n].applied \in Int /\ \A m \in Server : node[m].applied \in Int
  BY DEF AllInv, NodeInv, LogOK
<1>3. CASE Panics(View(n), op, i)
  <2> DEFINE y == [Started EXCEPT !.status = "panicked", !.applied = i]
  <2>1. node' = [node EXCEPT ![n] = y]
    BY <1>3, Zenon DEF Apply
  <2>2. y.notify = <<>>
    BY StartedFields, Zenon DEF Fields
  <2>3. (raft' = raft /\ raft.leader # n) \/ raft' = [raft EXCEPT !.leader = None]
    BY <1>3, Zenon DEF Apply
  <2> HIDE DEF y
  <2> QED
    BY <1>1, <2>1, <2>2, <2>3, StopTerm, Zenon
<1>4. CASE ~Panics(View(n), op, i)
  <2>1. raft' = raft
    BY <1>4, Zenon DEF Apply
  <2>5. PICK r \in RecoverTo(n) : \E reports :
          LET new == ApplyEntry(n, View(n), op, i, i <= r)
              st  == IF i = r THEN FinishedRecovery(n, new) ELSE new
          IN node' = [node EXCEPT ![n].applied = i,
                                  ![n].recover = IF i < r THEN r ELSE 0,
                                  ![n].streams = st,
                                  ![n].persist = Listed(@, st),
                                  ![n].reports = reports]
    BY <1>4, Zenon DEF Apply
  <2> DEFINE new == ApplyEntry(n, View(n), op, i, i <= r)
             st == IF i = r THEN FinishedRecovery(n, new) ELSE new
  <2>2. PICK reports :
          node' = [node EXCEPT ![n].applied = i,
                               ![n].recover = IF i < r THEN r ELSE 0,
                               ![n].streams = st,
                               ![n].persist = Listed(@, st),
                               ![n].reports = reports]
    BY <2>5, Zenon
  <2> HIDE DEF new, st, op, i
  <2>3. /\ \A m \in Server \ {n} : node'[m] = node[m]
        /\ node'[n].notify = node[n].notify /\ node'[n].status = node[n].status
        /\ node'[n].applied = i
    BY <1>1, <2>2, Zenon DEF Fields
  <2>4. i >= node[n].applied
    BY <1>2 DEF i
  <2> QED
    BY <1>1, <1>2, <2>1, <2>3, <2>4 DEF TermKept
<1> QED
  BY <1>3, <1>4, Zenon

\* Crashing and starting: a server that starts leads nothing.
LEMMA ServerTerm ==
    ASSUME AllInv, RaftOK, NEW n \in Server, Crash(n) \/ StepDown(n) \/ Start(n)
    PROVE  TermKept
<1>1. CASE Crash(n) \/ StepDown(n)
  <2>1. [Started EXCEPT !.status = "down"].notify = <<>>
    BY StartedFields, Zenon DEF Fields
  <2>2. node' = [node EXCEPT ![n] = [Started EXCEPT !.status = "down"]] /\ log' = log
    BY <1>1, Zenon DEF Crash, StepDown
  <2>3. (raft' = raft /\ raft.leader # n) \/ raft' = [raft EXCEPT !.leader = None]
    BY <1>1, Zenon DEF Crash, StepDown
  <2> QED
    BY <2>1, <2>2, <2>3, StopTerm, Zenon
<1>2. CASE Start(n)
  <2> DEFINE y == [Started EXCEPT !.applied = snap[n].index, !.restored = snap[n] # NoSnapshot,
                                  !.streams = Restored(n, snap[n].parts)]
  <2>1. node' = [node EXCEPT ![n] = y] /\ log' = log /\ raft' = raft /\ ~Up(n)
    BY <1>2, Zenon DEF Start, Up
  <2>2. y.notify = <<>>
    BY StartedFields, Zenon DEF Fields
  <2>3. raft.leader # n
    BY <2>1, Zenon DEF RaftOK, LeadsOK
  <2> HIDE DEF y
  <2> QED
    BY <2>1, <2>2, <2>3, StopTerm, Zenon
<1> QED
  BY <1>1, <1>2, Zenon

\* An installed snapshot is not behind what the server has applied.
LEMMA InstallTerm ==
    ASSUME AllInv, NEW n \in Server, NEW m \in Server, InstallSnapshot(n, m)
    PROVE  TermKept
<1>1. DOMAIN node = Server /\ DOMAIN node[n] = Fields /\ log' = log /\ raft' = raft
  BY NodeShape, Zenon DEF InstallSnapshot
<1>2. \A k \in Server : node[k].applied \in Int
  BY DEF AllInv, NodeInv, LogOK
<1>3. raft.leader # n
  BY Zenon DEF InstallSnapshot
<1>4. \E st, i, z :
         node' = [node EXCEPT ![n].streams = st, ![n].reports = <<>>, ![n].applied = i,
                              ![n].restored = TRUE, ![n].persist = z]
  BY Zenon DEF InstallSnapshot
<1>5. (\A k \in Server \ {n} : node'[k] = node[k]) /\ node'[n].notify = node[n].notify
  BY <1>1, <1>4 DEF Fields
<1> QED
  BY <1>1, <1>2, <1>3, <1>5 DEF TermKept

\* A notification is added at the end of the queue and taken from its front.
LEMMA QueueEnds ==
    ASSUME NEW S, NEW q \in Seq(S)
    PROVE  /\ Len(q) \in Nat
           /\ \A e \in S : /\ Append(q, e) \in Seq(S) /\ Append(q, e) # <<>>
                           /\ Append(q, e)[Len(Append(q, e))] = e
           /\ q # <<>> =>
                /\ Tail(q) \in Seq(S)
                /\ Tail(q) # <<>> => Tail(q)[Len(Tail(q))] = q[Len(q)]
                /\ Tail(q) = <<>> => Head(q) = q[Len(q)]
<1>1. Len(q) \in Nat
  OBVIOUS
<1>2. ASSUME NEW e \in S
      PROVE  /\ Append(q, e) \in Seq(S) /\ Append(q, e) # <<>>
             /\ Append(q, e)[Len(Append(q, e))] = e
  OBVIOUS
<1>3. ASSUME q # <<>> PROVE Tail(q) \in Seq(S) /\ Len(Tail(q)) = Len(q) - 1 /\ Len(q) >= 1
  BY <1>3
<1>4. ASSUME q # <<>>, Tail(q) # <<>> PROVE Tail(q)[Len(Tail(q))] = q[Len(q)]
  BY <1>3, <1>4
<1>5. ASSUME q # <<>>, Tail(q) = <<>> PROVE Head(q) = q[Len(q)]
  <2>1. Len(<<>>) = 0
    BY Zenon
  <2>2. Len(Tail(q)) = 0
    BY <1>5, <2>1, Zenon
  <2>3. Len(q) = 1
    BY <1>1, <1>3, <1>5, <2>2
  <2> QED
    BY <2>3
<1> QED
  BY <1>1, <1>2, <1>3, <1>4, <1>5, Zenon

\* An election starts a term at the end of the log.
LEMMA ElectTerm ==
    ASSUME AllInv, RaftOK, NEW n \in Server, Elect(n)
    PROVE  RaftOK'
<1>1. /\ DOMAIN node = Server /\ (\A m \in Server : DOMAIN node[m] = Fields)
      /\ Len(log) \in Nat /\ log' = log
  BY NodeShape DEF AllInv, LogOK, Elect
<1>2. /\ raft' = [leader |-> n, start |-> Len(log)]
      /\ node' = [m \in Server |->
                    IF m = n THEN [node[m] EXCEPT !.notify = Append(@, TRUE)]
                    ELSE IF m = raft.leader THEN [node[m] EXCEPT !.notify = Append(@, FALSE)]
                    ELSE node[m]]
      /\ node[n].status = "up"
  BY Zenon DEF Elect, Up
<1>3. \A m \in Server : node[m].notify \in Seq(BOOLEAN)
  BY Zenon DEF RaftOK
<1>4. /\ node'[n].notify = Append(node[n].notify, TRUE) /\ node'[n].status = "up"
      /\ \A m \in Server : node'[m].notify \in
            {node[m].notify, Append(node[m].notify, TRUE), Append(node[m].notify, FALSE)}
  BY <1>1, <1>2, Zenon DEF Fields
<1>5. \A m \in Server : node'[m].notify \in Seq(BOOLEAN)
  <2>1. TRUE \in BOOLEAN /\ FALSE \in BOOLEAN
    BY Zenon
  <2>2. \A m \in Server : /\ Append(node[m].notify, TRUE) \in Seq(BOOLEAN)
                          /\ Append(node[m].notify, FALSE) \in Seq(BOOLEAN)
    BY <1>3, <2>1, QueueEnds, Zenon
  <2> QED
    BY <1>3, <1>4, <2>2, Zenon
<1>6. node'[n].notify # <<>> /\ node'[n].notify[Len(node'[n].notify)]
  <2>1. TRUE \in BOOLEAN
    BY Zenon
  <2>2. /\ Append(node[n].notify, TRUE) # <<>>
        /\ Append(node[n].notify, TRUE)[Len(Append(node[n].notify, TRUE))] = TRUE
    BY <1>3, <2>1, QueueEnds, Zenon
  <2> QED
    BY <1>4, <2>2, Zenon
<1>7. raft' \in [leader : Server \cup {None}, start : 0 .. Len(log')] /\ raft'.leader = n
  BY <1>1, <1>2
<1>8. LeadsOK(n)'
  BY <1>4, <1>6, Zenon DEF LeadsOK, Up
<1> QED
  BY <1>5, <1>7, <1>8, Zenon DEF RaftOK

\* The server has taken the first of its notifications.
LEMMA NotifiedTerm ==
    ASSUME AllInv, RaftOK, NEW n \in Server, raft' = raft, log' = log,
           node[n].notify # <<>>, NEW b,
           \/ \E reports : node' = [node EXCEPT ![n].notify = Tail(@), ![n].leader = b,
                                                ![n].reports = reports]
           \/ node' = [node EXCEPT ![n].notify = Tail(@), ![n].leader = b],
           raft.leader = n => \/ node[n].applied >= raft.start
                              \/ ~Head(node[n].notify)
    PROVE  RaftOK'
<1>1. DOMAIN node = Server /\ DOMAIN node[n] = Fields
  BY NodeShape, Zenon
<1>2. /\ \A m \in Server \ {n} : node'[m] = node[m]
      /\ node'[n].notify = Tail(node[n].notify) /\ node'[n].status = node[n].status
      /\ node'[n].applied = node[n].applied
  <2>1. CASE node' = [node EXCEPT ![n].notify = Tail(@), ![n].leader = b]
    BY <1>1, <2>1, Zenon DEF Fields
  <2>2. CASE \E reports : node' = [node EXCEPT ![n].notify = Tail(@), ![n].leader = b,
                                                ![n].reports = reports]
    <3>1. PICK reports : node' = [node EXCEPT ![n].notify = Tail(@), ![n].leader = b,
                                              ![n].reports = reports]
      BY <2>2, Zenon
    <3> QED
      BY <1>1, <3>1, Zenon DEF Fields
  <2> QED
    BY <2>1, <2>2, Zenon
<1> DEFINE q == node[n].notify
           w == Tail(q)
<1>3. q \in Seq(BOOLEAN) /\ q # <<>> /\ w \in Seq(BOOLEAN) /\ Len(q) \in Nat
  BY QueueEnds, Zenon DEF RaftOK
<1>4. /\ w # <<>> => w[Len(w)] = q[Len(q)]
      /\ w = <<>> => Head(q) = q[Len(q)]
  BY <1>3, QueueEnds, Zenon
<1>5. ASSUME raft.leader = n
      PROVE  /\ Up(n) /\ q[Len(q)]
             /\ w # <<>> => w[Len(w)]
             /\ w = <<>> => node[n].applied >= raft.start
  BY <1>3, <1>4, <1>5, Zenon DEF RaftOK, LeadsOK
<1> HIDE DEF q, w
<1>6. node'[n].notify = w
  BY <1>2, Zenon DEF w, q
<1>7. \A m \in Server : node'[m].notify \in Seq(BOOLEAN)
  BY <1>2, <1>3, <1>6, Zenon DEF RaftOK
<1>8. \A m \in Server : raft.leader = m => LeadsOK(m)'
  <2>1. ASSUME NEW m \in Server, raft.leader = m PROVE LeadsOK(m)'
    <3>1. CASE m = n
      BY <1>2, <1>5, <1>6, <2>1, <3>1, Zenon DEF LeadsOK, Up
    <3>2. CASE m # n
      BY <1>2, <2>1, <3>2, Zenon DEF RaftOK, LeadsOK, Up
    <3> QED
      BY <3>1, <3>2, Zenon
  <2> QED
    BY <2>1, Zenon
<1> QED
  BY <1>7, <1>8, Zenon DEF RaftOK

\* Every step keeps what is known of the leadership.
LEMMA NextRaft == AllInv /\ RaftOK /\ AllInv' /\ [Next]_vars => RaftOK'
<1> SUFFICES ASSUME AllInv, RaftOK, AllInv', [Next]_vars PROVE RaftOK'
  BY Zenon
<1>1. ASSUME TermKept PROVE RaftOK'
  BY <1>1, SameTerm, Zenon DEF TermKept
<1>2. CASE UNCHANGED vars
  BY <1>2, Zenon DEF vars, RaftOK, LeadsOK, Up
<1>3. ASSUME NEW n \in Server,
             \/ Apply(n) \/ Snapshot(n) \/ Persist(n) \/ Crash(n) \/ Start(n) \/ StepDown(n)
             \/ (\E m \in Server : InstallSnapshot(n, m))
             \/ (\E k \in DOMAIN node[n].reports : ExpireReport(n, k))
      PROVE  TermKept
  BY <1>3, ApplyTerm, LocalTerm, ServerTerm, InstallTerm
<1>4. ASSUME NEW n \in Server, NEW s \in Stream,
             \/ DeleteStream(n, s)
             \/ (\E ps \in Bound.pauses : PauseStream(n, s, ps))
             \/ \E p \in Partition :
                   \/ CreatePartition(n, s, p) \/ Resume(n, s, p)
                   \/ \E r \in Server :
                         ShrinkISR(n, s, p, r) \/ ExpandISR(n, s, p, r) \/ ReportLeader(n, s, p, r)
      PROVE  TermKept
  <2>1. 0 \in Partition
    BY MetadataAssumption, Zenon
  <2> QED
    BY <1>4, <2>1, RequestTerm, ReportTerm, Zenon
<1>5. ASSUME NEW n \in Server, LeadershipAcquired(n) PROVE RaftOK'
  <2> DEFINE b == (raft.leader = n) \/ node[n].leader
  <2>1. /\ raft' = raft /\ log' = log /\ node[n].notify # <<>>
        /\ raft.leader = n => node[n].applied >= raft.start
    BY <1>5, Zenon DEF LeadershipAcquired
  <2>2. \E c : node' = [node EXCEPT ![n].notify = Tail(@), ![n].leader = c]
    BY <1>5, Zenon DEF LeadershipAcquired
  <2> QED
    BY <2>1, <2>2, NotifiedTerm, Zenon
<1>6. ASSUME NEW n \in Server, LeadershipLost(n) PROVE RaftOK'
  <2>1. /\ raft' = raft /\ log' = log /\ node[n].notify # <<>> /\ ~Head(node[n].notify)
        /\ node' = [node EXCEPT ![n].notify = Tail(@), ![n].leader = FALSE, ![n].reports = <<>>]
    BY <1>6, Zenon DEF LeadershipLost
  <2> QED
    BY <2>1, NotifiedTerm, Zenon
<1>7. CASE Next
  <2>1. PICK n \in Server :
       \/ Apply(n) \/ Snapshot(n) \/ Persist(n) \/ Crash(n) \/ Start(n)
       \/ Elect(n) \/ LeadershipAcquired(n) \/ StepDown(n) \/ LeadershipLost(n)
       \/ \E m \in Server : InstallSnapshot(n, m)
       \/ \E s \in Stream :
             \/ DeleteStream(n, s)
             \/ \E ps \in Bound.pauses : PauseStream(n, s, ps)
             \/ \E p \in Partition :
                   \/ CreatePartition(n, s, p) \/ Resume(n, s, p)
                   \/ \E r \in Server :
                         ShrinkISR(n, s, p, r) \/ ExpandISR(n, s, p, r) \/ ReportLeader(n, s, p, r)
       \/ \E k \in DOMAIN node[n].reports : ExpireReport(n, k)
    BY <1>7, Zenon DEF Next
  <2> QED
    BY <1>1, <1>3, <1>4, <1>5, <1>6, <2>1, ElectTerm
<1> QED
  BY <1>2, <1>7, Zenon

\* The types follow from the two invariants.
LEMMA AllTypeOK == AllInv /\ RaftOK => TypeOK
<1> SUFFICES ASSUME AllInv, RaftOK PROVE TypeOK
  BY Zenon
<1>1. \A n \in Server : node[n].applied \in 0 .. Len(log)
  BY Zenon DEF AllInv, NodeInv
<1>2. ASSUME NEW n \in Server, NEW k \in Partitions(View(n))
      PROVE  LET p == Part(n, k[1], k[2])
             IN /\ p \in PartitionRecord
                /\ p.isr \subseteq p.replicas
                /\ p.leaderEpoch <= p.epoch /\ p.epoch <= Len(log)
  <2> DEFINE x == View(n)[k[1]][k[2]]
  <2>1. HasPartition(View(n), k[1], k[2])
    BY <1>2, PartitionsOf, Zenon
  <2>2. /\ x \in ListedRecord /\ PartOK(log, k[1], k[2], x, node[n].applied)
        /\ LivePart(log, n, k[1], k[2], x, node[n].applied, node[n].restored)
        /\ node[n].applied \in 0 .. Len(log) /\ Len(log) \in Nat
    BY <2>1, KnownRecord, Zenon
  <2> HIDE DEF x
  <2>3. x.obj \in Nat
    BY <2>2 DEF LivePart
  <2>4. x \in PartitionRecord
    BY <2>2, <2>3, Zenon DEF ListedRecord, PartitionRecord
  <2>5. /\ x.isr \subseteq x.replicas /\ x.leaderEpoch <= x.epoch /\ x.epoch <= Len(log)
    BY <2>2 DEF PartOK, EpochsOK, Creates, Changes
  <2> QED
    BY <2>4, <2>5, Zenon DEF x, Part
<1> QED
  BY <1>1, <1>2, Zenon DEF TypeOK, RaftOK

\* A controller without pending notifications has applied what precedes its
\* term.
LEMMA AllCaughtUp == RaftOK => ControllerCaughtUp
BY Zenon DEF RaftOK, LeadsOK, ControllerCaughtUp

-----------------------------------------------------------------------------
\* The theorems.

Invariant == AllInv /\ RaftOK

\* Both invariants hold together: the leadership of the Raft group, the queue of
\* its notifications and what the servers know fit the committed log.
THEOREM RaftInvariant == Spec => []Invariant
<1>1. Init => Invariant
  BY InitAll, InitRaft, Zenon DEF Invariant
<1>2. Invariant /\ [Next]_vars => Invariant'
  BY NextAll, NextRaft, Zenon DEF Invariant
<1> QED
  BY <1>1, <1>2, PTL DEF Spec

\* The state keeps its types, the ISR of every partition a server knows is part
\* of its replicas, and its epochs are those of committed entries.
THEOREM TypeCorrect == Spec => []TypeOK
<1>1. Invariant => TypeOK
  BY AllTypeOK, Zenon DEF Invariant
<1> QED
  BY <1>1, RaftInvariant, PTL

\* A server that has recovered leads or follows every partition it should
\* (StartRecovered, SetLeader), whatever it replayed and whatever snapshot it
\* restored.
THEOREM ServersRun == Spec => []RunsAsViewed
<1>1. AllInv => RunsAsViewed
  BY AllRuns, Zenon
<1> QED
  BY <1>1, MetadataInvariant, PTL

\* A server that replays its log from the start neither leads nor follows
\* before the last entry that was committed when it began (Apply, fsm.go).
THEOREM RecoveryIsIdle == Spec => []IdleWhileRecovering
<1>1. AllInv => IdleWhileRecovering
  BY AllIdle
<1> QED
  BY <1>1, MetadataInvariant, PTL

\* Two replicas never lead a partition in the same leader epoch, however far
\* each has applied the log, but for a paused one that was restored.
THEOREM LeadersDiffer == Spec => []OneLeaderPerEpoch
<1>1. AllInv => OneLeaderPerEpoch
  BY AllOneLeader, Zenon
<1> QED
  BY <1>1, MetadataInvariant, PTL

\* Apply panics only on an entry whose stream was deleted or paused before.
THEOREM EntriesApply == Spec => []AppliesEntries
<1>1. AllInv => AppliesEntries
  BY AllApplies, Zenon
<1> QED
  BY <1>1, MetadataInvariant, PTL

\* A server that restored a snapshot that its own later entries had changed, and
\* replayed the log, agrees with the others on the leaders and the epochs of
\* every stream that was never paused (Persist, Restore).
THEOREM SnapshotsAgree == Spec => []RestoredAgrees
<1>1. AllInv => RestoredAgrees
  BY AllRestored, Zenon
<1> QED
  BY <1>1, MetadataInvariant, PTL

\* A controller has applied what was committed before its term once it has heard
\* of every change of its leadership (leadershipAcquired and its barrier).
THEOREM ControllersCaughtUp == Spec => []ControllerCaughtUp
<1>1. Invariant => ControllerCaughtUp
  BY AllCaughtUp, Zenon DEF Invariant
<1> QED
  BY <1>1, RaftInvariant, PTL

\* No entry lowers the epoch of a partition (the idempotency checks of fsm.go).
THEOREM EpochsRise == Spec => EpochNeverFalls
<1>1. AllInv /\ [Next]_vars => KeepsEpochs
  BY AllKeepsEpochs, Zenon
<1> QED
  BY <1>1, InitAll, NextAll, PTL DEF Spec, EpochNeverFalls
=============================================================================
