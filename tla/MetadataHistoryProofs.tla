----------------------- MODULE MetadataHistoryProofs ------------------------
(***************************************************************************)
(* Proofs about Metadata, continued: servers that have applied the same    *)
(* entries know the same partitions.  AllInv leaves the ISR open, so the   *)
(* argument follows a history: what a server that is no replica of         *)
(* anything would know after each entry of the log.  Every server that was *)
(* never restored from a snapshot agrees with the history (HistoryOK).     *)
(***************************************************************************)
EXTENDS MetadataStepProofs

\* What x and y have in common when they come from the same entries.
SamePart(x, y) ==
    /\ y \in ListedRecord
    /\ y.epoch = x.epoch /\ y.leaderEpoch = x.leaderEpoch
    /\ y.isr = x.isr /\ y.replicas = x.replicas /\ y.paused = x.paused
    /\ ~x.paused => y.leader = x.leader /\ y.assigned = x.assigned

\* st and h know the same partitions.
Agree(st, h) ==
    /\ ViewOK(h)
    /\ \A s \in Stream, p \in Partition : HasPartition(st, s, p) <=> HasPartition(h, s, p)
    /\ \A s \in Stream, p \in Partition : HasPartition(st, s, p) => SamePart(st[s][p], h[s][p])

\* h[i] is what a server that is no replica knows after the first i entries.
History(L, h) ==
    /\ h[0] = <<>>
    /\ \A i \in 1 .. Len(L) : h[i] = ApplyEntry(None, h[i - 1], L[i], i, FALSE)

\* Every server that was never restored agrees with the history.
Follows(h) ==
    \A n \in Server : Up(n) /\ ~node[n].restored => Agree(View(n), h[node[n].applied])

HistoryOK == \E h : History(log, h) /\ Follows(h)

-----------------------------------------------------------------------------
\* An entry keeps what two records have in common.

Created(n, op, i, rec, y) ==
    y = SetLeader(n, NewPartition(op.leader, op.replicas, i, i, rec), op.leader, i)

\* A partition that an entry creates has the fields of the entry.
LEMMA CreatedAs ==
    ASSUME NEW n, NEW op, NEW i, NEW rec, NEW y, Created(n, op, i, rec, y),
           op \in Entries, op.type = "create", i \in Nat, rec \in BOOLEAN
    PROVE  /\ y \in ListedRecord /\ y.leader = op.leader /\ y.leaderEpoch = i /\ y.epoch = i
           /\ y.replicas = op.replicas /\ y.assigned = op.replicas /\ y.isr = op.replicas
           /\ ~y.paused /\ y.paused \in BOOLEAN
<1> DEFINE new == NewPartition(op.leader, op.replicas, i, i, rec)
<1>1. op.leader \in Server /\ op.replicas \in SUBSET Server
  BY Zenon DEF Entries
<1>2. /\ new \in ListedRecord /\ new.leader = op.leader /\ new.leaderEpoch = i /\ new.epoch = i
      /\ new.replicas = op.replicas /\ new.assigned = op.replicas /\ new.isr = op.replicas
      /\ ~new.paused /\ new.runs = "no"
  BY <1>1 DEF NewPartition, ListedRecord
<1>3. y = SetLeader(n, new, new.leader, new.leaderEpoch)
  BY <1>2, Zenon DEF Created
<1> HIDE DEF new
<1>4. /\ y \in ListedRecord /\ y.leader = op.leader /\ y.leaderEpoch = i /\ y.epoch = i
      /\ y.replicas = op.replicas /\ y.assigned = op.replicas /\ y.isr = op.replicas
      /\ ~y.paused
  BY <1>2, <1>3, CreatedRecord
<1>5. y.paused \in BOOLEAN
  BY <1>4, Zenon DEF ListedRecord
<1> QED
  BY <1>4, <1>5, Zenon

\* Two records that agree still do when both are paused.
LEMMA PausedAgrees ==
    ASSUME NEW x, NEW y, x \in ListedRecord, SamePart(x, y)
    PROVE  SamePart(Pause(x), Pause(y))
<1> DEFINE u == Pause(x)
           v == Pause(y)
<1>1. y \in ListedRecord
  BY Zenon DEF SamePart
<1>2. /\ u \in ListedRecord /\ u.leaderEpoch = x.leaderEpoch /\ u.epoch = x.epoch
      /\ u.replicas = x.replicas /\ u.isr = x.isr /\ u.paused
  BY PausedRecord, Zenon
<1>3. /\ v \in ListedRecord /\ v.leaderEpoch = y.leaderEpoch /\ v.epoch = y.epoch
      /\ v.replicas = y.replicas /\ v.isr = y.isr /\ v.paused
  BY <1>1, PausedRecord, Zenon
<1> HIDE DEF u, v
<1>4. u.paused \in BOOLEAN /\ v.paused \in BOOLEAN
  BY <1>2, <1>3, Zenon DEF ListedRecord
<1>5. SamePart(u, v)
  BY <1>2, <1>3, <1>4, Zenon DEF SamePart
<1> QED
  BY <1>5, Zenon DEF u, v

\* They do when both take the same change of ISR or leader.
LEMMA ChangedAgrees ==
    ASSUME NEW n, NEW m, NEW x, NEW y, NEW op, NEW i, NEW u, NEW v,
           ChangedTo(n, x, op, i, u), ChangedTo(m, y, op, i, v), x \in ListedRecord, SamePart(x, y),
           op \in Entries, i \in Nat, op.type \in {"shrink", "expand", "elect"}
    PROVE  SamePart(u, v)
<1>1. /\ u \in ListedRecord /\ u.epoch = i /\ u.replicas = x.replicas
      /\ u.assigned = x.assigned /\ u.paused = x.paused
      /\ op.type # "elect" => u.leader = x.leader /\ u.leaderEpoch = x.leaderEpoch
      /\ op.type = "shrink" => u.isr = x.isr \ {op.replica}
      /\ op.type = "expand" => u.isr = x.isr \cup {op.replica}
      /\ op.type = "elect" => u.leader = op.leader /\ u.leaderEpoch = i /\ u.isr = x.isr
  BY ChangedRecord
<1>2. /\ v \in ListedRecord /\ v.epoch = i /\ v.replicas = y.replicas
      /\ v.assigned = y.assigned /\ v.paused = y.paused
      /\ op.type # "elect" => v.leader = y.leader /\ v.leaderEpoch = y.leaderEpoch
      /\ op.type = "shrink" => v.isr = y.isr \ {op.replica}
      /\ op.type = "expand" => v.isr = y.isr \cup {op.replica}
      /\ op.type = "elect" => v.leader = op.leader /\ v.leaderEpoch = i /\ v.isr = y.isr
  BY ChangedRecord DEF SamePart
<1> QED
  BY <1>1, <1>2, Zenon DEF SamePart

\* An entry does the same to two records that agree, whoever applies it.
LEMMA PartAgrees ==
    ASSUME NEW n, NEW m, NEW P, NEW Q, NEW s, NEW p, NEW op, NEW i, NEW rec, NEW rec2, NEW u, NEW v,
           PartStep(n, P, u, s, p, op, i, rec), PartStep(m, Q, v, s, p, op, i, rec2),
           op \in Entries, i \in Nat, rec \in BOOLEAN, rec2 \in BOOLEAN,
           IsPause(P, op, s, p) <=> IsPause(Q, op, s, p),
           <<s, p>> \in DOMAIN P <=> <<s, p>> \in DOMAIN Q,
           NEW x, NEW y, RecordOf(P, s, p, <<s, p>>, x), RecordOf(Q, s, p, <<s, p>>, y),
           <<s, p>> \in DOMAIN P => x \in ListedRecord /\ SamePart(x, y)
    PROVE  SamePart(u, v)
<1>1. x = P[<<s, p>>] /\ y = Q[<<s, p>>]
  BY Zenon DEF RecordOf
<1>2. IsCreate(op, s, p) => op.type = "create" /\ ~IsChange(op, s, p) /\ ~IsPause(P, op, s, p)
  BY Zenon DEF IsCreate, IsChange, IsPause
<1>3. IsChange(op, s, p) => /\ op.type \in {"shrink", "expand", "elect"} /\ ~IsPause(P, op, s, p)
  BY Zenon DEF IsChange, IsPause
<1>4. /\ \/ <<s, p>> \in DOMAIN P /\ u = x /\ (IsCreate(op, s, p) => ~x.paused)
            /\ (IsChange(op, s, p) => x.epoch >= i) /\ ~IsPause(P, op, s, p)
         \/ IsCreate(op, s, p) /\ (<<s, p>> \in DOMAIN P => x.paused) /\ Created(n, op, i, rec, u)
         \/ IsPause(P, op, s, p) /\ <<s, p>> \in DOMAIN P /\ u = Pause(x)
         \/ IsChange(op, s, p) /\ <<s, p>> \in DOMAIN P /\ ~(x.epoch >= i) /\ ChangedTo(n, x, op, i, u)
  BY <1>1, Zenon DEF PartStep, Created, ChangedTo
<1>5. /\ \/ <<s, p>> \in DOMAIN P /\ v = y /\ (IsCreate(op, s, p) => ~y.paused)
            /\ (IsChange(op, s, p) => y.epoch >= i) /\ ~IsPause(P, op, s, p)
         \/ IsCreate(op, s, p) /\ (<<s, p>> \in DOMAIN P => y.paused) /\ Created(m, op, i, rec2, v)
         \/ IsPause(P, op, s, p) /\ <<s, p>> \in DOMAIN P /\ v = Pause(y)
         \/ IsChange(op, s, p) /\ <<s, p>> \in DOMAIN P /\ ~(y.epoch >= i) /\ ChangedTo(m, y, op, i, v)
  BY <1>1, Zenon DEF PartStep, Created, ChangedTo
<1>6. <<s, p>> \in DOMAIN P => x.epoch = y.epoch /\ x.paused = y.paused
  BY Zenon DEF SamePart
<1>7. CASE IsCreate(op, s, p)
  <2>1. CASE Created(n, op, i, rec, u) /\ Created(m, op, i, rec2, v)
    BY <1>2, <1>7, <2>1, CreatedAs DEF SamePart
  <2>2. CASE <<s, p>> \in DOMAIN P /\ u = x /\ v = y
    BY <2>2, Zenon
  <2> QED
    BY <1>2, <1>4, <1>5, <1>6, <1>7, <2>1, <2>2
<1>8. CASE IsPause(P, op, s, p)
  <2>1. <<s, p>> \in DOMAIN P /\ u = Pause(x) /\ v = Pause(y)
    BY <1>2, <1>3, <1>4, <1>5, <1>8, Zenon
  <2> QED
    BY <2>1, PausedAgrees, Zenon
<1>9. CASE IsChange(op, s, p)
  <2>1. CASE ChangedTo(n, x, op, i, u) /\ ChangedTo(m, y, op, i, v) /\ <<s, p>> \in DOMAIN P
    BY <1>3, <1>9, <2>1, ChangedAgrees, Zenon
  <2>2. CASE <<s, p>> \in DOMAIN P /\ u = x /\ v = y
    BY <2>2, Zenon
  <2> QED
    BY <1>2, <1>3, <1>4, <1>5, <1>6, <1>9, <2>1, <2>2, Zenon
<1> QED
  BY <1>4, <1>5, <1>7, <1>8, <1>9, Zenon

-----------------------------------------------------------------------------
\* An entry keeps the agreement of a view with the history.

\* Apply fails on neither or on both.
LEMMA PanicsAlike ==
    ASSUME NEW st, NEW h, NEW op, NEW i, Agree(st, h), ViewOK(st), op \in Entries,
           ~Panics(st, op, i)
    PROVE  ~Panics(h, op, i)
<1>1. op.stream \in Stream
  BY Zenon DEF Entries
<1>2. CASE op.type \in {"shrink", "expand", "elect"}
  <2> DEFINE x == st[op.stream][op.partition]
             y == h[op.stream][op.partition]
  <2>1. op.partition \in Partition
    BY <1>2, Zenon DEF Entries
  <2>2. /\ HasPartition(st, op.stream, op.partition)
        /\ ~(x.epoch >= i) => IF op.type = "elect" THEN ~(i < x.leaderEpoch)
                              ELSE op.replica \in x.replicas
    BY <1>2, Zenon DEF Panics, AlreadyApplied
  <2>3. HasPartition(h, op.stream, op.partition) /\ SamePart(x, y)
    BY <1>1, <2>1, <2>2, Zenon DEF Agree
  <2>4. y.epoch = x.epoch /\ y.leaderEpoch = x.leaderEpoch /\ y.replicas = x.replicas
    BY <2>3, Zenon DEF SamePart
  <2> QED
    BY <1>2, <2>2, <2>3, <2>4, Zenon DEF Panics, AlreadyApplied
<1>3. CASE op.type = "delete"
  <2>1. SUFFICES ASSUME op.stream \in DOMAIN h,
                        NEW p \in DOMAIN h[op.stream], h[op.stream][p].paused
                 PROVE  FALSE
    BY <1>3, Zenon DEF Panics
  <2>2. HasPartition(h, op.stream, p) /\ p \in Partition
    BY <2>1, Zenon DEF HasPartition, Agree, ViewOK
  <2>3. HasPartition(st, op.stream, p) /\ SamePart(st[op.stream][p], h[op.stream][p])
    BY <1>1, <2>2, Zenon DEF Agree
  <2>4. st[op.stream][p].paused
    BY <2>1, <2>3, Zenon DEF SamePart
  <2> QED
    BY <1>3, <2>3, <2>4, Zenon DEF Panics, HasPartition
<1>4. CASE op.type \notin {"shrink", "expand", "elect", "delete"}
  BY <1>4, Zenon DEF Panics
<1> QED
  BY <1>2, <1>3, <1>4, Zenon

Recorded(st) ==
    \A s \in Stream, p \in Partition : HasPartition(st, s, p) => st[s][p] \in ListedRecord

\* An entry keeps two views that agree in agreement.
LEMMA AgreeEntry ==
    ASSUME NEW n, NEW st, NEW h, NEW op, NEW i, NEW rec, NEW new, NEW g, Agree(st, h),
           AppliedTo(n, st, op, i, rec, new), AppliedTo(None, h, op, i, FALSE, g),
           ViewOK(st), Recorded(st), op \in Entries, i \in Nat, rec \in BOOLEAN, ~Panics(st, op, i)
    PROVE  Agree(new, g)
<1> DEFINE P == Parts(st)
           Q == Parts(h)
           P2 == Parts(new)
           Q2 == Parts(g)
<1>1. ViewOK(h) /\ ~Panics(h, op, i) /\ FALSE \in BOOLEAN
  BY PanicsAlike, Zenon DEF Agree
<1>2. ViewOK(new) /\ EntryStep(n, P, P2, op, i, rec)
  BY ApplyStep, Zenon DEF AppliedTo
<1>3. ViewOK(g) /\ EntryStep(None, Q, Q2, op, i, FALSE)
  BY <1>1, ApplyStep, Zenon DEF AppliedTo
<1>4. /\ \A s, p : <<s, p>> \in DOMAIN P <=> HasPartition(st, s, p)
      /\ \A s, p : HasPartition(st, s, p) => P[<<s, p>>] = st[s][p]
      /\ \A s, p : <<s, p>> \in DOMAIN Q <=> HasPartition(h, s, p)
      /\ \A s, p : HasPartition(h, s, p) => Q[<<s, p>>] = h[s][p]
      /\ \A s, p : <<s, p>> \in DOMAIN P2 <=> HasPartition(new, s, p)
      /\ \A s, p : HasPartition(new, s, p) => P2[<<s, p>>] = new[s][p]
      /\ \A s, p : <<s, p>> \in DOMAIN Q2 <=> HasPartition(g, s, p)
      /\ \A s, p : HasPartition(g, s, p) => Q2[<<s, p>>] = g[s][p]
      /\ DOMAIN P \subseteq Stream \X Partition /\ DOMAIN Q \subseteq Stream \X Partition
  BY <1>1, PartsOfView, Zenon
<1> HIDE DEF P, Q, P2, Q2
<1>5. ASSUME NEW s \in Stream, NEW p \in Partition
      PROVE  /\ <<s, p>> \in DOMAIN P <=> <<s, p>> \in DOMAIN Q
             /\ <<s, p>> \in DOMAIN P => /\ P[<<s, p>>] \in ListedRecord
                                         /\ SamePart(P[<<s, p>>], Q[<<s, p>>])
  BY <1>4 DEF Agree, Recorded
<1>6. ASSUME NEW s \in Stream, NEW p \in Partition
      PROVE  IsPause(P, op, s, p) <=> IsPause(Q, op, s, p)
  <2>1. op.type = "pause" => op.partitions \subseteq Partition
    BY Zenon DEF Entries
  <2> QED
    BY <1>5, <2>1, Zenon DEF IsPause
<1>7. ASSUME NEW s \in Stream, NEW p \in Partition
      PROVE  <<s, p>> \in DOMAIN P2 <=> <<s, p>> \in DOMAIN Q2
  BY <1>2, <1>3, <1>5, Zenon DEF EntryStep
<1>8. ASSUME NEW s \in Stream, NEW p \in Partition, <<s, p>> \in DOMAIN P2
      PROVE  SamePart(P2[<<s, p>>], Q2[<<s, p>>])
  <2> DEFINE x == P[<<s, p>>]
             y == Q[<<s, p>>]
             u == P2[<<s, p>>]
             v == Q2[<<s, p>>]
  <2>1. PartStep(n, P, u, s, p, op, i, rec)
    BY <1>2, <1>8, Zenon DEF EntryStep
  <2>2. PartStep(None, Q, v, s, p, op, i, FALSE)
    BY <1>3, <1>7, <1>8, Zenon DEF EntryStep
  <2>3. RecordOf(P, s, p, <<s, p>>, x) /\ RecordOf(Q, s, p, <<s, p>>, y)
    BY Zenon DEF RecordOf
  <2>4. <<s, p>> \in DOMAIN P => x \in ListedRecord /\ SamePart(x, y)
    BY <1>5, Zenon
  <2> HIDE DEF x, y, u, v
  <2>5. SamePart(u, v)
    BY <1>1, <1>5, <1>6, <2>1, <2>2, <2>3, <2>4, PartAgrees, Zenon
  <2> QED
    BY <2>5, Zenon DEF u, v
<1>9. ASSUME NEW s \in Stream, NEW p \in Partition
      PROVE  /\ HasPartition(new, s, p) <=> HasPartition(g, s, p)
             /\ HasPartition(new, s, p) => SamePart(new[s][p], g[s][p])
  BY <1>4, <1>7, <1>8, Zenon
<1> QED
  BY <1>3, <1>9, Zenon DEF Agree

\* The end of the recovery, and Resume, change nothing of it.
LEMMA AgreeSame ==
    ASSUME NEW st, NEW new, NEW h, Agree(st, h),
           \A s \in Stream, p \in Partition : HasPartition(new, s, p) <=> HasPartition(st, s, p),
           \A s \in Stream, p \in Partition : HasPartition(st, s, p) =>
              \A z : SamePart(st[s][p], z) => SamePart(new[s][p], z)
    PROVE  Agree(new, h)
  BY Zenon DEF Agree

\* The end of the recovery keeps them in agreement.
LEMMA AgreeFinished ==
    ASSUME NEW n, NEW st, NEW h, ViewOK(st), Recorded(st), Agree(st, h)
    PROVE  Agree(FinishedRecovery(n, st), h)
<1> DEFINE new == FinishedRecovery(n, st)
<1>1. /\ \A s, p : HasPartition(new, s, p) <=> HasPartition(st, s, p)
      /\ \A s, p : HasPartition(st, s, p) => new[s][p] = StartRecovered(n, st[s][p])
  BY FinishedView
<1>2. ASSUME NEW s \in Stream, NEW p \in Partition, HasPartition(st, s, p), NEW z,
             SamePart(st[s][p], z)
      PROVE  SamePart(new[s][p], z)
  <2> DEFINE x == st[s][p]
             y == StartRecovered(n, x)
  <2>1. x \in ListedRecord /\ SamePart(x, z) /\ new[s][p] = y
    BY <1>1, <1>2, Zenon DEF Recorded
  <2>2. /\ y.leader = x.leader /\ y.leaderEpoch = x.leaderEpoch /\ y.epoch = x.epoch
        /\ y.replicas = x.replicas /\ y.assigned = x.assigned
        /\ y.isr = x.isr /\ y.paused = x.paused
    BY <2>1, StartedRecord
  <2> HIDE DEF x, y, new
  <2> QED
    BY <2>1, <2>2, Zenon DEF SamePart
<1> HIDE DEF new
<1>3. Agree(new, h)
  BY <1>1, <1>2, AgreeSame
<1> QED
  BY <1>3, Zenon DEF new

\* So does overwriting the assignment of a paused partition.
LEMMA AgreeResumed ==
    ASSUME NEW st, NEW s, NEW p, NEW R, NEW l, NEW new, NEW h,
           Reassigned(st, s, p, R, l, new), Agree(st, h), Recorded(st),
           s \in Stream, p \in Partition, HasPartition(st, s, p), st[s][p].paused
    PROVE  Agree(new, h)
<1> DEFINE x == st[s][p]
           y == new[s][p]
<1>1. /\ DOMAIN new = DOMAIN st
      /\ \A t \in DOMAIN st : DOMAIN new[t] = DOMAIN st[t]
      /\ \A t \in DOMAIN st : \A q \in DOMAIN st[t] : t # s \/ q # p => new[t][q] = st[t][q]
      /\ y = [x EXCEPT !.assigned = R, !.leader = l]
  BY Zenon DEF HasPartition, Reassigned
<1>2. /\ \A t, q : HasPartition(new, t, q) <=> HasPartition(st, t, q)
      /\ \A t, q : HasPartition(st, t, q) /\ (t # s \/ q # p) => new[t][q] = st[t][q]
  BY <1>1, Zenon DEF HasPartition
<1>3. x \in ListedRecord /\ x.paused
  BY Zenon DEF Recorded
<1> HIDE DEF x, y
<1>4. /\ y.leaderEpoch = x.leaderEpoch /\ y.epoch = x.epoch /\ y.replicas = x.replicas
      /\ y.isr = x.isr /\ y.paused = x.paused
  BY <1>1, <1>3, Zenon DEF ListedRecord
<1>5. ASSUME NEW z, SamePart(x, z) PROVE SamePart(y, z)
  BY <1>3, <1>4, <1>5, Zenon DEF SamePart
<1>6. ASSUME NEW t \in Stream, NEW q \in Partition, HasPartition(st, t, q), NEW z,
             SamePart(st[t][q], z)
      PROVE  SamePart(new[t][q], z)
  <2>1. CASE t = s /\ q = p
    BY <1>5, <1>6, <2>1, Zenon DEF x, y
  <2>2. CASE t # s \/ q # p
    BY <1>2, <1>6, <2>2, Zenon
  <2> QED
    BY <2>1, <2>2, Zenon
<1> QED
  BY <1>2, <1>6, AgreeSame

-----------------------------------------------------------------------------
\* The steps.

\* The history of a log is extended by an entry.
LEMMA HistoryGrows ==
    ASSUME NEW L, L \in Seq(Entries), NEW op, NEW h, History(L, h)
    PROVE  \E g : History(Append(L, op), g) /\ \A i \in 0 .. Len(L) : g[i] = h[i]
<1> DEFINE M == Append(L, op)
           e == ApplyEntry(None, h[Len(L)], op, Len(L) + 1, FALSE)
           g == [i \in 0 .. Len(L) + 1 |-> IF i <= Len(L) THEN h[i] ELSE e]
<1>1. Len(L) \in Nat /\ Len(M) = Len(L) + 1 /\ M[Len(L) + 1] = op /\ \A i \in 1 .. Len(L) : M[i] = L[i]
  OBVIOUS
<1> HIDE DEF e, M
<1>2. (\A i \in 0 .. Len(L) : g[i] = h[i]) /\ g[Len(L) + 1] = e
  BY <1>1
<1> HIDE DEF g
<1>3. g[0] = <<>>
  BY <1>1, <1>2 DEF History
<1>4. ASSUME NEW i \in 1 .. Len(M) PROVE g[i] = ApplyEntry(None, g[i - 1], M[i], i, FALSE)
  <2>1. CASE i \in 1 .. Len(L)
    <3>1. g[i] = h[i] /\ g[i - 1] = h[i - 1] /\ M[i] = L[i]
      BY <1>1, <1>2, <2>1
    <3>2. h[i] = ApplyEntry(None, h[i - 1], L[i], i, FALSE)
      BY <2>1, Zenon DEF History
    <3> QED
      BY <3>1, <3>2, Zenon
  <2>2. CASE i = Len(L) + 1
    <3>1. g[i] = e /\ g[i - 1] = h[Len(L)] /\ M[i] = op
      BY <1>1, <1>2, <2>2
    <3> QED
      BY <2>2, <3>1, Zenon DEF e
  <2>3. i \in 1 .. Len(L) \/ i = Len(L) + 1
    BY <1>1
  <2> QED
    BY <2>1, <2>2, <2>3, Zenon
<1> QED
  BY <1>2, <1>3, <1>4, Zenon DEF History, M

LogGrows == log' = log \/ \E op : log' = Append(log, op)

KeepsHistory(m) ==
    \A h : History(log, h) /\ Follows(h) /\ node'[m].status = "up" /\ ~node'[m].restored =>
              Agree(node'[m].streams, h[node'[m].applied]) /\ node'[m].applied \in 0 .. Len(log)

\* A step keeps every server in agreement with the history if it keeps each of
\* them.
LEMMA HistoryStep ==
    ASSUME AllInv, HistoryOK, LogGrows, \A m \in Server : KeepsHistory(m)
    PROVE  HistoryOK'
<1>1. PICK h : History(log, h) /\ Follows(h)
  BY Zenon DEF HistoryOK
<1>2. \A m \in Server : node'[m].status = "up" /\ ~node'[m].restored =>
         Agree(node'[m].streams, h[node'[m].applied]) /\ node'[m].applied \in 0 .. Len(log)
  BY <1>1, Zenon DEF KeepsHistory
<1>3. PICK g : History(log', g) /\ \A i \in 0 .. Len(log) : g[i] = h[i]
  <2>1. log \in Seq(Entries)
    BY Zenon DEF AllInv, LogOK
  <2>2. CASE log' = log
    BY <1>1, <2>2, Zenon
  <2>3. CASE \E op : log' = Append(log, op)
    <3>1. PICK op : log' = Append(log, op)
      BY <2>3, Zenon
    <3>2. \E g : History(Append(log, op), g) /\ \A i \in 0 .. Len(log) : g[i] = h[i]
      BY <1>1, <2>1, HistoryGrows
    <3> QED
      BY <3>1, <3>2, Zenon
  <2> QED
    BY <2>2, <2>3, Zenon DEF LogGrows
<1>4. Follows(g)'
  BY <1>2, <1>3, Zenon DEF Follows, Up, View
<1> QED
  BY <1>3, <1>4, Zenon DEF HistoryOK

\* A server whose streams and index are not touched.
SameView(m) ==
    /\ node'[m].status = node[m].status /\ node'[m].restored = node[m].restored
    /\ node'[m].streams = node[m].streams /\ node'[m].applied = node[m].applied

\* A server that is not touched stays in agreement.
LEMMA SameViewKeeps ==
    ASSUME AllInv, NEW m \in Server, SameView(m)
    PROVE  KeepsHistory(m)
<1>1. node[m].applied \in 0 .. Len(log)
  BY Zenon DEF AllInv, NodeInv
<1> QED
  BY <1>1, Zenon DEF SameView, KeepsHistory, Follows, Up, View

\* Steps that change no view.
LEMMA OtherFields ==
    ASSUME AllInv, NEW n \in Server,
           \/ node' = node
           \/ \E z : node' = [node EXCEPT ![n].reports = z]
           \/ \E z : node' = [node EXCEPT ![n].persist = z]
           \/ \E y, z : node' = [node EXCEPT ![n].notify = y, ![n].leader = z]
           \/ \E y, z, w : node' = [node EXCEPT ![n].notify = y, ![n].leader = z, ![n].reports = w]
    PROVE  \A m \in Server : SameView(m)
<1>1. DOMAIN node = Server /\ \A m \in Server : DOMAIN node[m] = Fields
  BY NodeShape, Zenon
<1>2. CASE node' = node
  BY <1>2, Zenon DEF SameView
<1>3. CASE \E z : node' = [node EXCEPT ![n].reports = z]
  <2>1. PICK z : node' = [node EXCEPT ![n].reports = z]
    BY <1>3, Zenon
  <2>2. /\ \A m \in Server \ {n} : node'[m] = node[m]
        /\ node'[n].status = node[n].status /\ node'[n].restored = node[n].restored
        /\ node'[n].streams = node[n].streams /\ node'[n].applied = node[n].applied
    BY <1>1, <2>1, ZenonT(40) DEF Fields
  <2> QED
    BY <2>2, Zenon DEF SameView
<1>4. CASE \E z : node' = [node EXCEPT ![n].persist = z]
  <2>1. PICK z : node' = [node EXCEPT ![n].persist = z]
    BY <1>4, Zenon
  <2>2. /\ \A m \in Server \ {n} : node'[m] = node[m]
        /\ node'[n].status = node[n].status /\ node'[n].restored = node[n].restored
        /\ node'[n].streams = node[n].streams /\ node'[n].applied = node[n].applied
    BY <1>1, <2>1, ZenonT(40) DEF Fields
  <2> QED
    BY <2>2, Zenon DEF SameView
<1>5. CASE \E y, z : node' = [node EXCEPT ![n].notify = y, ![n].leader = z]
  <2>1. PICK y, z : node' = [node EXCEPT ![n].notify = y, ![n].leader = z]
    BY <1>5, Zenon
  <2>2. /\ \A m \in Server \ {n} : node'[m] = node[m]
        /\ node'[n].status = node[n].status /\ node'[n].restored = node[n].restored
        /\ node'[n].streams = node[n].streams /\ node'[n].applied = node[n].applied
    BY <1>1, <2>1, ZenonT(40) DEF Fields
  <2> QED
    BY <2>2, Zenon DEF SameView
<1>6. CASE \E y, z, w : node' = [node EXCEPT ![n].notify = y, ![n].leader = z, ![n].reports = w]
  <2>1. PICK y, z, w : node' = [node EXCEPT ![n].notify = y, ![n].leader = z, ![n].reports = w]
    BY <1>6, Zenon
  <2>3. node' = [node EXCEPT ![n] = [node[n] EXCEPT !.notify = y, !.leader = z, !.reports = w]]
    BY <1>1, <2>1, Zenon
  <2>2. /\ \A m \in Server \ {n} : node'[m] = node[m]
        /\ node'[n].status = node[n].status /\ node'[n].restored = node[n].restored
        /\ node'[n].streams = node[n].streams /\ node'[n].applied = node[n].applied
    BY <1>1, <2>3, ZenonT(40) DEF Fields
  <2> QED
    BY <2>2, Zenon DEF SameView
<1> QED
  BY <1>2, <1>3, <1>4, <1>5, <1>6, Zenon

\* Requests touch no view.
LEMMA RequestHistory ==
    ASSUME AllInv, HistoryOK, NEW n \in Server, NEW s \in Stream, NEW p \in Partition, NEW r \in Server,
           \/ DeleteStream(n, s) \/ (\E ps \in Bound.pauses : PauseStream(n, s, ps))
           \/ CreatePartition(n, s, p) \/ ShrinkISR(n, s, p, r) \/ ExpandISR(n, s, p, r)
           \/ ReportLeader(n, s, p, r)
    PROVE  HistoryOK'
<1>1. CASE ReportLeader(n, s, p, r)
  <2>1. \E z : node' = [node EXCEPT ![n].reports = z]
    BY <1>1, Zenon DEF ReportLeader, ElectNewPartitionLeader
  <2>2. LogGrows
    BY <1>1, Zenon DEF ReportLeader, ElectNewPartitionLeader, Propose, LogGrows
  <2> QED
    BY <2>1, <2>2, OtherFields, SameViewKeeps, HistoryStep, Zenon
<1>2. CASE ~ReportLeader(n, s, p, r)
  <2>1. node' = node /\ LogGrows
    BY <1>2, Zenon DEF DeleteStream, PauseStream, CreatePartition, ShrinkISR, ExpandISR, Propose, LogGrows
  <2> QED
    BY <2>1, OtherFields, SameViewKeeps, HistoryStep, Zenon
<1> QED
  BY <1>1, <1>2, Zenon

\* Neither do reports, snapshots and notifications.
LEMMA LocalHistory ==
    ASSUME AllInv, HistoryOK, NEW n \in Server,
           \/ Snapshot(n) \/ Persist(n) \/ (\E k \in DOMAIN node[n].reports : ExpireReport(n, k))
           \/ LeadershipAcquired(n) \/ LeadershipLost(n)
    PROVE  HistoryOK'
<1>1. LogGrows
  BY Zenon DEF Snapshot, Persist, ExpireReport, LeadershipAcquired, LeadershipLost, LogGrows
<1>2. \/ \E z : node' = [node EXCEPT ![n].reports = z]
      \/ \E z : node' = [node EXCEPT ![n].persist = z]
      \/ \E y, z : node' = [node EXCEPT ![n].notify = y, ![n].leader = z]
      \/ \E y, z, w : node' = [node EXCEPT ![n].notify = y, ![n].leader = z, ![n].reports = w]
  BY Zenon DEF Snapshot, Persist, ExpireReport, LeadershipAcquired, LeadershipLost
<1> QED
  BY <1>1, <1>2, OtherFields, SameViewKeeps, HistoryStep, Zenon

\* Neither does an election.
LEMMA ElectHistory ==
    ASSUME AllInv, HistoryOK, NEW n \in Server, Elect(n)
    PROVE  HistoryOK'
<1>1. DOMAIN node = Server /\ \A m \in Server : DOMAIN node[m] = Fields
  BY NodeShape, Zenon
<1>2. node' = [m \in Server |->
                  IF m = n THEN [node[m] EXCEPT !.notify = Append(@, TRUE)]
                  ELSE IF m = raft.leader THEN [node[m] EXCEPT !.notify = Append(@, FALSE)]
                  ELSE node[m]]
  BY Zenon DEF Elect
<1>3. \A m \in Server : SameView(m)
  BY <1>1, <1>2, Zenon DEF SameView, Fields
<1>4. LogGrows
  BY Zenon DEF Elect, LogGrows
<1> QED
  BY <1>3, <1>4, SameViewKeeps, HistoryStep, Zenon

\* The view of server n alone changes.
LEMMA NodeHistory ==
    ASSUME AllInv, HistoryOK, LogGrows, NEW n \in Server,
           \A m \in Server \ {n} : node'[m] = node[m], KeepsHistory(n)
    PROVE  HistoryOK'
<1>1. \A m \in Server \ {n} : SameView(m)
  BY Zenon DEF SameView
<1>2. \A m \in Server \ {n} : KeepsHistory(m)
  BY <1>1, SameViewKeeps, Zenon
<1> QED
  BY <1>2, HistoryStep, Zenon

\* The partitions a running server knows are records.
LEMMA LiveRecorded ==
    ASSUME NEW L, NEW n, NEW st, NEW a, NEW r, NEW b, Live(L, n, st, a, r, b)
    PROVE  ViewOK(st) /\ Recorded(st)
<1>1. ViewOK(st) /\ Sound(L, Parts(st), a)
  BY Zenon DEF Live
<1>2. ASSUME NEW s \in Stream, NEW p \in Partition, HasPartition(st, s, p)
      PROVE  st[s][p] \in ListedRecord
  <2>1. <<s, p>> \in DOMAIN Parts(st) /\ Parts(st)[<<s, p>>] = st[s][p]
    BY <1>2, PartsOfView
  <2> QED
    BY <1>1, <2>1, Zenon DEF Sound
<1> QED
  BY <1>1, <1>2, Zenon DEF Recorded

\* A server that applies an entry follows the history by one step.
LEMMA AgreeApplied ==
    ASSUME NEW L, NEW n, NEW y, NEW op, NEW i, NEW r, NEW new, NEW st, NEW h, NEW g,
           Applies(n, y, op, i, r, new, st), AppliedTo(None, h, op, i, FALSE, g),
           LogOK(L), n \in Server, NodeInv(L, n, y), y.status = "up",
           EntryAt(L, y.applied, i, op), y.applied < Len(L), ~Panics(y.streams, op, i), r \in Int,
           Agree(y.streams, h)
    PROVE  Agree(st, g)
<1> DEFINE a == y.applied
           old == y.streams
           b == y.restored
           r0 == y.recover
           rec == i <= r
<1>1. /\ a \in Nat /\ r0 \in Int /\ b \in BOOLEAN /\ rec \in BOOLEAN
      /\ Live(L, n, old, a, r0, b)
  BY DEF NodeInv, LogOK
<1>2. new = ApplyEntry(n, old, op, i, rec) /\ st = IF i = r THEN FinishedRecovery(n, new) ELSE new
  BY Zenon DEF Applies
<1>3. /\ i \in Nat /\ EntryAt(L, a, i, op) /\ a < Len(L) /\ ~Panics(old, op, i) /\ op \in Entries
      /\ Agree(old, h)
  BY <1>1 DEF EntryAt, LogOK
<1> HIDE DEF a, old, b, r0, rec
<1>4. ViewOK(old) /\ Recorded(old)
  BY <1>1, LiveRecorded, Zenon
<1>5. Agree(new, g)
  <2>1. AppliedTo(n, old, op, i, rec, new)
    BY <1>2, Zenon DEF AppliedTo
  <2> QED
    BY <1>1, <1>3, <1>4, <2>1, AgreeEntry, Zenon
<1>6. ViewOK(new) /\ Recorded(new)
  <2>1. ViewOK(new) /\ Sound(L, Parts(new), i)
    <3>1. AppliedTo(n, old, op, i, rec, new)
      BY <1>2, Zenon DEF AppliedTo
    <3> QED
      BY <1>1, <1>3, <3>1, LiveEntry, Zenon
  <2>2. ASSUME NEW s \in Stream, NEW p \in Partition, HasPartition(new, s, p)
        PROVE  new[s][p] \in ListedRecord
    <3>1. <<s, p>> \in DOMAIN Parts(new) /\ Parts(new)[<<s, p>>] = new[s][p]
      BY <2>2, PartsOfView
    <3> QED
      BY <2>1, <3>1, Zenon DEF Sound
  <2> QED
    BY <2>1, <2>2, Zenon DEF Recorded
<1>7. CASE i = r
  BY <1>2, <1>5, <1>6, <1>7, AgreeFinished, Zenon
<1>8. CASE i # r
  BY <1>2, <1>5, <1>8, Zenon
<1> QED
  BY <1>7, <1>8, Zenon

\* Apply keeps all servers in agreement with the history.
LEMMA ApplyHistory ==
    ASSUME AllInv, HistoryOK, NEW n \in Server, Apply(n)
    PROVE  HistoryOK'
<1> DEFINE i == node[n].applied + 1
           op == log[i]
<1>1. /\ Up(n) /\ i <= Len(log) /\ LogGrows
      /\ DOMAIN node = Server /\ DOMAIN node[n] = Fields
  BY NodeShape, Zenon DEF Apply, LogGrows
<1>2. /\ LogOK(log) /\ Len(log) \in Nat /\ node[n].applied \in Nat /\ node[n].recover \in Int
      /\ NodeInv(log, n, node[n]) /\ node[n].status = "up"
  BY <1>1, UpServer, Zenon DEF Up, AllInv
<1>3. EntryAt(log, node[n].applied, i, op) /\ node[n].applied < Len(log) /\ i \in 0 .. Len(log)
  BY <1>1, <1>2 DEF EntryAt
<1>4. CASE Panics(View(n), op, i)
  <2> DEFINE y == [Started EXCEPT !.status = "panicked", !.applied = i]
  <2>1. node' = [node EXCEPT ![n] = y]
    BY <1>4, Zenon DEF Apply
  <2>2. y.status = "panicked"
    BY StartedFields, Zenon DEF Fields
  <2> HIDE DEF y, i, op
  <2>3. (\A m \in Server \ {n} : node'[m] = node[m]) /\ node'[n] = y
    BY <1>1, <2>1, Zenon
  <2>4. KeepsHistory(n)
    BY <2>2, <2>3, Zenon DEF KeepsHistory
  <2> QED
    BY <1>1, <2>3, <2>4, NodeHistory, Zenon
<1>5. CASE ~Panics(View(n), op, i)
  <2>1. PICK r \in RecoverTo(n) : \E reports :
          LET new == ApplyEntry(n, View(n), op, i, i <= r)
              st  == IF i = r THEN FinishedRecovery(n, new) ELSE new
          IN node' = [node EXCEPT ![n].applied = i,
                                  ![n].recover = IF i < r THEN r ELSE 0,
                                  ![n].streams = st,
                                  ![n].persist = Listed(@, st),
                                  ![n].reports = reports]
    BY <1>5, Zenon DEF Apply
  <2>2. r \in Int
    BY <1>2 DEF RecoverTo
  <2> DEFINE new == ApplyEntry(n, View(n), op, i, i <= r)
             st == IF i = r THEN FinishedRecovery(n, new) ELSE new
  <2>3. PICK reports :
          node' = [node EXCEPT ![n].applied = i,
                               ![n].recover = IF i < r THEN r ELSE 0,
                               ![n].streams = st,
                               ![n].persist = Listed(@, st),
                               ![n].reports = reports]
    BY <2>1, Zenon
  <2>4. Applies(n, node[n], op, i, r, new, st)
    BY Zenon DEF Applies, View
  <2>5. ASSUME NEW h, History(log, h) PROVE AppliedTo(None, h[node[n].applied], op, i, FALSE, h[i])
    <3>1. i \in 1 .. Len(log) /\ i - 1 = node[n].applied
      BY <1>1, <1>2
    <3>2. h[i] = ApplyEntry(None, h[i - 1], log[i], i, FALSE)
      BY <2>5, <3>1, Zenon DEF History
    <3> QED
      BY <3>1, <3>2, Zenon DEF AppliedTo
  <2> HIDE DEF new, st, op, i
  <2>6. /\ \A m \in Server \ {n} : node'[m] = node[m]
        /\ node'[n].applied = i /\ node'[n].streams = st
        /\ node'[n].status = "up" /\ node'[n].restored = node[n].restored
    BY <1>1, <1>2, <2>3, Zenon DEF Fields
  <2>7. ASSUME NEW h, History(log, h), Follows(h), ~node[n].restored PROVE Agree(st, h[i])
    <3>1. Agree(node[n].streams, h[node[n].applied])
      BY <1>1, <2>7, Zenon DEF Follows, View
    <3>2. ~Panics(node[n].streams, op, i)
      BY <1>5, Zenon DEF View
    <3>3. AppliedTo(None, h[node[n].applied], op, i, FALSE, h[i])
      BY <2>5, <2>7, Zenon
    <3> QED
      BY <1>2, <1>3, <2>2, <2>4, <3>1, <3>2, <3>3, AgreeApplied, Zenon
  <2>8. KeepsHistory(n)
    BY <1>3, <2>6, <2>7, Zenon DEF KeepsHistory
  <2> QED
    BY <1>1, <2>6, <2>8, NodeHistory, Zenon
<1> QED
  BY <1>4, <1>5, Zenon

\* So does resuming a partition.
LEMMA ResumeHistory ==
    ASSUME AllInv, HistoryOK, NEW n \in Server, NEW s \in Stream, NEW p \in Partition, Resume(n, s, p)
    PROVE  HistoryOK'
<1>1. Up(n) /\ HasPartition(View(n), s, p) /\ View(n)[s][p].paused
  BY Zenon DEF Resume, Part
<1>2. PICK A \in Assignments(Cardinality(Part(n, s, p).assigned)) :
         IF node[n].leader \/ raft.leader = n
         THEN /\ LET st == [View(n) EXCEPT ![s][p].assigned = A[1], ![s][p].leader = A[2]]
                 IN node' = [node EXCEPT ![n].streams = st, ![n].persist = Listed(@, st)]
              /\ IF raft.leader = n THEN Propose(CreateOp(s, p, A)) ELSE UNCHANGED log
         ELSE Propagate(CreateOp(s, p, A)) /\ UNCHANGED node
  BY Zenon DEF Resume
<1>3. LogGrows
  BY <1>2, Zenon DEF LogGrows, Propose, Propagate
<1>4. CASE UNCHANGED node
  BY <1>3, <1>4, OtherFields, SameViewKeeps, HistoryStep
<1>5. CASE node[n].leader \/ raft.leader = n
  <2> DEFINE st == [View(n) EXCEPT ![s][p].assigned = A[1], ![s][p].leader = A[2]]
  <2>1. node' = [node EXCEPT ![n].streams = st, ![n].persist = Listed(@, st)]
    BY <1>2, <1>5, Zenon
  <2>2. Reassigned(View(n), s, p, A[1], A[2], st)
    BY Zenon DEF Reassigned
  <2>3. DOMAIN node = Server /\ DOMAIN node[n] = Fields /\ node[n].status = "up"
    BY <1>1, NodeShape, Zenon DEF Up
  <2> HIDE DEF st
  <2>4. /\ \A m \in Server \ {n} : node'[m] = node[m]
        /\ node'[n].applied = node[n].applied /\ node'[n].streams = st
        /\ node'[n].restored = node[n].restored
    BY <2>1, <2>3, Zenon DEF Fields
  <2>5. ViewOK(View(n)) /\ Recorded(View(n)) /\ node[n].applied \in 0 .. Len(log)
    BY <1>1, UpServer, LiveRecorded, ZenonT(40)
  <2>6. ASSUME NEW h, Follows(h), ~node[n].restored PROVE Agree(st, h[node[n].applied])
    <3>1. Agree(View(n), h[node[n].applied])
      BY <1>1, <2>6, Zenon DEF Follows
    <3> QED
      BY <1>1, <2>2, <2>5, <3>1, AgreeResumed
  <2>7. KeepsHistory(n)
    BY <2>4, <2>5, <2>6, Zenon DEF KeepsHistory
  <2> QED
    BY <1>3, <2>4, <2>7, NodeHistory
<1> QED
  BY <1>2, <1>4, <1>5, Zenon

\* A server that restores a snapshot is not compared any more.
LEMMA InstallHistory ==
    ASSUME AllInv, HistoryOK, NEW n \in Server, NEW m \in Server, InstallSnapshot(n, m)
    PROVE  HistoryOK'
<1>1. DOMAIN node = Server /\ DOMAIN node[n] = Fields /\ LogGrows
  BY NodeShape, Zenon DEF InstallSnapshot, LogGrows
<1>2. PICK st, i, z :
         node' = [node EXCEPT ![n].streams = st, ![n].reports = <<>>, ![n].applied = i,
                              ![n].restored = TRUE, ![n].persist = z]
  BY Zenon DEF InstallSnapshot
<1>3. (\A k \in Server \ {n} : node'[k] = node[k]) /\ node'[n].restored
  BY <1>1, <1>2, Zenon DEF Fields
<1>4. KeepsHistory(n)
  BY <1>3, Zenon DEF KeepsHistory
<1> QED
  BY <1>1, <1>3, <1>4, NodeHistory, Zenon

\* A server that knows nothing agrees with the start of the history.
LEMMA AgreeEmpty ==
    ASSUME NEW st, NEW h, DOMAIN st = {}, h = <<>>
    PROVE  Agree(st, h)
<1>1. DOMAIN h = {}
  OBVIOUS
<1> QED
  BY <1>1, Zenon DEF Agree, ViewOK, HasPartition

\* A server that crashes is not compared, one that starts without a snapshot
\* is at the start of the history.
LEMMA RestartHistory ==
    ASSUME AllInv, HistoryOK, NEW n \in Server, Crash(n) \/ StepDown(n) \/ Start(n)
    PROVE  HistoryOK'
<1>1. DOMAIN node = Server /\ LogGrows
  BY Zenon DEF AllInv, Crash, StepDown, Start, LogGrows
<1>2. CASE Crash(n) \/ StepDown(n)
  <2> DEFINE y == [Started EXCEPT !.status = "down"]
  <2>1. node' = [node EXCEPT ![n] = y]
    BY <1>2, Zenon DEF Crash, StepDown
  <2>2. y.status = "down"
    BY StartedFields, Zenon DEF Fields
  <2> HIDE DEF y
  <2>3. (\A m \in Server \ {n} : node'[m] = node[m]) /\ node'[n] = y
    BY <1>1, <2>1, Zenon
  <2>4. KeepsHistory(n)
    BY <2>2, <2>3, Zenon DEF KeepsHistory
  <2> QED
    BY <1>1, <2>3, <2>4, NodeHistory, Zenon
<1>3. CASE Start(n)
  <2> DEFINE z == snap[n]
             st == Restored(n, z.parts)
             y == [Started EXCEPT !.applied = z.index, !.restored = z # NoSnapshot, !.streams = st]
  <2>1. node' = [node EXCEPT ![n] = y]
    BY <1>3, Zenon DEF Start
  <2>2. y.streams = st /\ y.applied = z.index /\ y.restored = (z # NoSnapshot)
    BY StartedFields, Zenon DEF Fields
  <2>3. y.restored <=> z # NoSnapshot
    BY <2>2, Zenon
  <2>4. Sound(log, z.parts, z.index) /\ Len(log) \in Nat
    BY DEF AllInv, LogOK
  <2>5. ASSUME z = NoSnapshot
        PROVE  /\ z.index = 0 /\ DOMAIN z.parts = {}
               /\ DOMAIN z.parts \subseteq Stream \X Partition
    <3>1. z.index = 0 /\ DOMAIN z.parts = {}
      BY <2>5 DEF NoSnapshot
    <3> QED
      BY <3>1, Zenon
  <2>6. z = NoSnapshot => DOMAIN st = {}
    BY <2>5, RestoredView, Zenon
  <2> HIDE DEF y, st, z
  <2>7. (\A m \in Server \ {n} : node'[m] = node[m]) /\ node'[n] = y
    BY <1>1, <2>1, Zenon
  <2>8. ASSUME NEW h, History(log, h), ~y.restored
        PROVE  Agree(y.streams, h[y.applied]) /\ y.applied \in 0 .. Len(log)
    <3>1. y.applied = 0 /\ DOMAIN y.streams = {}
      BY <2>2, <2>3, <2>5, <2>6, <2>8
    <3>2. h[0] = <<>>
      BY <2>8, Zenon DEF History
    <3>3. Agree(y.streams, h[0])
      BY <3>1, <3>2, AgreeEmpty, Zenon
    <3>4. 0 \in 0 .. Len(log)
      BY <2>4
    <3> QED
      BY <3>1, <3>3, <3>4, Zenon
  <2>9. KeepsHistory(n)
    BY <2>7, <2>8, Zenon DEF KeepsHistory
  <2> QED
    BY <1>1, <2>7, <2>9, NodeHistory, Zenon
<1> QED
  BY <1>2, <1>3, Zenon

-----------------------------------------------------------------------------
\* The invariant and what follows from it.

\* The empty log has a history that all servers follow.
LEMMA InitHistory == Init => HistoryOK
<1> SUFFICES ASSUME Init PROVE HistoryOK
  BY Zenon
<1>1. log = <<>> /\ Len(log) = 0
  BY Zenon DEF Init
<1> DEFINE h == [i \in {0} |-> <<>>]
<1>2. History(log, h)
  BY <1>1 DEF History
<1>3. ASSUME NEW n \in Server PROVE node[n].applied = 0 /\ DOMAIN node[n].streams = {}
  <2>1. node[n] = [Started EXCEPT !.status = "down"] \/ node[n] = Started
    BY Zenon DEF Init
  <2> QED
    BY <2>1, StartedFields DEF Fields
<1>4. Follows(h)
  <2>1. h[0] = <<>>
    BY Zenon
  <2> HIDE DEF h
  <2> QED
    BY <1>3, <2>1, AgreeEmpty, Zenon DEF Follows, View
<1> QED
  BY <1>2, <1>4, Zenon DEF HistoryOK

\* Every step keeps a history that all servers follow.
LEMMA NextHistory == AllInv /\ HistoryOK /\ [Next]_vars => HistoryOK'
<1> SUFFICES ASSUME AllInv, HistoryOK, [Next]_vars PROVE HistoryOK'
  BY Zenon
<1>1. CASE UNCHANGED vars
  <2>1. LogGrows /\ \A m \in Server : SameView(m)
    BY <1>1, Zenon DEF vars, LogGrows, SameView
  <2> QED
    BY <2>1, SameViewKeeps, HistoryStep, Zenon
<1>2. CASE Next
  <2>1. PICK n \in Server :
       \/ Apply(n) \/ Snapshot(n) \/ Persist(n) \/ Crash(n) \/ Start(n)
       \/ Elect(n) \/ LeadershipAcquired(n) \/ StepDown(n) \/ LeadershipLost(n)
       \/ \E m \in Server : InstallSnapshot(n, m)
       \/ \E s \in Stream :
             \/ DeleteStream(n, s)
             \/ \E ps \in Bound.pauses : PauseStream(n, s, ps)
             \/ \E p \in Partition :
                   \/ CreatePartition(n, s, p) \/ Resume(n, s, p)
                   \/ \E r \in Server :
                         ShrinkISR(n, s, p, r) \/ ExpandISR(n, s, p, r) \/ ReportLeader(n, s, p, r)
       \/ \E k \in DOMAIN node[n].reports : ExpireReport(n, k)
    BY <1>2, Zenon DEF Next
  <2>2. 0 \in Partition
    BY MetadataAssumption, Zenon
  <2>3. ASSUME NEW s \in Stream,
                \/ DeleteStream(n, s)
                \/ (\E ps \in Bound.pauses : PauseStream(n, s, ps))
                \/ \E p \in Partition :
                      \/ CreatePartition(n, s, p) \/ Resume(n, s, p)
                      \/ \E r \in Server :
                            ShrinkISR(n, s, p, r) \/ ExpandISR(n, s, p, r) \/ ReportLeader(n, s, p, r)
        PROVE  HistoryOK'
    BY <2>2, <2>3, RequestHistory, ResumeHistory, Zenon
  <2> QED
    BY <2>1, <2>3, ApplyHistory, LocalHistory, RestartHistory, ElectHistory, InstallHistory
<1> QED
  BY <1>1, <1>2, Zenon

\* Servers that follow the same history and are at the same entry agree.
LEMMA AllAgree == AllInv /\ HistoryOK => ViewsAgree
<1> SUFFICES ASSUME AllInv, HistoryOK, NEW m \in Server, NEW n \in Server, Up(m), ~node[m].restored,
                    Up(n), ~node[n].restored, node[m].applied = node[n].applied
             PROVE  /\ Partitions(View(m)) = Partitions(View(n))
                    /\ \A k \in Partitions(View(m)) : Known(m, k) = Known(n, k)
  BY Zenon DEF ViewsAgree
<1>1. PICK h : History(log, h) /\ Follows(h)
  BY Zenon DEF HistoryOK
<1> DEFINE g == h[node[m].applied]
<1>2. Agree(View(m), g) /\ Agree(View(n), g)
  BY <1>1, Zenon DEF Follows
<1> HIDE DEF g
<1>3. ViewOK(View(m)) /\ ViewOK(View(n))
  BY UpServer, LiveRecorded, Zenon
<1>4. \A s \in Stream, p \in Partition : HasPartition(View(m), s, p) <=> HasPartition(View(n), s, p)
  BY <1>2, Zenon DEF Agree
<1>5. /\ Partitions(View(m)) \subseteq Stream \X Partition
      /\ Partitions(View(n)) \subseteq Stream \X Partition
      /\ \A s, p : <<s, p>> \in Partitions(View(m)) <=> HasPartition(View(m), s, p)
      /\ \A s, p : <<s, p>> \in Partitions(View(n)) <=> HasPartition(View(n), s, p)
  BY <1>3, PartsOfView, Zenon
<1>6. Partitions(View(m)) = Partitions(View(n))
  BY <1>4, <1>5
<1>7. ASSUME NEW k \in Partitions(View(m)) PROVE Known(m, k) = Known(n, k)
  <2>1. PICK s \in Stream, p \in Partition : k = <<s, p>>
    BY <1>5, <1>7
  <2> DEFINE x == View(m)[s][p]
             y == View(n)[s][p]
             z == g[s][p]
  <2>2. HasPartition(View(m), s, p) /\ HasPartition(View(n), s, p)
    BY <1>4, <1>5, <1>7, <2>1, Zenon
  <2>3. SamePart(x, z) /\ SamePart(y, z)
    BY <1>2, <2>2, Zenon DEF Agree
  <2> HIDE DEF x, y, z
  <2>4. /\ x.epoch = y.epoch /\ x.isr = y.isr /\ x.paused = y.paused
        /\ x.leaderEpoch = y.leaderEpoch
        /\ ~x.paused => x.leader = y.leader /\ x.assigned = y.assigned
    BY <2>3, Zenon DEF SamePart
  <2>5. Part(m, k[1], k[2]) = x /\ Part(n, k[1], k[2]) = y
    BY <2>1, Zenon DEF Part, x, y
  <2> QED
    BY <2>4, <2>5, Zenon DEF Known
<1> QED
  BY <1>6, <1>7, Zenon

HistoryInvariant == AllInv /\ HistoryOK

\* Servers that were never restored from a snapshot and have applied the same
\* number of entries know the same partitions, with the same epochs, leaders,
\* replicas and ISRs, however each got there: live, by replaying its log after a
\* crash, or with a resume that only one of them handled (Apply, StartRecovered).
THEOREM ViewsAgreeOnLog == Spec => []ViewsAgree
<1>1. Init => HistoryInvariant
  BY InitAll, InitHistory, Zenon DEF HistoryInvariant
<1>2. HistoryInvariant /\ [Next]_vars => HistoryInvariant'
  BY NextAll, NextHistory, Zenon DEF HistoryInvariant
<1>3. HistoryInvariant => ViewsAgree
  BY AllAgree, Zenon DEF HistoryInvariant
<1> QED
  BY <1>1, <1>2, <1>3, PTL DEF Spec

=============================================================================
