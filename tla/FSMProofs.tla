----------------------------- MODULE FSMProofs ------------------------------
(***************************************************************************)
(* Proofs about the FSM's handlers.  What a server knows of its            *)
(* partitions, what it is about to write to a snapshot and what its        *)
(* snapshot holds are all taken for a function from partitions to records, *)
(* together with the index of the log it stands at; Sound says how such a  *)
(* function is related to the log.  Live adds what a running server does   *)
(* with its partitions, Writing what holds of a snapshot in progress; each *)
(* is followed through every handler that changes it.                      *)
(***************************************************************************)
EXTENDS FSM, TLAPS

-----------------------------------------------------------------------------
\* The entries of a log L.

Entries ==
    [type : {"create"}, stream : Stream, partition : Partition,
     replicas : SUBSET Server, leader : Server]
    \cup [type : {"delete"}, stream : Stream]
    \cup [type : {"pause"}, stream : Stream, partitions : SUBSET Partition]
    \cup [type : {"shrink", "expand"}, stream : Stream, partition : Partition, replica : Server]
    \cup [type : {"elect"}, stream : Stream, partition : Partition, leader : Server]

Creates(L, c, s, p) ==
    c \in 1 .. Len(L) /\ L[c].type = "create" /\ L[c].stream = s /\ L[c].partition = p
Changes(L, c, s, p) ==
    /\ c \in 1 .. Len(L) /\ L[c].type \in {"shrink", "expand", "elect"}
    /\ L[c].stream = s /\ L[c].partition = p
Deletes(L, d, s) == d \in 1 .. Len(L) /\ L[d].type = "delete" /\ L[d].stream = s
Pauses(L, d, s) == d \in 1 .. Len(L) /\ L[d].type = "pause" /\ L[d].stream = s

FirstCreates(L, c, s, p) == Creates(L, c, s, p) /\ \A b \in 1 .. c - 1 : ~Creates(L, b, s, p)
\* A stream is deleted or paused by one of the first i entries.
Disturbed(L, i, s) == \E d \in 1 .. i : Deletes(L, d, s) \/ Pauses(L, d, s)
\* No partition of an earlier entry about p is there when entry c creates it.
CreatesAfresh(L, c, s, p) ==
    \A b \in 1 .. c - 1 :
        Creates(L, b, s, p) \/ Changes(L, b, s, p) => \E d \in b + 1 .. c - 1 : Deletes(L, d, s)
Quiet(L, s) == \A d \in 1 .. Len(L) : ~Pauses(L, d, s)

LogOK(L) ==
    /\ L \in Seq(Entries)
    /\ \A c \in 1 .. Len(L) : L[c].type = "create" => L[c].leader \in L[c].replicas
    /\ \A c \in 1 .. Len(L) : \A s \in Stream, p \in Partition :
         /\ Creates(L, c, s, p) => \E b \in 1 .. c : FirstCreates(L, b, s, p)
         /\ Creates(L, c, s, p) => \E b \in 1 .. c : Creates(L, b, s, 0)
         /\ Changes(L, c, s, p) =>
              /\ \E b \in 1 .. c - 1 : Creates(L, b, s, p)
              /\ L[c].type # "elect" /\ ~Disturbed(L, c - 1, s) =>
                   \A b \in 1 .. Len(L) : FirstCreates(L, b, s, p) => L[c].replica \in L[b].replicas

\* What holds of an entry that is added to a log.
Legit(L, op) ==
    /\ op \in Entries
    /\ op.type = "create" =>
         /\ op.leader \in op.replicas
         /\ \/ op.partition = 0
            \/ \E c \in 1 .. Len(L), q \in Partition : Creates(L, c, op.stream, q)
    /\ op.type \in {"shrink", "expand", "elect"} =>
         /\ \E c \in 1 .. Len(L) : Creates(L, c, op.stream, op.partition)
         /\ op.type # "elect" /\ ~Disturbed(L, Len(L), op.stream) =>
              \A b \in 1 .. Len(L) :
                 FirstCreates(L, b, op.stream, op.partition) => op.replica \in L[b].replicas

-----------------------------------------------------------------------------
\* What is known of partitions at index a of the log.

Parts(st) == [k \in Partitions(st) |-> st[k[1]][k[2]]]

\* The partitions that are known are those that were created and not deleted.
Presence(L, P, a) ==
    \A s \in Stream, p \in Partition :
        /\ \A c \in 1 .. a :
             Creates(L, c, s, p) \/ Changes(L, c, s, p) =>
                <<s, p>> \in DOMAIN P \/ \E d \in c + 1 .. a : Deletes(L, d, s)
        /\ <<s, p>> \in DOMAIN P =>
             \E c \in 1 .. a : Creates(L, c, s, p) /\ \A d \in c + 1 .. a : ~Deletes(L, d, s)

\* The epochs of a partition are those of entries about it; the leader's is not
\* ahead of the partition's; none of the first a entries that concerns the
\* partition is newer.
EpochsOK(L, s, p, x, a) ==
    /\ x.leaderEpoch <= x.epoch
    /\ Creates(L, x.epoch, s, p) \/ Changes(L, x.epoch, s, p)
    /\ \/ Creates(L, x.leaderEpoch, s, p)
       \/ Changes(L, x.leaderEpoch, s, p) /\ L[x.leaderEpoch].type = "elect"
    /\ \A c \in 1 .. a : Changes(L, c, s, p) => c <= x.epoch
    /\ \A c \in 1 .. x.epoch :
         Changes(L, c, s, p) /\ L[c].type = "elect" => c <= x.leaderEpoch
    /\ \A d \in 1 .. a : Deletes(L, d, s) => d < x.leaderEpoch

\* As long as its stream is not paused, the leader of a partition is the one of
\* the entry of its leader epoch, and the entries that created it found none.
QuietOK(L, s, p, x) ==
    Quiet(L, s) =>
        /\ ~x.paused
        /\ x.leader = L[x.leaderEpoch].leader
        /\ Creates(L, x.epoch, s, p) => CreatesAfresh(L, x.epoch, s, p)
        /\ Creates(L, x.leaderEpoch, s, p) => CreatesAfresh(L, x.leaderEpoch, s, p)

\* A partition has the replicas it was first created with, or all changes of it
\* that precede the first pause or deletion of its stream.
ReplicasOK(L, s, p, x) ==
    \/ \A c \in 1 .. Len(L) : FirstCreates(L, c, s, p) =>
          x.replicas = L[c].replicas /\ x.assigned = L[c].replicas
    \/ /\ Disturbed(L, Len(L), s)
       /\ \A c \in 1 .. Len(L) :
            Changes(L, c, s, p) /\ ~Disturbed(L, c - 1, s) => c <= x.epoch

\* Entry d pauses the partition.
PausesPartition(L, d, s, p) ==
    /\ Pauses(L, d, s)
    /\ L[d].partitions = {} \/ p \in L[d].partitions
    /\ \A q \in L[d].partitions :
         \E c \in 1 .. d - 1 : Creates(L, c, s, q) /\ \A e \in c + 1 .. d - 1 : ~Deletes(L, e, s)

\* No entry after a up to the epoch creates the partition again.
Unreplaced(L, s, p, x, a) ==
    \A c \in a + 1 .. x.epoch : \A d \in a + 1 .. c - 1 :
        ~(PausesPartition(L, d, s, p) /\ Creates(L, c, s, p))

PartOK(L, s, p, x, a) ==
    /\ x.isr \subseteq x.replicas
    /\ EpochsOK(L, s, p, x, a)
    /\ QuietOK(L, s, p, x)
    /\ ReplicasOK(L, s, p, x)
    /\ Unreplaced(L, s, p, x, a)

\* A record of a snapshot in progress; its object is -1 when it was replaced by
\* Reset.
ListedRecord ==
    [obj : Int, leader : Server, leaderEpoch : Nat, epoch : Nat,
     replicas : SUBSET Server, assigned : SUBSET Server, isr : SUBSET Server,
     paused : BOOLEAN, recovered : BOOLEAN, runs : {"no", "leader", "follower"}]

Sound(L, P, a) ==
    /\ a \in 0 .. Len(L)
    /\ DOMAIN P \subseteq Stream \X Partition
    /\ Presence(L, P, a)
    /\ \A s \in Stream, p \in Partition :
         <<s, p>> \in DOMAIN P =>
            P[<<s, p>>] \in ListedRecord /\ PartOK(L, s, p, P[<<s, p>>], a)

-----------------------------------------------------------------------------
\* Lemmas about the log.

\* An entry added at the end of a log leaves what the earlier entries are.
LEMMA AppendKeeps ==
    ASSUME NEW L \in Seq(Entries), NEW op \in Entries, NEW s, NEW p
    PROVE  /\ Append(L, op) \in Seq(Entries)
           /\ Len(L) \in Nat /\ Len(Append(L, op)) = Len(L) + 1
           /\ Append(L, op)[Len(L) + 1] = op
           /\ \A c \in 1 .. Len(L) :
                /\ c \in Nat
                /\ Append(L, op)[c] = L[c]
                /\ Creates(Append(L, op), c, s, p) <=> Creates(L, c, s, p)
                /\ Changes(Append(L, op), c, s, p) <=> Changes(L, c, s, p)
                /\ Deletes(Append(L, op), c, s) <=> Deletes(L, c, s)
                /\ Pauses(Append(L, op), c, s) <=> Pauses(L, c, s)
  BY DEF Creates, Changes, Deletes, Pauses

\* Neither does it change what earlier entries are in the context of those
\* before them.
LEMMA AppendKeepsMore ==
    ASSUME NEW L \in Seq(Entries), NEW op \in Entries, NEW s, NEW p
    PROVE  /\ \A i \in 0 .. Len(L) : Disturbed(Append(L, op), i, s) <=> Disturbed(L, i, s)
           /\ \A c \in 1 .. Len(L) :
                /\ FirstCreates(Append(L, op), c, s, p) <=> FirstCreates(L, c, s, p)
                /\ CreatesAfresh(Append(L, op), c, s, p) <=> CreatesAfresh(L, c, s, p)
                /\ PausesPartition(Append(L, op), c, s, p) <=> PausesPartition(L, c, s, p)
<1> DEFINE M == Append(L, op)
<1>1. Len(L) \in Nat
  OBVIOUS
<1>2. /\ \A c \in 1 .. Len(L) : \A q :
            /\ Creates(M, c, s, q) <=> Creates(L, c, s, q)
            /\ Changes(M, c, s, q) <=> Changes(L, c, s, q)
      /\ \A c \in 1 .. Len(L) :
            /\ M[c] = L[c]
            /\ Deletes(M, c, s) <=> Deletes(L, c, s)
            /\ Pauses(M, c, s) <=> Pauses(L, c, s)
  BY AppendKeeps, Zenon
<1> HIDE DEF M
<1>4. \A i \in 0 .. Len(L) : Disturbed(M, i, s) <=> Disturbed(L, i, s)
  BY <1>1, <1>2 DEF Disturbed
<1> SUFFICES ASSUME NEW c \in 1 .. Len(L)
             PROVE  /\ FirstCreates(M, c, s, p) <=> FirstCreates(L, c, s, p)
                    /\ CreatesAfresh(M, c, s, p) <=> CreatesAfresh(L, c, s, p)
                    /\ PausesPartition(M, c, s, p) <=> PausesPartition(L, c, s, p)
  BY <1>4, Zenon DEF M
<1>3. FirstCreates(M, c, s, p) <=> FirstCreates(L, c, s, p)
  BY <1>1, <1>2 DEF FirstCreates
<1>5. CreatesAfresh(M, c, s, p) <=> CreatesAfresh(L, c, s, p)
  BY <1>1, <1>2 DEF CreatesAfresh
<1>6. PausesPartition(M, c, s, p) <=> PausesPartition(L, c, s, p)
  <2>1. c \in Nat /\ (\A d \in 1 .. c - 1 : d \in 1 .. Len(L))
    BY <1>1
  <2>2. \A q : \A b \in 1 .. c - 1 :
           /\ Creates(M, b, s, q) <=> Creates(L, b, s, q)
           /\ \A e \in b + 1 .. c - 1 : Deletes(M, e, s) <=> Deletes(L, e, s)
    BY <1>1, <1>2, <2>1
  <2>3. M[c] = L[c] /\ (Pauses(M, c, s) <=> Pauses(L, c, s))
    BY <1>2, Zenon
  <2> QED
    BY <2>2, <2>3, Zenon DEF PausesPartition
<1> QED
  BY <1>3, <1>5, <1>6, Zenon

\* A log stays as it should be when the controller adds an entry it has
\* checked.
LEMMA LogOKAppend ==
    ASSUME NEW L, LogOK(L), NEW op, Legit(L, op)
    PROVE  LogOK(Append(L, op))
<1> DEFINE M == Append(L, op)
           l == Len(L) + 1
<1>1. L \in Seq(Entries) /\ op \in Entries
  BY Zenon DEF LogOK, Legit
<1>2. M \in Seq(Entries) /\ Len(L) \in Nat /\ Len(M) = l /\ M[l] = op
  BY <1>1, AppendKeeps, Zenon
<1>3. \A c \in 1 .. Len(L) : M[c] = L[c]
  BY <1>1, AppendKeeps, Zenon
<1>4. \A s, p : \A c \in 1 .. Len(L) :
         /\ Creates(M, c, s, p) <=> Creates(L, c, s, p)
         /\ Changes(M, c, s, p) <=> Changes(L, c, s, p)
         /\ FirstCreates(M, c, s, p) <=> FirstCreates(L, c, s, p)
  BY <1>1, AppendKeeps, AppendKeepsMore, Zenon
<1>5. \A s : \A i \in 0 .. Len(L) : Disturbed(M, i, s) <=> Disturbed(L, i, s)
  BY <1>1, AppendKeepsMore, Zenon
<1> HIDE DEF M
<1>6. \A c \in 1 .. Len(M) : c \in 1 .. Len(L) \/ c = l
  BY <1>2
<1>7. \A c \in 1 .. Len(M) : M[c].type = "create" => M[c].leader \in M[c].replicas
  BY <1>2, <1>3, <1>6, Zenon DEF LogOK, Legit
<1>8. ASSUME NEW s \in Stream, NEW p \in Partition, NEW c \in 1 .. Len(M), Creates(M, c, s, p)
      PROVE  /\ \E b \in 1 .. c : FirstCreates(M, b, s, p)
             /\ \E b \in 1 .. c : Creates(M, b, s, 0)
  <2>1. CASE c \in 1 .. Len(L)
    <3>1. /\ \E b \in 1 .. c : FirstCreates(L, b, s, p)
          /\ \E b \in 1 .. c : Creates(L, b, s, 0)
      BY <1>4, <1>8, <2>1, Zenon DEF LogOK
    <3> QED
      BY <3>1, <1>2, <1>4, <2>1
  <2>2. CASE c = l
    <3>0. op.type = "create" /\ op.stream = s /\ op.partition = p
      BY <1>2, <1>8, <2>2, Zenon DEF Creates
    <3>1. \E b \in 1 .. c : FirstCreates(M, b, s, p)
      <4>1. CASE \E b \in 1 .. Len(L) : Creates(L, b, s, p)
        <5>1. PICK b \in 1 .. Len(L) : Creates(L, b, s, p)
          BY <4>1, Zenon
        <5>2. \E e \in 1 .. b : FirstCreates(L, e, s, p)
          BY <5>1, Zenon DEF LogOK
        <5> QED
          BY <5>2, <1>2, <1>4, <2>2
      <4>2. CASE ~ \E b \in 1 .. Len(L) : Creates(L, b, s, p)
        BY <4>2, <1>2, <1>4, <1>8, <2>2 DEF FirstCreates
      <4> QED
        BY <4>1, <4>2, Zenon
    <3>2. \E b \in 1 .. c : Creates(M, b, s, 0)
      <4>1. CASE p = 0
        BY <4>1, <1>2, <1>8, <2>2, Zenon
      <4>2. CASE p # 0
        <5>1. PICK b \in 1 .. Len(L), q \in Partition : Creates(L, b, s, q)
          BY <4>2, <3>0, Zenon DEF Legit
        <5>2. \E e \in 1 .. b : Creates(L, e, s, 0)
          BY <5>1, Zenon DEF LogOK
        <5> QED
          BY <5>2, <1>2, <1>4, <2>2
      <4> QED
        BY <4>1, <4>2, Zenon
    <3> QED
      BY <3>1, <3>2, Zenon
  <2> QED
    BY <1>6, <2>1, <2>2, Zenon
<1>9. ASSUME NEW s \in Stream, NEW p \in Partition, NEW c \in 1 .. Len(M), Changes(M, c, s, p)
      PROVE  /\ \E b \in 1 .. c - 1 : Creates(M, b, s, p)
             /\ M[c].type # "elect" /\ ~Disturbed(M, c - 1, s) =>
                  \A b \in 1 .. Len(M) : FirstCreates(M, b, s, p) => M[c].replica \in M[b].replicas
  <2>1. /\ \E b \in 1 .. c - 1 : b \in 1 .. Len(L) /\ Creates(L, b, s, p)
        /\ M[c].type # "elect" /\ ~Disturbed(L, c - 1, s) =>
             \A b \in 1 .. Len(L) : FirstCreates(L, b, s, p) => M[c].replica \in L[b].replicas
    <3>1. CASE c \in 1 .. Len(L)
      <4>1. Changes(L, c, s, p) /\ M[c] = L[c]
        BY <3>1, <1>3, <1>4, <1>9, Zenon
      <4>2. /\ \E b \in 1 .. c - 1 : Creates(L, b, s, p)
            /\ L[c].type # "elect" /\ ~Disturbed(L, c - 1, s) =>
                 \A b \in 1 .. Len(L) : FirstCreates(L, b, s, p) => L[c].replica \in L[b].replicas
        BY <3>1, <4>1, Zenon DEF LogOK
      <4>3. \A b \in 1 .. c - 1 : b \in 1 .. Len(L)
        BY <3>1, <1>2
      <4> QED
        BY <4>1, <4>2, <4>3, Zenon
    <3>2. CASE c = l
      <4>1. op.type \in {"shrink", "expand", "elect"} /\ op.stream = s /\ op.partition = p
        BY <1>2, <1>9, <3>2, Zenon DEF Changes
      <4> QED
        BY <4>1, <1>2, <3>2 DEF Legit
    <3> QED
      BY <1>6, <3>1, <3>2, Zenon
  <2>2. \E b \in 1 .. c - 1 : Creates(M, b, s, p)
    BY <2>1, <1>4, Zenon
  <2>3. Disturbed(M, c - 1, s) <=> Disturbed(L, c - 1, s)
    BY <1>2, <1>5
  <2>4. ASSUME NEW b \in 1 .. Len(M), FirstCreates(M, b, s, p)
        PROVE  b \in 1 .. Len(L) /\ FirstCreates(L, b, s, p) /\ M[b] = L[b]
    <3>1. b # l
      BY <2>1, <2>4, <1>2, <1>4 DEF FirstCreates
    <3> QED
      BY <3>1, <2>4, <1>3, <1>4, <1>6, Zenon
  <2> QED
    BY <2>1, <2>2, <2>3, <2>4, Zenon
<1>10. LogOK(M)
  BY <1>2, <1>7, <1>8, <1>9, Zenon DEF LogOK
<1> QED
  BY <1>10, Zenon DEF M

\* What is known of a partition at index a stays right when the log grows.
LEMMA PartOKAppend ==
    ASSUME NEW L \in Seq(Entries), NEW op \in Entries,
           NEW s, NEW p, NEW x \in ListedRecord, NEW a \in 0 .. Len(L),
           PartOK(L, s, p, x, a), \E c \in 1 .. Len(L) : Creates(L, c, s, p)
    PROVE  PartOK(Append(L, op), s, p, x, a)
<1> DEFINE M == Append(L, op)
<1>1. Len(L) \in Nat /\ Len(M) = Len(L) + 1
  BY AppendKeeps, Zenon
<1>2. \A c \in 1 .. Len(L) :
         /\ M[c] = L[c]
         /\ Creates(M, c, s, p) <=> Creates(L, c, s, p)
         /\ Changes(M, c, s, p) <=> Changes(L, c, s, p)
         /\ Deletes(M, c, s) <=> Deletes(L, c, s)
         /\ Pauses(M, c, s) <=> Pauses(L, c, s)
  BY AppendKeeps, Zenon
<1>3. /\ \A i \in 0 .. Len(L) : Disturbed(M, i, s) <=> Disturbed(L, i, s)
      /\ \A c \in 1 .. Len(L) :
           /\ FirstCreates(M, c, s, p) <=> FirstCreates(L, c, s, p)
           /\ CreatesAfresh(M, c, s, p) <=> CreatesAfresh(L, c, s, p)
           /\ PausesPartition(M, c, s, p) <=> PausesPartition(L, c, s, p)
  BY AppendKeepsMore, Zenon
<1> HIDE DEF M
<1>4. x.epoch \in 1 .. Len(L) /\ x.leaderEpoch \in 1 .. Len(L)
  BY Zenon DEF PartOK, EpochsOK, Creates, Changes
<1>5. EpochsOK(M, s, p, x, a)
  <2>1. (\A c \in 1 .. a : c \in 1 .. Len(L)) /\ (\A c \in 1 .. x.epoch : c \in 1 .. Len(L))
    BY <1>1, <1>4
  <2>2. EpochsOK(L, s, p, x, a)
    BY Zenon DEF PartOK
  <2>3. /\ x.leaderEpoch <= x.epoch
        /\ Creates(M, x.epoch, s, p) \/ Changes(M, x.epoch, s, p)
        /\ \/ Creates(M, x.leaderEpoch, s, p)
           \/ Changes(M, x.leaderEpoch, s, p) /\ M[x.leaderEpoch].type = "elect"
    BY <2>2, <1>2, <1>4, Zenon DEF EpochsOK
  <2> QED
    BY <2>1, <2>2, <2>3, <1>2, Zenon DEF EpochsOK
<1>6. QuietOK(M, s, p, x)
  <2>1. \A d \in 1 .. Len(L) : d \in 1 .. Len(M)
    BY <1>1
  <2>2. Quiet(M, s) => Quiet(L, s)
    BY <2>1, <1>2, Zenon DEF Quiet
  <2>3. QuietOK(L, s, p, x)
    BY Zenon DEF PartOK
  <2> QED
    BY <2>2, <2>3, <1>2, <1>3, <1>4, Zenon DEF QuietOK
<1>7. ReplicasOK(M, s, p, x)
  <2>1. \A c \in 1 .. Len(M) : FirstCreates(M, c, s, p) => c \in 1 .. Len(L) /\ FirstCreates(L, c, s, p)
    BY <1>1, <1>2, <1>3 DEF FirstCreates
  <2>2. CASE \A c \in 1 .. Len(L) : FirstCreates(L, c, s, p) =>
               x.replicas = L[c].replicas /\ x.assigned = L[c].replicas
    BY <2>1, <2>2, <1>2, Zenon DEF ReplicasOK
  <2>3. CASE /\ Disturbed(L, Len(L), s)
             /\ \A c \in 1 .. Len(L) :
                  Changes(L, c, s, p) /\ ~Disturbed(L, c - 1, s) => c <= x.epoch
    <3>1. Disturbed(M, Len(L), s) /\ Disturbed(M, Len(M), s)
      BY <2>3, <1>1, <1>3 DEF Disturbed
    <3>2. ASSUME NEW c \in 1 .. Len(M), Changes(M, c, s, p), ~Disturbed(M, c - 1, s)
          PROVE  c <= x.epoch
      <4>1. c \in 1 .. Len(L)
        BY <3>1, <3>2, <1>1
      <4>2. ~Disturbed(L, c - 1, s) /\ Changes(L, c, s, p)
        BY <4>1, <3>2, <1>1, <1>2, <1>3
      <4> QED
        BY <4>1, <4>2, <2>3, Zenon
    <3> QED
      BY <3>1, <3>2, Zenon DEF ReplicasOK
  <2> QED
    BY <2>2, <2>3, Zenon DEF PartOK, ReplicasOK
<1>8. Unreplaced(M, s, p, x, a)
  <2>1. \A c \in a + 1 .. x.epoch : c \in 1 .. Len(L) /\ \A d \in a + 1 .. c - 1 : d \in 1 .. Len(L)
    BY <1>1, <1>4
  <2>2. Unreplaced(L, s, p, x, a)
    BY Zenon DEF PartOK
  <2> QED
    BY <2>1, <2>2, <1>2, <1>3, Zenon DEF Unreplaced
<1> QED
  BY <1>5, <1>6, <1>7, <1>8, Zenon DEF PartOK, M

\* So does what is known of all of them.
LEMMA SoundAppend ==
    ASSUME NEW L \in Seq(Entries), NEW op \in Entries, NEW P, NEW a, Sound(L, P, a)
    PROVE  Sound(Append(L, op), P, a)
<1> DEFINE M == Append(L, op)
<1>1. Len(L) \in Nat /\ Len(M) = Len(L) + 1
  BY AppendKeeps, Zenon
<1>2. /\ \A s, p : \A c \in 1 .. Len(L) :
           /\ Creates(M, c, s, p) <=> Creates(L, c, s, p)
           /\ Changes(M, c, s, p) <=> Changes(L, c, s, p)
      /\ \A s : \A c \in 1 .. Len(L) : Deletes(M, c, s) <=> Deletes(L, c, s)
  BY AppendKeeps, Zenon
<1>3. a \in 0 .. Len(L) /\ a \in Nat
  BY <1>1 DEF Sound
<1>4. ASSUME NEW s \in Stream, NEW p \in Partition, <<s, p>> \in DOMAIN P
      PROVE  P[<<s, p>>] \in ListedRecord /\ PartOK(M, s, p, P[<<s, p>>], a)
  <2>1. \E c \in 1 .. Len(L) : Creates(L, c, s, p)
    BY <1>1, <1>3, <1>4 DEF Sound, Presence
  <2> QED
    BY <2>1, <1>3, <1>4, PartOKAppend, Zenon DEF Sound
<1> HIDE DEF M
<1>5. Presence(M, P, a)
  <2> SUFFICES ASSUME NEW s \in Stream, NEW p \in Partition
               PROVE  /\ \A c \in 1 .. a :
                           Creates(M, c, s, p) \/ Changes(M, c, s, p) =>
                              <<s, p>> \in DOMAIN P \/ \E d \in c + 1 .. a : Deletes(M, d, s)
                      /\ <<s, p>> \in DOMAIN P =>
                           \E c \in 1 .. a : Creates(M, c, s, p) /\ \A d \in c + 1 .. a : ~Deletes(M, d, s)
    BY Zenon DEF Presence
  <2>1. \A c \in 1 .. a :
           /\ c \in 1 .. Len(L)
           /\ Creates(M, c, s, p) <=> Creates(L, c, s, p)
           /\ Changes(M, c, s, p) <=> Changes(L, c, s, p)
           /\ \A d \in c + 1 .. a : Deletes(M, d, s) <=> Deletes(L, d, s)
    BY <1>1, <1>2, <1>3
  <2>2. Presence(L, P, a)
    BY Zenon DEF Sound
  <2> QED
    BY <2>1, <2>2, Zenon DEF Presence
<1>6. a \in 0 .. Len(M)
  BY <1>1, <1>3
<1>7. Sound(M, P, a)
  BY <1>3, <1>4, <1>5, <1>6, Zenon DEF Sound
<1> QED
  BY <1>7, Zenon DEF M

-----------------------------------------------------------------------------
\* The effect of an entry on the partitions a server knows.

ViewOK(st) ==
    \A s \in DOMAIN st : s \in Stream /\ DOMAIN st[s] \subseteq Partition /\ DOMAIN st[s] # {}

IsCreate(op, s, p) == op.type = "create" /\ op.stream = s /\ op.partition = p
IsChange(op, s, p) ==
    op.type \in {"shrink", "expand", "elect"} /\ op.stream = s /\ op.partition = p
IsDelete(op, s) == op.type = "delete" /\ op.stream = s
IsPause(P, op, s, p) ==
    /\ op.type = "pause" /\ op.stream = s
    /\ op.partitions = {} \/ p \in op.partitions
    /\ \A q \in op.partitions : <<s, q>> \in DOMAIN P

Changed(n, x, op, i) ==
    CASE op.type = "shrink" -> ApplyShrinkISR(x, op, i)
      [] op.type = "expand" -> ApplyExpandISR(x, op, i)
      [] op.type = "elect"  -> ApplyChangePartitionLeader(n, x, op, i)
ChangedTo(n, x, op, i, y) == y = Changed(n, x, op, i)

\* The record of a partition after an entry, which knew P before.
PartStep(n, P, y, s, p, op, i, recovered) ==
    LET k == <<s, p>>
    IN \/ /\ k \in DOMAIN P /\ y = P[k]
          /\ IsCreate(op, s, p) => ~P[k].paused
          /\ IsChange(op, s, p) => P[k].epoch >= i
          /\ ~IsPause(P, op, s, p)
       \/ /\ IsCreate(op, s, p)
          /\ k \in DOMAIN P => P[k].paused
          /\ y = SetLeader(n, NewPartition(op.leader, op.replicas, i, i, recovered), op.leader, i)
       \/ /\ IsPause(P, op, s, p)
          /\ k \in DOMAIN P /\ y = Pause(P[k])
       \/ /\ IsChange(op, s, p)
          /\ k \in DOMAIN P /\ ~(P[k].epoch >= i)
          /\ op.type # "elect" => op.replica \in P[k].replicas
          /\ y = Changed(n, P[k], op, i)

EntryStep(n, P, Q, op, i, recovered) ==
    /\ DOMAIN Q \subseteq Stream \X Partition
    /\ \A s \in Stream, p \in Partition :
         /\ <<s, p>> \in DOMAIN Q <=>
              IsCreate(op, s, p) \/ (<<s, p>> \in DOMAIN P /\ ~IsDelete(op, s))
         /\ IsChange(op, s, p) => <<s, p>> \in DOMAIN P
         /\ <<s, p>> \in DOMAIN Q => PartStep(n, P, Q[<<s, p>>], s, p, op, i, recovered)

\* The partitions of a view, read by their keys or through their streams.
LEMMA PartsOfView ==
    ASSUME NEW st
    PROVE  /\ DOMAIN Parts(st) = Partitions(st)
           /\ \A s, p : <<s, p>> \in Partitions(st) <=> HasPartition(st, s, p)
           /\ \A s, p : HasPartition(st, s, p) => Parts(st)[<<s, p>>] = st[s][p]
           /\ ViewOK(st) => Partitions(st) \subseteq Stream \X Partition
<1>1. DOMAIN Parts(st) = Partitions(st)
  BY Zenon DEF Parts
<1>2. ASSUME NEW s, NEW p PROVE <<s, p>> \in Partitions(st) <=> HasPartition(st, s, p)
  BY DEF Partitions, HasPartition
<1>3. ASSUME NEW s, NEW p, HasPartition(st, s, p) PROVE Parts(st)[<<s, p>>] = st[s][p]
  BY <1>2, <1>3, Zenon DEF Parts
<1>4. ASSUME ViewOK(st) PROVE Partitions(st) \subseteq Stream \X Partition
  BY <1>4 DEF Partitions, ViewOK
<1> QED
  BY <1>1, <1>2, <1>3, <1>4, Zenon

\* SetPartition changes one partition.
LEMMA SetPartitionParts ==
    ASSUME NEW st, ViewOK(st), NEW s \in Stream, NEW p \in Partition, NEW x
    PROVE  /\ ViewOK(SetPartition(st, s, p, x))
           /\ HasPartition(SetPartition(st, s, p, x), s, p)
           /\ SetPartition(st, s, p, x)[s][p] = x
           /\ \A t, q : t # s \/ q # p =>
                /\ HasPartition(SetPartition(st, s, p, x), t, q) <=> HasPartition(st, t, q)
                /\ HasPartition(st, t, q) => SetPartition(st, s, p, x)[t][q] = st[t][q]
<1> DEFINE old == IF s \in DOMAIN st THEN st[s] ELSE <<>>
           f == With(old, p, x)
           new == With(st, s, f)
<1>1. SetPartition(st, s, p, x) = new
  BY Zenon DEF SetPartition
<1>2. /\ s \in DOMAIN st => old = st[s]
      /\ s \notin DOMAIN st => DOMAIN old = {}
  OBVIOUS
<1> HIDE DEF old
<1>3. DOMAIN f = DOMAIN old \cup {p} /\ f[p] = x /\ \A q \in DOMAIN old : q # p => f[q] = old[q]
  BY Zenon DEF With
<1> HIDE DEF f
<1>4. DOMAIN new = DOMAIN st \cup {s} /\ new[s] = f /\ \A t \in DOMAIN st : t # s => new[t] = st[t]
  BY Zenon DEF With
<1> HIDE DEF new
<1>5. ViewOK(new)
  <2>1. DOMAIN old \subseteq Partition
    BY <1>2, Zenon DEF ViewOK
  <2> QED
    BY <2>1, <1>3, <1>4, Zenon DEF ViewOK
<1>6. HasPartition(new, s, p) /\ new[s][p] = x
  BY <1>3, <1>4, Zenon DEF HasPartition
<1>7. ASSUME NEW t, NEW q, t # s \/ q # p
      PROVE  /\ HasPartition(new, t, q) <=> HasPartition(st, t, q)
             /\ HasPartition(st, t, q) => new[t][q] = st[t][q]
  <2>1. CASE t = s
    <3>1. HasPartition(new, s, q) <=> q \in DOMAIN old
      BY <1>3, <1>4, <1>7, <2>1, Zenon DEF HasPartition
    <3>2. HasPartition(st, s, q) <=> q \in DOMAIN old
      BY <1>2, Zenon DEF HasPartition
    <3>3. q \in DOMAIN old => new[s][q] = old[q] /\ old[q] = st[s][q]
      BY <1>2, <1>3, <1>4, <1>7, <2>1, Zenon
    <3> QED
      BY <2>1, <3>1, <3>2, <3>3, Zenon
  <2>2. CASE t # s
    BY <2>2, <1>4, Zenon DEF HasPartition
  <2> QED
    BY <2>1, <2>2, Zenon
<1> QED
  BY <1>1, <1>5, <1>6, <1>7, Zenon

\* Apply changes the partitions of a server as EntryStep says (apply, fsm.go).
LEMMA ApplyStep ==
    ASSUME NEW n, NEW st, ViewOK(st), NEW op \in Entries, NEW i \in Nat, NEW rec \in BOOLEAN,
           ~Panics(st, op, i)
    PROVE  /\ ViewOK(ApplyEntry(n, st, op, i, rec))
           /\ EntryStep(n, Parts(st), Parts(ApplyEntry(n, st, op, i, rec)), op, i, rec)
<1> DEFINE new == ApplyEntry(n, st, op, i, rec)
           P == Parts(st)
           Q == Parts(new)
           s0 == op.stream
           p0 == op.partition
<1>1. /\ \A s, p : <<s, p>> \in DOMAIN P <=> HasPartition(st, s, p)
      /\ \A s, p : HasPartition(st, s, p) => P[<<s, p>>] = st[s][p]
      /\ \A s, p : <<s, p>> \in DOMAIN Q <=> HasPartition(new, s, p)
      /\ \A s, p : HasPartition(new, s, p) => Q[<<s, p>>] = new[s][p]
  BY PartsOfView, Zenon
<1>2. ViewOK(new) => DOMAIN Q \subseteq Stream \X Partition
  BY PartsOfView, Zenon
<1> DEFINE Stepped ==
      \A s \in Stream, p \in Partition :
         /\ HasPartition(new, s, p) <=>
              IsCreate(op, s, p) \/ (HasPartition(st, s, p) /\ ~IsDelete(op, s))
         /\ IsChange(op, s, p) => HasPartition(st, s, p)
         /\ HasPartition(new, s, p) => PartStep(n, P, new[s][p], s, p, op, i, rec)
<1> SUFFICES ViewOK(new) /\ Stepped
  BY <1>1, <1>2, Zenon DEF EntryStep
<1>3. s0 \in Stream
  BY Zenon DEF Entries
<1> HIDE DEF P, Q
<1>4. CASE op.type = "create"
  <2>1. p0 \in Partition
    BY <1>4, Zenon DEF Entries
  <2>2. new = ApplyCreatePartition(n, st, op, i, rec)
    BY <1>4, Zenon DEF ApplyEntry
  <2>3. \A s, p : /\ IsCreate(op, s, p) <=> s = s0 /\ p = p0
                  /\ ~IsDelete(op, s) /\ ~IsChange(op, s, p) /\ ~IsPause(P, op, s, p)
    BY <1>4, Zenon DEF IsCreate, IsDelete, IsChange, IsPause
  <2>4. CASE HasPartition(st, s0, p0) /\ ~st[s0][p0].paused
    <3>1. new = st
      BY <2>2, <2>4, Zenon DEF ApplyCreatePartition
    <3> QED
      BY <1>1, <2>3, <2>4, <3>1 DEF PartStep
  <2>5. CASE ~(HasPartition(st, s0, p0) /\ ~st[s0][p0].paused)
    <3> DEFINE x == SetLeader(n, NewPartition(op.leader, op.replicas, i, i, rec), op.leader, i)
    <3>1. new = SetPartition(st, s0, p0, x)
      BY <2>2, <2>5, Zenon DEF ApplyCreatePartition
    <3>2. PartStep(n, P, x, s0, p0, op, i, rec)
      BY <1>1, <2>3, <2>5 DEF PartStep
    <3> HIDE DEF x, new
    <3>3. /\ ViewOK(new) /\ HasPartition(new, s0, p0) /\ new[s0][p0] = x
          /\ \A t, q : t # s0 \/ q # p0 =>
               /\ HasPartition(new, t, q) <=> HasPartition(st, t, q)
               /\ HasPartition(st, t, q) => new[t][q] = st[t][q]
      BY <1>3, <2>1, <3>1, SetPartitionParts
    <3>4. ASSUME NEW s \in Stream, NEW p \in Partition
          PROVE  /\ HasPartition(new, s, p) <=>
                      IsCreate(op, s, p) \/ (HasPartition(st, s, p) /\ ~IsDelete(op, s))
                 /\ IsChange(op, s, p) => HasPartition(st, s, p)
                 /\ HasPartition(new, s, p) => PartStep(n, P, new[s][p], s, p, op, i, rec)
      <4>1. CASE s = s0 /\ p = p0
        BY <4>1, <2>3, <3>2, <3>3, Zenon
      <4>2. CASE s # s0 \/ p # p0
        BY <4>2, <1>1, <2>3, <3>3 DEF PartStep
      <4> QED
        BY <4>1, <4>2, Zenon
    <3> QED
      BY <3>3, <3>4, Zenon
  <2> QED
    BY <2>4, <2>5, Zenon
<1>5. CASE op.type = "delete"
  <2>1. new = Without(st, s0)
    BY <1>5, Zenon DEF ApplyEntry, ApplyDeleteStream
  <2>2. \A s, p : /\ IsDelete(op, s) <=> s = s0
                  /\ ~IsCreate(op, s, p) /\ ~IsChange(op, s, p) /\ ~IsPause(P, op, s, p)
    BY <1>5, Zenon DEF IsCreate, IsDelete, IsChange, IsPause
  <2> HIDE DEF new
  <2>3. DOMAIN new = DOMAIN st \ {s0} /\ \A s \in DOMAIN new : new[s] = st[s]
    BY <2>1, Zenon DEF Without
  <2> QED
    BY <1>1, <2>2, <2>3 DEF PartStep, HasPartition, ViewOK
<1>6. CASE op.type = "pause"
  <2>1. new = ApplyPauseStream(st, op)
    BY <1>6, Zenon DEF ApplyEntry
  <2>2. \A s, p : /\ ~IsCreate(op, s, p) /\ ~IsChange(op, s, p) /\ ~IsDelete(op, s)
                  /\ IsPause(P, op, s, p) <=>
                       /\ s = s0 /\ (op.partitions = {} \/ p \in op.partitions)
                       /\ \A q \in op.partitions : HasPartition(st, s, q)
    BY <1>1, <1>6, Zenon DEF IsCreate, IsDelete, IsChange, IsPause
  <2>3. CASE s0 \notin DOMAIN st \/ ~(op.partitions \subseteq DOMAIN st[s0])
    <3>1. new = st
      BY <2>1, <2>3, Zenon DEF ApplyPauseStream
    <3>2. \A p : HasPartition(st, s0, p) => ~IsPause(P, op, s0, p)
      BY <2>2, <2>3, Zenon DEF HasPartition
    <3> QED
      BY <1>1, <2>2, <3>1, <3>2 DEF PartStep
  <2>4. CASE s0 \in DOMAIN st /\ op.partitions \subseteq DOMAIN st[s0]
    <3> DEFINE toPause == IF op.partitions = {} THEN DOMAIN st[s0] ELSE op.partitions
               f == [p \in DOMAIN st[s0] |-> IF p \in toPause THEN Pause(st[s0][p]) ELSE st[s0][p]]
    <3>1. new = [st EXCEPT ![s0] = f]
      BY <2>1, <2>4, Zenon DEF ApplyPauseStream
    <3>2. \A p \in DOMAIN st[s0] : IsPause(P, op, s0, p) <=> p \in toPause
      BY <2>2, <2>4, Zenon DEF HasPartition
    <3>3. DOMAIN f = DOMAIN st[s0] /\ \A p \in DOMAIN f : f[p] = IF p \in toPause THEN Pause(st[s0][p]) ELSE st[s0][p]
      BY Zenon
    <3> HIDE DEF f, toPause, new
    <3>4. DOMAIN new = DOMAIN st /\ new[s0] = f /\ \A s \in DOMAIN st : s # s0 => new[s] = st[s]
      BY <3>1, <2>4, Zenon
    <3>5. ViewOK(new)
      BY <3>3, <3>4, Zenon DEF ViewOK
    <3>6. ASSUME NEW s, NEW p
          PROVE  HasPartition(new, s, p) <=> HasPartition(st, s, p)
      BY <3>3, <3>4, Zenon DEF HasPartition
    <3>7. ASSUME NEW s, NEW p, HasPartition(st, s, p)
          PROVE  PartStep(n, P, new[s][p], s, p, op, i, rec)
      <4>1. CASE s = s0
        <5>1. p \in DOMAIN st[s0]
          BY <3>7, <4>1, Zenon DEF HasPartition
        <5>2. new[s0][p] = IF p \in toPause THEN Pause(P[<<s0, p>>]) ELSE P[<<s0, p>>]
          BY <1>1, <3>3, <3>4, <3>7, <4>1, <5>1
        <5> QED
          BY <1>1, <2>2, <3>2, <3>7, <4>1, <5>1, <5>2, Zenon DEF PartStep
      <4>2. CASE s # s0
        <5>1. new[s][p] = P[<<s, p>>]
          BY <1>1, <3>4, <3>7, <4>2 DEF HasPartition
        <5> QED
          BY <1>1, <2>2, <3>7, <4>2, <5>1, Zenon DEF PartStep
      <4> QED
        BY <4>1, <4>2, Zenon
    <3> QED
      BY <2>2, <3>5, <3>6, <3>7, Zenon
  <2> QED
    BY <2>3, <2>4, Zenon
<1>7. CASE op.type \in {"shrink", "expand", "elect"}
  <2> DEFINE x == st[s0][p0]
  <2>1. p0 \in Partition
    BY <1>7, Zenon DEF Entries
  <2>2. HasPartition(st, s0, p0)
    BY <1>7, Zenon DEF Panics
  <2>3. ~(x.epoch >= i) /\ op.type # "elect" => op.replica \in x.replicas
    BY <1>7, <2>2, Zenon DEF Panics, AlreadyApplied
  <2>4. \A s, p : /\ IsChange(op, s, p) <=> s = s0 /\ p = p0
                  /\ ~IsDelete(op, s) /\ ~IsCreate(op, s, p) /\ ~IsPause(P, op, s, p)
    BY <1>7, Zenon DEF IsCreate, IsDelete, IsChange, IsPause
  <2>5. new = IF x.epoch >= i THEN st ELSE SetPartition(st, s0, p0, Changed(n, x, op, i))
    BY <1>7, Zenon DEF ApplyEntry, AlreadyApplied, Changed
  <2>6. CASE x.epoch >= i
    <3>1. new = st
      BY <2>5, <2>6, Zenon
    <3> QED
      BY <1>1, <2>2, <2>4, <2>6, <3>1 DEF PartStep
  <2>7. CASE ~(x.epoch >= i)
    <3> DEFINE y == Changed(n, x, op, i)
    <3>1. new = SetPartition(st, s0, p0, y)
      BY <2>5, <2>7, Zenon
    <3>2. PartStep(n, P, y, s0, p0, op, i, rec)
      BY <1>1, <2>2, <2>3, <2>4, <2>7 DEF PartStep
    <3> HIDE DEF y, new
    <3>3. /\ ViewOK(new) /\ HasPartition(new, s0, p0) /\ new[s0][p0] = y
          /\ \A t, q : t # s0 \/ q # p0 =>
               /\ HasPartition(new, t, q) <=> HasPartition(st, t, q)
               /\ HasPartition(st, t, q) => new[t][q] = st[t][q]
      BY <1>3, <2>1, <3>1, SetPartitionParts
    <3>4. ASSUME NEW s \in Stream, NEW p \in Partition
          PROVE  /\ HasPartition(new, s, p) <=>
                      IsCreate(op, s, p) \/ (HasPartition(st, s, p) /\ ~IsDelete(op, s))
                 /\ IsChange(op, s, p) => HasPartition(st, s, p)
                 /\ HasPartition(new, s, p) => PartStep(n, P, new[s][p], s, p, op, i, rec)
      <4>1. CASE s = s0 /\ p = p0
        BY <4>1, <2>2, <2>4, <3>2, <3>3, Zenon
      <4>2. CASE s # s0 \/ p # p0
        BY <4>2, <1>1, <2>4, <3>3 DEF PartStep
      <4> QED
        BY <4>1, <4>2, Zenon
    <3> QED
      BY <3>3, <3>4, Zenon
  <2> QED
    BY <2>6, <2>7, Zenon
<1> QED
  <2>1. op.type \in {"create", "delete", "pause", "shrink", "expand", "elect"}
    BY Zenon DEF Entries
  <2> QED
    BY <2>1, <1>4, <1>5, <1>6, <1>7, Zenon

\* What a partition does after startLeadingOrFollowing when it did r before.
Role(n, x, r) == IF x.leader = n THEN "leader" ELSE IF n \in x.replicas THEN "follower" ELSE r

\* A partition that is created takes the leader it is given and runs, unless
\* it is recovered (newPartition, SetLeader).
LEMMA CreatedRecord ==
    ASSUME NEW n, NEW x, NEW y, y = SetLeader(n, x, x.leader, x.leaderEpoch),
           x \in ListedRecord, x.runs = "no"
    PROVE  /\ y \in ListedRecord
           /\ y.obj = x.obj /\ y.leader = x.leader /\ y.leaderEpoch = x.leaderEpoch
           /\ y.epoch = x.epoch /\ y.replicas = x.replicas /\ y.assigned = x.assigned
           /\ y.isr = x.isr /\ y.paused = x.paused /\ y.recovered = x.recovered
           /\ x.recovered => y.runs = "no"
           /\ ~x.recovered => y.runs = Role(n, y, "no")
  BY Zenon DEF Role, SetLeader, StartLeadingOrFollowing, ListedRecord

\* Pause stops a partition and changes nothing else.
LEMMA PausedRecord ==
    ASSUME NEW x \in ListedRecord
    PROVE  /\ Pause(x) \in ListedRecord
           /\ Pause(x).obj = x.obj /\ Pause(x).leader = x.leader
           /\ Pause(x).leaderEpoch = x.leaderEpoch /\ Pause(x).epoch = x.epoch
           /\ Pause(x).replicas = x.replicas /\ Pause(x).assigned = x.assigned
           /\ Pause(x).isr = x.isr /\ Pause(x).paused /\ Pause(x).recovered = x.recovered
           /\ Pause(x).runs \in {x.runs, "no"}
  BY Zenon DEF Pause, ListedRecord

\* A change of the ISR or of the leader (RemoveFromISR, AddToISR, SetLeader).
LEMMA ChangedRecord ==
    ASSUME NEW n, NEW x, NEW op, NEW i, NEW y, ChangedTo(n, x, op, i, y),
           x \in ListedRecord, op \in Entries, i \in Nat, op.type \in {"shrink", "expand", "elect"}
    PROVE  /\ y \in ListedRecord
           /\ y.obj = x.obj /\ y.epoch = i /\ y.replicas = x.replicas /\ y.assigned = x.assigned
           /\ y.paused = x.paused /\ y.recovered = x.recovered
           /\ op.type # "elect" =>
                /\ y.leader = x.leader /\ y.leaderEpoch = x.leaderEpoch /\ y.runs = x.runs
           /\ op.type = "shrink" => y.isr = x.isr \ {op.replica}
           /\ op.type = "expand" => y.isr = x.isr \cup {op.replica}
           /\ op.type = "elect" =>
                /\ y.leader = op.leader /\ y.leaderEpoch = i /\ y.isr = x.isr
                /\ x.recovered => y.runs = x.runs
                /\ ~x.recovered => y.runs = Role(n, y, x.runs)
<1>1. CASE op.type = "shrink"
  BY <1>1, Zenon DEF ChangedTo, Changed, ApplyShrinkISR, ListedRecord
<1>2. CASE op.type = "expand"
  <2>1. op.replica \in Server
    BY <1>2, Zenon DEF Entries
  <2> QED
    BY <1>2, <2>1, Zenon DEF ChangedTo, Changed, ApplyExpandISR, ListedRecord
<1>3. CASE op.type = "elect"
  <2>1. op.leader \in Server
    BY <1>3, Zenon DEF Entries
  <2> QED
    BY <1>3, <2>1, Zenon
       DEF Role, ChangedTo, Changed, ApplyChangePartitionLeader, SetLeader,
           StartLeadingOrFollowing, ListedRecord
<1> QED
  BY <1>1, <1>2, <1>3, Zenon

\* StartRecovered starts a partition and changes nothing else.
LEMMA StartedRecord ==
    ASSUME NEW n, NEW x \in ListedRecord
    PROVE  /\ StartRecovered(n, x) \in ListedRecord
           /\ StartRecovered(n, x).obj = x.obj /\ StartRecovered(n, x).leader = x.leader
           /\ StartRecovered(n, x).leaderEpoch = x.leaderEpoch
           /\ StartRecovered(n, x).epoch = x.epoch
           /\ StartRecovered(n, x).replicas = x.replicas
           /\ StartRecovered(n, x).assigned = x.assigned
           /\ StartRecovered(n, x).isr = x.isr /\ StartRecovered(n, x).paused = x.paused
           /\ ~x.recovered \/ x.paused => StartRecovered(n, x) = x
           /\ x.recovered /\ ~x.paused =>
                /\ ~StartRecovered(n, x).recovered
                /\ StartRecovered(n, x).runs = Role(n, x, x.runs)
  BY Zenon DEF Role, StartRecovered, StartLeadingOrFollowing, ListedRecord

\* op is the entry that follows the first a.
EntryAt(L, a, i, op) == i = a + 1 /\ op = L[i]
\* x is what P holds for the partition, if anything.
RecordOf(P, s, p, k, x) == k = <<s, p>> /\ x = P[k]

\* The entry after position a of a log is one of the log's entries.
LEMMA EntryFacts ==
    ASSUME NEW L, LogOK(L), NEW a, a \in Nat, a < Len(L), NEW i, NEW op, EntryAt(L, a, i, op)
    PROVE  /\ L \in Seq(Entries) /\ Len(L) \in Nat
           /\ i \in Nat /\ i = a + 1 /\ i \in 1 .. Len(L)
           /\ op = L[i] /\ op \in Entries
BY DEF LogOK, EntryAt

\* An entry keeps a partition in accord with the log, with the entry it has
\* applied as the newest.
LEMMA PartStepOK ==
    ASSUME NEW L, LogOK(L), NEW P, NEW a \in Nat, Sound(L, P, a), a < Len(L),
           NEW n \in Server, NEW rec \in BOOLEAN, NEW s \in Stream, NEW p \in Partition,
           NEW i, NEW op, EntryAt(L, a, i, op), NEW k, NEW x, RecordOf(P, s, p, k, x), NEW y,
           PartStep(n, P, y, s, p, op, i, rec), ~IsDelete(op, s),
           k \in DOMAIN P /\ x.paused => \E d \in 1 .. a : Pauses(L, d, s)
    PROVE  y \in ListedRecord /\ PartOK(L, s, p, y, i)
<1>1. L \in Seq(Entries) /\ Len(L) \in Nat /\ i \in 1 .. Len(L) /\ i \in Nat /\ op \in Entries
  BY EntryFacts, Zenon
<1>2. k \in DOMAIN P => x \in ListedRecord /\ PartOK(L, s, p, x, a)
  BY Zenon DEF Sound, RecordOf
<1>10. L[i] = op /\ i - 1 = a /\ i > a
  BY DEF EntryAt
<1>3. /\ IsCreate(op, s, p) <=> Creates(L, i, s, p)
      /\ IsChange(op, s, p) <=> Changes(L, i, s, p)
      /\ IsDelete(op, s) <=> Deletes(L, i, s)
      /\ IsPause(P, op, s, p) => Pauses(L, i, s)
      /\ IsCreate(op, s, p) => ~Changes(L, i, s, p)
      /\ IsChange(op, s, p) => ~Creates(L, i, s, p)
  BY <1>1, Zenon DEF EntryAt, IsCreate, IsChange, IsDelete, IsPause, Creates, Changes, Deletes, Pauses
<1>4. \A c \in 1 .. i : c \in Nat /\ (c \in 1 .. a \/ c = i)
  BY DEF EntryAt
<1>5. k \in DOMAIN P => /\ x.epoch \in 1 .. Len(L) /\ x.leaderEpoch \in 1 .. Len(L)
                        /\ x.epoch \in Nat /\ x.leaderEpoch \in Nat /\ x.leaderEpoch <= x.epoch
  BY <1>1, <1>2 DEF PartOK, EpochsOK, Creates, Changes

<1>6. CASE /\ k \in DOMAIN P /\ y = x
           /\ IsCreate(op, s, p) => ~x.paused
           /\ IsChange(op, s, p) => x.epoch >= i
           /\ ~IsPause(P, op, s, p)
  <2>1. EpochsOK(L, s, p, x, i)
    BY <1>1, <1>2, <1>3, <1>4, <1>5, <1>6, Zenon DEF PartOK, EpochsOK
  <2>2. Unreplaced(L, s, p, x, i)
    BY <1>1, <1>2, <1>5, <1>6, <1>10 DEF PartOK, Unreplaced
  <2> QED
    BY <1>2, <1>6, <2>1, <2>2, Zenon DEF PartOK
<1>7. CASE /\ IsCreate(op, s, p)
           /\ k \in DOMAIN P => x.paused
           /\ y = SetLeader(n, NewPartition(op.leader, op.replicas, i, i, rec), op.leader, i)
  <2>1. op.leader \in Server /\ op.replicas \in SUBSET Server
    BY <1>1, <1>7, Zenon DEF IsCreate, Entries
  <2>3. /\ y \in ListedRecord /\ y.leader = op.leader /\ y.leaderEpoch = i /\ y.epoch = i
        /\ y.replicas = op.replicas /\ y.assigned = op.replicas /\ y.isr = op.replicas /\ ~y.paused
    <3> DEFINE new == NewPartition(op.leader, op.replicas, i, i, rec)
    <3>1. /\ new \in ListedRecord /\ new.leader = op.leader /\ new.leaderEpoch = i /\ new.epoch = i
          /\ new.replicas = op.replicas /\ new.assigned = op.replicas /\ new.isr = op.replicas
          /\ ~new.paused /\ new.runs = "no"
      BY <1>1, <2>1 DEF NewPartition, ListedRecord
    <3>2. y = SetLeader(n, new, new.leader, new.leaderEpoch)
      BY <1>7, <3>1, Zenon
    <3> HIDE DEF new
    <3> QED
      BY <3>1, <3>2, CreatedRecord
  <2>4. EpochsOK(L, s, p, y, i)
    <3>1. \A d \in 1 .. i : Deletes(L, d, s) => d < i
      BY <1>1, <1>3, <1>4, <1>10
    <3>2. y.epoch = i /\ y.leaderEpoch = i /\ Creates(L, i, s, p)
      BY <1>3, <1>7, <2>3, Zenon
    <3> QED
      BY <1>1, <1>4, <3>1, <3>2 DEF EpochsOK
  <2>5. ASSUME NEW b \in 1 .. a, Creates(L, b, s, p) \/ Changes(L, b, s, p)
        PROVE  \/ \E d \in b + 1 .. a : Deletes(L, d, s)
               \/ \E d \in 1 .. a : Pauses(L, d, s)
    <3>1. k \in DOMAIN P \/ \E d \in b + 1 .. a : Deletes(L, d, s)
      BY <2>5, Zenon DEF Sound, Presence, RecordOf
    <3> QED
      BY <3>1, <1>7, Zenon
  <2>6. QuietOK(L, s, p, y)
    <3>1. ASSUME Quiet(L, s) PROVE CreatesAfresh(L, i, s, p)
      <4>1. \A d \in 1 .. a : ~Pauses(L, d, s)
        BY <1>1, <1>10, <3>1 DEF Quiet
      <4> QED
        BY <1>10, <2>5, <4>1, Zenon DEF CreatesAfresh
    <3> QED
      BY <1>10, <2>3, <3>1, Zenon DEF QuietOK
  <2>7. ReplicasOK(L, s, p, y)
    <3>1. CASE \E b \in 1 .. a : Creates(L, b, s, p)
      <4>1. PICK b \in 1 .. a : Creates(L, b, s, p)
        BY <3>1, Zenon
      <4>2. \E d \in 1 .. a : Deletes(L, d, s) \/ Pauses(L, d, s)
        BY <2>5, <4>1
      <4>3. PICK d \in 1 .. a : Deletes(L, d, s) \/ Pauses(L, d, s)
        BY <4>2, Zenon
      <4>4. Disturbed(L, Len(L), s)
        BY <1>1, <1>10, <4>3 DEF Disturbed
      <4>5. \A c \in 1 .. Len(L) : ~Disturbed(L, c - 1, s) => c <= i
        BY <1>1, <1>10, <4>3 DEF Disturbed
      <4> QED
        BY <2>3, <4>4, <4>5, Zenon DEF ReplicasOK
    <3>2. CASE ~ \E b \in 1 .. a : Creates(L, b, s, p)
      <4>1. ASSUME NEW c \in 1 .. Len(L), FirstCreates(L, c, s, p) PROVE c = i
        <5>1. c >= i
          BY <1>1, <1>10, <3>2, <4>1 DEF FirstCreates
        <5>2. ~(c > i)
          BY <1>1, <1>3, <1>7, <4>1 DEF FirstCreates
        <5> QED
          BY <1>1, <5>1, <5>2
      <4> QED
        BY <1>10, <2>3, <4>1, Zenon DEF ReplicasOK
    <3> QED
      BY <3>1, <3>2, Zenon
  <2>8. Unreplaced(L, s, p, y, i)
    BY <1>1, <2>3 DEF Unreplaced
  <2> QED
    BY <2>3, <2>4, <2>6, <2>7, <2>8, Zenon DEF PartOK
<1>8. CASE IsPause(P, op, s, p) /\ k \in DOMAIN P /\ y = Pause(x)
  <2>1. /\ y \in ListedRecord /\ y.leader = x.leader /\ y.leaderEpoch = x.leaderEpoch
        /\ y.epoch = x.epoch /\ y.replicas = x.replicas /\ y.assigned = x.assigned /\ y.isr = x.isr
    BY <1>2, <1>8, PausedRecord, Zenon
  <2>2. ~Changes(L, i, s, p)
    BY <1>8, <1>10, Zenon DEF IsPause, Changes
  <2>3. EpochsOK(L, s, p, y, i)
    BY <1>2, <1>3, <1>4, <1>5, <1>8, <2>1, <2>2, Zenon DEF PartOK, EpochsOK
  <2>4. QuietOK(L, s, p, y)
    BY <1>1, <1>3, <1>8, Zenon DEF QuietOK, Quiet
  <2>5. ReplicasOK(L, s, p, y)
    BY <1>2, <1>8, <2>1, Zenon DEF PartOK, ReplicasOK
  <2>6. Unreplaced(L, s, p, y, i)
    BY <1>1, <1>2, <1>5, <1>8, <1>10, <2>1 DEF PartOK, Unreplaced
  <2> QED
    BY <1>2, <1>8, <2>1, <2>3, <2>4, <2>5, <2>6, Zenon DEF PartOK
<1>9. CASE /\ IsChange(op, s, p)
           /\ k \in DOMAIN P /\ ~(x.epoch >= i)
           /\ op.type # "elect" => op.replica \in x.replicas
           /\ y = Changed(n, x, op, i)
  <2>0. op.type \in {"shrink", "expand", "elect"}
    BY <1>9, Zenon DEF IsChange
  <2>1. /\ y \in ListedRecord
        /\ y.epoch = i /\ y.replicas = x.replicas /\ y.assigned = x.assigned /\ y.paused = x.paused
        /\ op.type # "elect" =>
             /\ y.leader = x.leader /\ y.leaderEpoch = x.leaderEpoch
        /\ op.type = "shrink" => y.isr = x.isr \ {op.replica}
        /\ op.type = "expand" => y.isr = x.isr \cup {op.replica}
        /\ op.type = "elect" => y.leader = op.leader /\ y.leaderEpoch = i /\ y.isr = x.isr
    <3>1. op \in Entries /\ x \in ListedRecord /\ i \in Nat /\ ChangedTo(n, x, op, i, y)
      BY <1>1, <1>2, <1>9, Zenon DEF ChangedTo
    <3> QED
      BY <2>0, <3>1, ChangedRecord
  <2>2. y.isr \subseteq y.replicas
    BY <1>2, <1>9, <2>0, <2>1, Zenon DEF PartOK
  <2>3. EpochsOK(L, s, p, y, i)
    <3>1. CASE op.type = "elect"
      <4>1. y.epoch = i /\ y.leaderEpoch = i /\ Changes(L, i, s, p) /\ L[i].type = "elect"
        BY <1>3, <1>9, <1>10, <2>1, <3>1, Zenon
      <4>2. \A d \in 1 .. i : Deletes(L, d, s) => d < i
        BY <1>1, <1>3, <1>4, <1>10
      <4> QED
        BY <1>1, <4>1, <4>2 DEF EpochsOK
    <3>2. CASE op.type # "elect"
      <4>1. \A c \in 1 .. i : Changes(L, c, s, p) /\ L[c].type = "elect" => c <= x.leaderEpoch
        <5>1. \A c \in 1 .. a : Changes(L, c, s, p) => c \in 1 .. x.epoch
          BY <1>2, <1>5, <1>9 DEF PartOK, EpochsOK
        <5>2. \A c \in 1 .. x.epoch :
                 Changes(L, c, s, p) /\ L[c].type = "elect" => c <= x.leaderEpoch
          BY <1>2, <1>9, Zenon DEF PartOK, EpochsOK
        <5> QED
          BY <1>4, <1>10, <3>2, <5>1, <5>2, Zenon
      <4>2. \A d \in 1 .. i : Deletes(L, d, s) => d < x.leaderEpoch
        BY <1>2, <1>3, <1>4, <1>9, Zenon DEF PartOK, EpochsOK
      <4>3. y.epoch = i /\ y.leaderEpoch = x.leaderEpoch /\ Changes(L, i, s, p)
        BY <1>3, <1>9, <2>1, <3>2, Zenon
      <4>4. x.leaderEpoch <= i
        BY <1>1, <1>5, <1>9
      <4>5. \/ Creates(L, x.leaderEpoch, s, p)
            \/ Changes(L, x.leaderEpoch, s, p) /\ L[x.leaderEpoch].type = "elect"
        BY <1>2, <1>9, Zenon DEF PartOK, EpochsOK
      <4> QED
        BY <1>1, <1>4, <4>1, <4>2, <4>3, <4>4, <4>5 DEF EpochsOK
    <3> QED
      BY <3>1, <3>2, Zenon
  <2>4. QuietOK(L, s, p, y)
    <3>1. ~Creates(L, i, s, p) /\ L[i] = op
      BY <1>3, <1>9, <1>10, Zenon
    <3> QED
      BY <1>2, <1>9, <2>1, <3>1, Zenon DEF PartOK, QuietOK
  <2>5. ReplicasOK(L, s, p, y)
    <3>1. ReplicasOK(L, s, p, x) /\ x.epoch <= i /\ x.epoch \in Nat
      BY <1>1, <1>2, <1>5, <1>9 DEF PartOK
    <3>2. \A c \in 1 .. Len(L) : c <= x.epoch => c <= y.epoch
      BY <1>1, <2>1, <3>1
    <3> QED
      BY <2>1, <3>1, <3>2, Zenon DEF ReplicasOK
  <2>6. Unreplaced(L, s, p, y, i)
    BY <1>1, <2>1 DEF Unreplaced
  <2> QED
    BY <2>1, <2>2, <2>3, <2>4, <2>5, <2>6, Zenon DEF PartOK
<1> QED
  BY <1>6, <1>7, <1>8, <1>9, Zenon DEF PartStep, RecordOf

\* An entry keeps all partitions in accord with the log.
LEMMA SoundStep ==
    ASSUME NEW L, LogOK(L), NEW P, NEW a \in Nat, Sound(L, P, a), a < Len(L),
           NEW n \in Server, NEW rec \in BOOLEAN, NEW i, NEW op, EntryAt(L, a, i, op),
           NEW Q, EntryStep(n, P, Q, op, i, rec),
           \A s \in Stream, p \in Partition :
              <<s, p>> \in DOMAIN P /\ P[<<s, p>>].paused => \E d \in 1 .. a : Pauses(L, d, s)
    PROVE  Sound(L, Q, i)
<1>1. L \in Seq(Entries) /\ Len(L) \in Nat /\ i \in 1 .. Len(L) /\ i \in Nat /\ i = a + 1
  BY EntryFacts, Zenon
<1>2. ASSUME NEW s \in Stream, NEW p \in Partition
      PROVE  /\ IsCreate(op, s, p) <=> Creates(L, i, s, p)
             /\ IsChange(op, s, p) <=> Changes(L, i, s, p)
             /\ IsDelete(op, s) <=> Deletes(L, i, s)
             /\ IsDelete(op, s) => ~IsCreate(op, s, p) /\ ~IsChange(op, s, p)
             /\ <<s, p>> \in DOMAIN Q <=>
                  IsCreate(op, s, p) \/ (<<s, p>> \in DOMAIN P /\ ~IsDelete(op, s))
             /\ IsChange(op, s, p) => <<s, p>> \in DOMAIN P
  BY <1>1, Zenon DEF EntryAt, EntryStep, IsCreate, IsChange, IsDelete, Creates, Changes, Deletes
<1>3. Presence(L, Q, i)
  <2> SUFFICES ASSUME NEW s \in Stream, NEW p \in Partition
               PROVE  /\ \A c \in 1 .. i :
                           Creates(L, c, s, p) \/ Changes(L, c, s, p) =>
                              <<s, p>> \in DOMAIN Q \/ \E d \in c + 1 .. i : Deletes(L, d, s)
                      /\ <<s, p>> \in DOMAIN Q =>
                           \E c \in 1 .. i : Creates(L, c, s, p) /\ \A d \in c + 1 .. i : ~Deletes(L, d, s)
    BY Zenon DEF Presence
  <2>1. ASSUME NEW c \in 1 .. i, Creates(L, c, s, p) \/ Changes(L, c, s, p)
        PROVE  <<s, p>> \in DOMAIN Q \/ \E d \in c + 1 .. i : Deletes(L, d, s)
    <3>1. CASE c = i
      BY <1>2, <2>1, <3>1, Zenon
    <3>2. CASE c \in 1 .. a
      <4>1. <<s, p>> \in DOMAIN P \/ \E d \in c + 1 .. a : Deletes(L, d, s)
        BY <2>1, <3>2, Zenon DEF Sound, Presence
      <4>2. i \in c + 1 .. i /\ \A d \in c + 1 .. a : d \in c + 1 .. i
        BY <1>1, <3>2
      <4> QED
        BY <1>2, <4>1, <4>2, Zenon
    <3> QED
      BY <1>1, <3>1, <3>2
  <2>2. ASSUME <<s, p>> \in DOMAIN Q
        PROVE  \E c \in 1 .. i : Creates(L, c, s, p) /\ \A d \in c + 1 .. i : ~Deletes(L, d, s)
    <3>1. CASE IsCreate(op, s, p)
      <4>1. Creates(L, i, s, p)
        BY <1>2, <3>1, Zenon
      <4>2. i \in 1 .. i /\ i + 1 .. i = {}
        BY <1>1
      <4> QED
        BY <4>1, <4>2, Zenon
    <3>2. CASE <<s, p>> \in DOMAIN P /\ ~Deletes(L, i, s)
      <4>1. PICK c \in 1 .. a : Creates(L, c, s, p) /\ \A d \in c + 1 .. a : ~Deletes(L, d, s)
        BY <3>2, Zenon DEF Sound, Presence
      <4>2. \A d \in c + 1 .. i : d \in c + 1 .. a \/ d = i
        BY <1>1
      <4>3. c \in 1 .. i /\ \A d \in c + 1 .. i : ~Deletes(L, d, s)
        BY <1>1, <3>2, <4>1, <4>2
      <4> QED
        BY <4>1, <4>3, Zenon
    <3> QED
      BY <1>2, <2>2, <3>1, <3>2, Zenon
  <2> QED
    BY <2>1, <2>2, Zenon
<1>4. ASSUME NEW s \in Stream, NEW p \in Partition, <<s, p>> \in DOMAIN Q
      PROVE  Q[<<s, p>>] \in ListedRecord /\ PartOK(L, s, p, Q[<<s, p>>], i)
  <2>1. PartStep(n, P, Q[<<s, p>>], s, p, op, i, rec) /\ ~IsDelete(op, s)
    BY <1>2, <1>4, Zenon DEF EntryStep
  <2>2. RecordOf(P, s, p, <<s, p>>, P[<<s, p>>])
    BY Zenon DEF RecordOf
  <2> QED
    BY <2>1, <2>2, PartStepOK, Zenon
<1> QED
  BY <1>1, <1>3, <1>4 DEF Sound, EntryStep

-----------------------------------------------------------------------------
\* The other ways a record changes.

\* y has the leader and the epochs of x, and replicas and a pause that x allows.
Carries(x, y) ==
    /\ y.leader = x.leader /\ y.leaderEpoch = x.leaderEpoch /\ y.epoch = x.epoch
    /\ y.assigned = x.assigned /\ y.replicas \in {x.replicas, x.assigned}
    /\ y.isr \subseteq y.replicas /\ (y.paused => x.paused)

\* What a partition is in accord with does not depend on what it runs.
LEMMA PartOKCarries ==
    ASSUME NEW L, NEW s, NEW p, NEW x, NEW y, NEW a, PartOK(L, s, p, x, a), Carries(x, y)
    PROVE  PartOK(L, s, p, y, a)
<1>1. EpochsOK(L, s, p, y, a)
  BY Zenon DEF PartOK, EpochsOK, Carries
<1>2. QuietOK(L, s, p, y)
  BY Zenon DEF PartOK, QuietOK, Carries
<1>3. ReplicasOK(L, s, p, y)
  BY Zenon DEF PartOK, ReplicasOK, Carries
<1>4. Unreplaced(L, s, p, y, a)
  BY Zenon DEF PartOK, Unreplaced, Carries
<1> QED
  BY <1>1, <1>2, <1>3, <1>4, Zenon DEF PartOK, Carries

\* The same of all partitions.
LEMMA SoundCarries ==
    ASSUME NEW L, NEW P, NEW Q, NEW a, Sound(L, P, a), DOMAIN Q = DOMAIN P,
           \A k \in DOMAIN P : Q[k] \in ListedRecord /\ Carries(P[k], Q[k])
    PROVE  Sound(L, Q, a)
<1>1. Presence(L, Q, a)
  BY Zenon DEF Sound, Presence
<1>2. ASSUME NEW s \in Stream, NEW p \in Partition, <<s, p>> \in DOMAIN Q
      PROVE  Q[<<s, p>>] \in ListedRecord /\ PartOK(L, s, p, Q[<<s, p>>], a)
  <2>1. PartOK(L, s, p, P[<<s, p>>], a) /\ Carries(P[<<s, p>>], Q[<<s, p>>])
    BY <1>2, Zenon DEF Sound
  <2> QED
    BY <1>2, <2>1, PartOKCarries, Zenon
<1> QED
  BY <1>1, <1>2, Zenon DEF Sound

-----------------------------------------------------------------------------
\* What a running server does with the partitions it knows.

\* x is what server n knows of a partition once it has applied a entries; b says
\* that it restored a snapshot.
LivePart(L, n, s, p, x, a, b) ==
    /\ x.obj \in 0 .. a
    /\ x.paused => \E d \in 1 .. a : Pauses(L, d, s)
    /\ x.paused => \A c \in a + 1 .. x.epoch : ~Creates(L, c, s, p)
    /\ x.recovered => x.runs = "no"
    /\ ~x.recovered /\ ~x.paused =>
         /\ n = x.leader => x.runs = "leader"
         /\ n \in x.replicas \ {x.leader} => x.runs = "follower"
    /\ ~b /\ ~x.paused => x.leader = L[x.leaderEpoch].leader
    /\ (~b \/ Quiet(L, s)) /\ x.runs = "leader" /\ n \in x.replicas =>
         L[x.leaderEpoch].leader = n

\* An entry keeps what a partition of a running server runs in accord with its
\* leader.
LEMMA LivePartStep ==
    ASSUME NEW L, NEW P, NEW a, NEW n, NEW rec, NEW s, NEW p, NEW i, NEW op, NEW k, NEW x, NEW y,
           NEW b, PartStep(n, P, y, s, p, op, i, rec), RecordOf(P, s, p, k, x),
           EntryAt(L, a, i, op), LogOK(L), Sound(L, P, a), a \in Nat, a < Len(L),
           n \in Server, rec \in BOOLEAN, s \in Stream, p \in Partition, b \in BOOLEAN,
           k \in DOMAIN P => LivePart(L, n, s, p, x, a, b)
    PROVE  LivePart(L, n, s, p, y, i, b)
<1>1. Len(L) \in Nat /\ i \in 1 .. Len(L) /\ i \in Nat /\ op \in Entries
  BY EntryFacts, Zenon
<1>2. k \in DOMAIN P => x \in ListedRecord /\ PartOK(L, s, p, x, a)
  BY Zenon DEF Sound, RecordOf
<1>3. L[i] = op /\ i - 1 = a /\ i > a
  BY DEF EntryAt
<1>4. (\A c \in 1 .. a : c \in 1 .. i) /\ (\A c \in 0 .. a : c \in 0 .. i)
  BY <1>1, <1>3
<1>5. k \in DOMAIN P => /\ x.epoch \in Nat /\ \A c \in i + 1 .. x.epoch : c \in a + 1 .. x.epoch
  BY <1>1, <1>2, <1>3 DEF ListedRecord
<1>6. CASE k \in DOMAIN P /\ y = x
  BY <1>1, <1>4, <1>5, <1>6, Zenon DEF LivePart
<1>7. CASE /\ IsCreate(op, s, p)
           /\ y = SetLeader(n, NewPartition(op.leader, op.replicas, i, i, rec), op.leader, i)
  <2> DEFINE new == NewPartition(op.leader, op.replicas, i, i, rec)
  <2>1. op.leader \in Server /\ op.replicas \in SUBSET Server
    BY <1>1, <1>7, Zenon DEF IsCreate, Entries
  <2>2. /\ new \in ListedRecord /\ new.obj = i /\ new.leader = op.leader /\ new.leaderEpoch = i
        /\ ~new.paused /\ new.runs = "no"
    BY <1>1, <2>1 DEF NewPartition, ListedRecord
  <2>3. y = SetLeader(n, new, new.leader, new.leaderEpoch)
    BY <1>7, <2>2, Zenon
  <2> HIDE DEF new
  <2>4. /\ y.obj = i /\ y.leader = op.leader /\ y.leaderEpoch = i /\ ~y.paused
        /\ y.recovered => y.runs = "no"
        /\ ~y.recovered => y.runs = Role(n, y, "no")
    BY <2>2, <2>3, CreatedRecord
  <2> QED
    BY <1>1, <1>3, <2>4 DEF LivePart, Role
<1>8. CASE IsPause(P, op, s, p) /\ k \in DOMAIN P /\ y = Pause(x)
  <2>1. /\ y.obj = x.obj /\ y.leader = x.leader /\ y.leaderEpoch = x.leaderEpoch
        /\ y.epoch = x.epoch /\ y.replicas = x.replicas /\ y.paused /\ y.recovered = x.recovered
        /\ y.runs \in {x.runs, "no"}
    BY <1>2, <1>8, PausedRecord, Zenon
  <2>2. Pauses(L, i, s)
    BY <1>1, <1>3, <1>8, Zenon DEF IsPause, Pauses
  <2>3. PausesPartition(L, i, s, p)
    <3>1. /\ L[i].partitions = {} \/ p \in L[i].partitions
          /\ \A q \in L[i].partitions : <<s, q>> \in DOMAIN P
      BY <1>3, <1>8, Zenon DEF IsPause
    <3>2. \A q \in L[i].partitions : q \in Partition
      BY <1>1, <1>3, <1>8, Zenon DEF IsPause, Entries
    <3>3. \A q \in L[i].partitions :
             \E c \in 1 .. a : Creates(L, c, s, q) /\ \A e \in c + 1 .. a : ~Deletes(L, e, s)
      BY <3>1, <3>2, Zenon DEF Sound, Presence
    <3> QED
      BY <1>3, <2>2, <3>1, <3>3, Zenon DEF PausesPartition
  <2>4. ASSUME NEW c \in i + 1 .. x.epoch PROVE ~Creates(L, c, s, p)
    <3>1. c \in a + 1 .. x.epoch /\ i \in a + 1 .. c - 1
      BY <1>1, <1>3, <1>5, <1>8
    <3> QED
      BY <1>2, <1>8, <2>3, <3>1, Zenon DEF PartOK, Unreplaced
  <2>5. LivePart(L, n, s, p, x, a, b)
    BY <1>8, Zenon
  <2> QED
    <3>1. i \in 1 .. i
      BY <1>1
    <3> QED
      BY <1>4, <2>1, <2>2, <2>4, <2>5, <3>1, Zenon DEF LivePart
<1>9. CASE IsChange(op, s, p) /\ k \in DOMAIN P /\ y = Changed(n, x, op, i)
  <2>0. /\ op.type \in {"shrink", "expand", "elect"} /\ op \in Entries /\ i \in Nat
        /\ x \in ListedRecord /\ ChangedTo(n, x, op, i, y)
    BY <1>1, <1>2, <1>9, Zenon DEF IsChange, ChangedTo
  <2>1. /\ y.obj = x.obj /\ y.epoch = i /\ y.replicas = x.replicas /\ y.paused = x.paused
        /\ y.recovered = x.recovered
    BY <2>0, ChangedRecord
  <2>2. /\ op.type # "elect" =>
             y.leader = x.leader /\ y.leaderEpoch = x.leaderEpoch /\ y.runs = x.runs
        /\ op.type = "elect" =>
             /\ y.leader = op.leader /\ y.leaderEpoch = i
             /\ x.recovered => y.runs = x.runs
             /\ ~x.recovered => y.runs = Role(n, y, x.runs)
    BY <2>0, ChangedRecord
  <2>3. LivePart(L, n, s, p, x, a, b) /\ i + 1 .. i = {}
    BY <1>1, <1>9
  <2>4. CASE op.type # "elect"
    BY <1>1, <1>4, <2>1, <2>2, <2>3, <2>4, Zenon DEF LivePart
  <2>5. CASE op.type = "elect"
    BY <1>1, <1>3, <1>4, <2>1, <2>2, <2>3, <2>5, Zenon DEF LivePart, Role
  <2> QED
    BY <2>4, <2>5, Zenon
<1> QED
  BY <1>6, <1>7, <1>8, <1>9, Zenon DEF PartStep, RecordOf

\* StartRecovered
LEMMA LivePartStarted ==
    ASSUME NEW L, NEW n, NEW s, NEW p, NEW x, NEW a, NEW b, LivePart(L, n, s, p, x, a, b),
           x \in ListedRecord, QuietOK(L, s, p, x)
    PROVE  /\ LivePart(L, n, s, p, StartRecovered(n, x), a, b)
           /\ StartRecovered(n, x).recovered => x.paused
<1> DEFINE y == StartRecovered(n, x)
<1>1. CASE ~x.recovered \/ x.paused
  <2>1. y = x
    BY <1>1, StartedRecord, Zenon
  <2> QED
    BY <1>1, <2>1, Zenon
<1>2. CASE x.recovered /\ ~x.paused
  <2>1. /\ y.obj = x.obj /\ y.leader = x.leader /\ y.leaderEpoch = x.leaderEpoch
        /\ y.epoch = x.epoch /\ y.replicas = x.replicas /\ y.paused = x.paused
    BY StartedRecord, Zenon
  <2>2. ~y.recovered /\ y.runs = Role(n, x, x.runs)
    BY <1>2, StartedRecord
  <2>3. x.runs = "no"
    BY <1>2, Zenon DEF LivePart
  <2>4. (~b \/ Quiet(L, s)) => x.leader = L[x.leaderEpoch].leader
    BY <1>2, Zenon DEF LivePart, QuietOK
  <2> HIDE DEF y
  <2>5. LivePart(L, n, s, p, y, a, b)
    BY <1>2, <2>1, <2>2, <2>3, <2>4, Zenon DEF LivePart, Role
  <2> QED
    BY <2>2, <2>5, Zenon DEF y
<1> QED
  BY <1>1, <1>2, Zenon

\* Whether a partition waits for the recovery that ends at index r.
Recovers(x, a, r, b) ==
    /\ x.recovered /\ ~x.paused => r > a
    /\ r > a /\ ~b => x.recovered

\* st is what a running server n knows after a entries.
Live(L, n, st, a, r, b) ==
    /\ ViewOK(st) /\ Sound(L, Parts(st), a)
    /\ \A s \in Stream, p \in Partition :
         HasPartition(st, s, p) =>
            LivePart(L, n, s, p, st[s][p], a, b) /\ Recovers(st[s][p], a, r, b)
    /\ r = -1 /\ ~b => DOMAIN st = {}

\* finishedRecovery starts every partition and adds or drops none.
LEMMA FinishedView ==
    ASSUME NEW n, NEW st
    PROVE  /\ DOMAIN FinishedRecovery(n, st) = DOMAIN st
           /\ ViewOK(st) => ViewOK(FinishedRecovery(n, st))
           /\ \A s, p : HasPartition(FinishedRecovery(n, st), s, p) <=> HasPartition(st, s, p)
           /\ \A s, p : HasPartition(st, s, p) =>
                          FinishedRecovery(n, st)[s][p] = StartRecovered(n, st[s][p])
<1> DEFINE new == FinishedRecovery(n, st)
<1>1. /\ DOMAIN new = DOMAIN st
      /\ \A s \in DOMAIN st : /\ DOMAIN new[s] = DOMAIN st[s]
                              /\ \A p \in DOMAIN st[s] : new[s][p] = StartRecovered(n, st[s][p])
  BY Zenon DEF FinishedRecovery
<1> HIDE DEF new
<1>2. /\ DOMAIN new = DOMAIN st
      /\ ViewOK(st) => ViewOK(new)
      /\ \A s, p : HasPartition(new, s, p) <=> HasPartition(st, s, p)
      /\ \A s, p : HasPartition(st, s, p) => new[s][p] = StartRecovered(n, st[s][p])
  BY <1>1, Zenon DEF ViewOK, HasPartition
<1> QED
  BY <1>2, Zenon DEF new

\* It keeps them in accord with the log.
LEMMA FinishedSound ==
    ASSUME NEW L, NEW n, NEW st, NEW a, ViewOK(st), Sound(L, Parts(st), a)
    PROVE  Sound(L, Parts(FinishedRecovery(n, st)), a)
<1> DEFINE new == FinishedRecovery(n, st)
           P == Parts(st)
           Q == Parts(new)
<1>1. /\ \A s, p : HasPartition(new, s, p) <=> HasPartition(st, s, p)
      /\ \A s, p : HasPartition(st, s, p) => new[s][p] = StartRecovered(n, st[s][p])
      /\ ViewOK(new)
  BY FinishedView
<1>2. /\ \A s, p : <<s, p>> \in DOMAIN P <=> HasPartition(st, s, p)
      /\ \A s, p : HasPartition(st, s, p) => P[<<s, p>>] = st[s][p]
      /\ \A s, p : <<s, p>> \in DOMAIN Q <=> HasPartition(new, s, p)
      /\ \A s, p : HasPartition(new, s, p) => Q[<<s, p>>] = new[s][p]
      /\ DOMAIN P \subseteq Stream \X Partition
  BY PartsOfView, Zenon
<1>2a. DOMAIN Q \subseteq Stream \X Partition
  BY <1>1, PartsOfView, Zenon
<1> HIDE DEF new, P, Q
<1>3. ASSUME NEW s \in Stream, NEW p \in Partition, <<s, p>> \in DOMAIN P
      PROVE  Q[<<s, p>>] \in ListedRecord /\ Carries(P[<<s, p>>], Q[<<s, p>>])
  <2> DEFINE x == P[<<s, p>>]
             y == Q[<<s, p>>]
  <2>1. y = StartRecovered(n, x) /\ x \in ListedRecord /\ x.isr \subseteq x.replicas
    <3>1. HasPartition(st, s, p) /\ x = st[s][p]
      BY <1>2, <1>3, Zenon
    <3>1a. HasPartition(new, s, p)
      BY <1>1, <3>1
    <3>1b. y = new[s][p]
      BY <1>2, <3>1a, Zenon
    <3>2. x \in ListedRecord /\ PartOK(L, s, p, x, a)
      BY <1>3, Zenon DEF Sound, P
    <3>3. y = StartRecovered(n, x)
      BY <1>1, <3>1, <3>1b
    <3> QED
      BY <3>2, <3>3, Zenon DEF PartOK
  <2> HIDE DEF x, y
  <2>2. y \in ListedRecord /\ Carries(x, y)
    BY <2>1, StartedRecord DEF Carries
  <2> QED
    BY <2>2, Zenon DEF x, y
<1>4. DOMAIN Q = DOMAIN P
  BY <1>1, <1>2, <1>2a
<1>5. \A k \in DOMAIN P : Q[k] \in ListedRecord /\ Carries(P[k], Q[k])
  BY <1>2, <1>3
<1> QED
  BY <1>4, <1>5, SoundCarries, Zenon DEF P, Q, new

\* new is what server n knows once it has applied entry i to what it knew, st.
AppliedTo(n, st, op, i, rec, new) == new = ApplyEntry(n, st, op, i, rec)

\* An entry that does not make Apply panic keeps a running server in accord
\* with the log; recovery aside.
LEMMA LiveEntry ==
    ASSUME NEW L, LogOK(L), NEW n \in Server, NEW st, NEW a \in Nat, NEW r0 \in Int, NEW b \in BOOLEAN,
           Live(L, n, st, a, r0, b), a < Len(L), NEW i, NEW op, EntryAt(L, a, i, op),
           ~Panics(st, op, i), NEW rec \in BOOLEAN, NEW new, AppliedTo(n, st, op, i, rec, new)
    PROVE  /\ ViewOK(new) /\ Sound(L, Parts(new), i)
           /\ EntryStep(n, Parts(st), Parts(new), op, i, rec)
           /\ \A s \in Stream, p \in Partition :
                HasPartition(new, s, p) => LivePart(L, n, s, p, new[s][p], i, b)
<1> DEFINE P == Parts(st)
           Q == Parts(new)
<1>1. op \in Entries /\ i \in Nat /\ ViewOK(st) /\ Sound(L, P, a)
  BY EntryFacts, Zenon DEF Live
<1>2. ViewOK(new) /\ EntryStep(n, P, Q, op, i, rec)
  BY <1>1, ApplyStep, Zenon DEF AppliedTo
<1>3. /\ \A s, p : <<s, p>> \in DOMAIN P <=> HasPartition(st, s, p)
      /\ \A s, p : HasPartition(st, s, p) => P[<<s, p>>] = st[s][p]
      /\ \A s, p : <<s, p>> \in DOMAIN Q <=> HasPartition(new, s, p)
      /\ \A s, p : HasPartition(new, s, p) => Q[<<s, p>>] = new[s][p]
  BY PartsOfView
<1> HIDE DEF P, Q
<1>4. ASSUME NEW s \in Stream, NEW p \in Partition, <<s, p>> \in DOMAIN P
      PROVE  LivePart(L, n, s, p, P[<<s, p>>], a, b)
  BY <1>3, <1>4 DEF Live
<1>5. ASSUME NEW s \in Stream, NEW p \in Partition, <<s, p>> \in DOMAIN P, P[<<s, p>>].paused
      PROVE  \E d \in 1 .. a : Pauses(L, d, s)
  BY <1>4, <1>5, Zenon DEF LivePart
<1>6. Sound(L, Q, i)
  BY <1>1, <1>2, <1>5, SoundStep, Zenon
<1>7. ASSUME NEW s \in Stream, NEW p \in Partition, <<s, p>> \in DOMAIN Q
      PROVE  LivePart(L, n, s, p, Q[<<s, p>>], i, b)
  <2>1. PartStep(n, P, Q[<<s, p>>], s, p, op, i, rec)
    BY <1>2, <1>7, Zenon DEF EntryStep
  <2>2. RecordOf(P, s, p, <<s, p>>, P[<<s, p>>])
    BY Zenon DEF RecordOf
  <2> QED
    <3>1. <<s, p>> \in DOMAIN P => LivePart(L, n, s, p, P[<<s, p>>], a, b)
      BY <1>4, Zenon
    <3> QED
      BY <1>1, <2>1, <2>2, <3>1, LivePartStep, Zenon
<1> QED
  BY <1>2, <1>3, <1>6, <1>7, Zenon DEF P, Q

\* What follows from a step of a partition for its recovery.
LEMMA RecoversStep ==
    ASSUME NEW n, NEW P, NEW y, NEW s, NEW p, NEW op, NEW i, NEW rec, NEW k, NEW x,
           PartStep(n, P, y, s, p, op, i, rec), RecordOf(P, s, p, k, x),
           k \in DOMAIN P => x \in ListedRecord, op \in Entries, i \in Nat, rec \in BOOLEAN
    PROVE  \/ /\ y.obj = i /\ y.recovered = rec /\ ~y.paused
              /\ IsCreate(op, s, p) /\ y.epoch = i /\ (k \in DOMAIN P => x.paused)
           \/ /\ k \in DOMAIN P /\ y.obj = x.obj /\ y.recovered = x.recovered
              /\ x.paused => y.paused /\ ~IsCreate(op, s, p)
              /\ IsPause(P, op, s, p) => y.paused
              /\ x.epoch <= y.epoch
<1>1. k = <<s, p>> /\ x = P[k]
  BY Zenon DEF RecordOf
<1>2. CASE /\ k \in DOMAIN P /\ y = x /\ ~IsPause(P, op, s, p)
           /\ IsCreate(op, s, p) => ~x.paused
  BY <1>2 DEF ListedRecord
<1>3. CASE /\ IsCreate(op, s, p) /\ (k \in DOMAIN P => x.paused)
           /\ y = SetLeader(n, NewPartition(op.leader, op.replicas, i, i, rec), op.leader, i)
  <2> DEFINE new == NewPartition(op.leader, op.replicas, i, i, rec)
  <2>1. op.leader \in Server /\ op.replicas \in SUBSET Server
    BY <1>3, Zenon DEF IsCreate, Entries
  <2>2. /\ new \in ListedRecord /\ new.obj = i /\ new.leader = op.leader /\ new.leaderEpoch = i
        /\ ~new.paused /\ new.runs = "no" /\ new.recovered = rec /\ new.epoch = i
    BY <2>1 DEF NewPartition, ListedRecord
  <2>3. y = SetLeader(n, new, new.leader, new.leaderEpoch)
    BY <1>3, <2>2, Zenon
  <2> HIDE DEF new
  <2> QED
    BY <1>3, <2>2, <2>3, CreatedRecord
<1>4. CASE IsPause(P, op, s, p) /\ k \in DOMAIN P /\ y = Pause(x)
  <2>1. ~IsCreate(op, s, p)
    BY <1>4, Zenon DEF IsCreate, IsPause
  <2>2. /\ y.obj = x.obj /\ y.paused /\ y.recovered = x.recovered /\ y.epoch = x.epoch
        /\ x.epoch \in Nat
    BY <1>4, PausedRecord, Zenon DEF ListedRecord
  <2> QED
    BY <1>4, <2>1, <2>2
<1>5. CASE IsChange(op, s, p) /\ k \in DOMAIN P /\ ChangedTo(n, x, op, i, y) /\ ~(x.epoch >= i)
  <2>1. ~IsCreate(op, s, p) /\ ~IsPause(P, op, s, p) /\ op.type \in {"shrink", "expand", "elect"}
    BY <1>5, Zenon DEF IsCreate, IsPause, IsChange
  <2>2. x \in ListedRecord /\ x.epoch \in Nat
    BY <1>5, Zenon DEF ListedRecord
  <2>3. y.obj = x.obj /\ y.epoch = i /\ y.paused = x.paused /\ y.recovered = x.recovered
    BY <1>5, <2>1, <2>2, ChangedRecord
  <2> QED
    BY <1>5, <2>1, <2>2, <2>3
<1> QED
  BY <1>1, <1>2, <1>3, <1>4, <1>5, Zenon DEF PartStep, ChangedTo

\* A partition object that an entry did not create was there before.
LEMMA SameObject ==
    ASSUME NEW n, NEW P, NEW y, NEW s, NEW p, NEW op, NEW i, NEW rec, NEW k, NEW x,
           PartStep(n, P, y, s, p, op, i, rec), RecordOf(P, s, p, k, x),
           k \in DOMAIN P => x \in ListedRecord, op \in Entries, i \in Nat, rec \in BOOLEAN,
           y.obj # i
    PROVE  /\ k \in DOMAIN P /\ y.obj = x.obj
           /\ x.paused => y.paused /\ ~IsCreate(op, s, p)
           /\ IsPause(P, op, s, p) => y.paused
  BY RecoversStep

\* The flag of a recovered partition is the one of the entry that made its object.
LEMMA RecoveredFlag ==
    ASSUME NEW n, NEW P, NEW y, NEW s, NEW p, NEW op, NEW i, NEW rec, NEW k, NEW x,
           PartStep(n, P, y, s, p, op, i, rec), RecordOf(P, s, p, k, x),
           k \in DOMAIN P => x \in ListedRecord, op \in Entries, i \in Nat, rec \in BOOLEAN
    PROVE  \/ y.recovered = rec
           \/ k \in DOMAIN P /\ y.recovered = x.recovered /\ (x.paused => y.paused)
  BY RecoversStep

\* Entry i is applied to st, and recovery ends at r.
Entered(n, st, op, i, r, rec, new, st2, r2) ==
    /\ rec \in BOOLEAN /\ (rec <=> i <= r)
    /\ new = ApplyEntry(n, st, op, i, rec)
    /\ st2 = IF i = r THEN FinishedRecovery(n, new) ELSE new
    /\ r2 = IF i < r THEN r ELSE 0

\* The next entry is applied; r is where the recovery ends.
LEMMA LiveApply ==
    ASSUME NEW L, NEW n, NEW st, NEW a, NEW r0, NEW b, NEW i, NEW op, NEW r, NEW rec, NEW new,
           NEW st2, NEW r2, Entered(n, st, op, i, r, rec, new, st2, r2),
           Live(L, n, st, a, r0, b), EntryAt(L, a, i, op), LogOK(L), n \in Server, a \in Nat,
           r0 \in Int, b \in BOOLEAN, a < Len(L), ~Panics(st, op, i), r \in Int,
           r0 # -1 => r = r0
    PROVE  Live(L, n, st2, i, r2, b)
<1>0. /\ rec \in BOOLEAN /\ (rec <=> i <= r)
      /\ AppliedTo(n, st, op, i, rec, new)
  BY Zenon DEF Entered, AppliedTo
<1> DEFINE P == Parts(st)
           Q == Parts(new)
<1>1. op \in Entries /\ i \in Nat /\ i = a + 1
  BY EntryFacts, Zenon
<1>2. /\ ViewOK(new) /\ Sound(L, Q, i)
      /\ EntryStep(n, P, Q, op, i, rec)
      /\ \A s \in Stream, p \in Partition :
           HasPartition(new, s, p) => LivePart(L, n, s, p, new[s][p], i, b)
  BY <1>0, LiveEntry, Zenon
<1>3. /\ \A s, p : <<s, p>> \in DOMAIN P <=> HasPartition(st, s, p)
      /\ \A s, p : HasPartition(st, s, p) => P[<<s, p>>] = st[s][p]
      /\ \A s, p : <<s, p>> \in DOMAIN Q <=> HasPartition(new, s, p)
      /\ \A s, p : HasPartition(new, s, p) => Q[<<s, p>>] = new[s][p]
  BY PartsOfView, Zenon
<1> HIDE DEF P, Q
\* Whether a partition is recovered before the recovery may be finished.
<1>4. ASSUME NEW s \in Stream, NEW p \in Partition, HasPartition(new, s, p)
      PROVE  /\ new[s][p].recovered /\ ~new[s][p].paused => r >= i
             /\ r >= i /\ ~b => new[s][p].recovered
  <2> DEFINE y == new[s][p]
             x == P[<<s, p>>]
  <2>1. PartStep(n, P, y, s, p, op, i, rec)
    BY <1>2, <1>3, <1>4, Zenon DEF EntryStep
  <2>2. RecordOf(P, s, p, <<s, p>>, x)
    BY Zenon DEF RecordOf
  <2>3. <<s, p>> \in DOMAIN P =>
           x \in ListedRecord /\ Recovers(x, a, r0, b) /\ ~(r0 = -1 /\ ~b)
    <3> SUFFICES ASSUME <<s, p>> \in DOMAIN P
                 PROVE  x \in ListedRecord /\ Recovers(x, a, r0, b) /\ ~(r0 = -1 /\ ~b)
      BY Zenon
    <3>1. HasPartition(st, s, p) /\ x = st[s][p]
      BY <1>3, Zenon
    <3>2. Sound(L, P, a) /\ Recovers(x, a, r0, b) /\ (r0 = -1 /\ ~b => DOMAIN st = {})
      BY <3>1, Zenon DEF Live, P
    <3> QED
      BY <3>1, <3>2, Zenon DEF Sound, HasPartition
  <2> HIDE DEF x, y
  <2>4. \/ y.recovered = rec
        \/ <<s, p>> \in DOMAIN P /\ y.recovered = x.recovered /\ (x.paused => y.paused)
    <3>0. op \in Entries /\ i \in Nat /\ rec \in BOOLEAN
      BY <1>0, <1>1, Zenon
    <3>1. <<s, p>> \in DOMAIN P => x \in ListedRecord
      BY <2>3, Zenon
    <3> QED
      BY <2>1, <2>2, <3>0, <3>1, RecoveredFlag, Zenon
  <2>5. (y.recovered /\ ~y.paused => r >= i) /\ (r >= i /\ ~b => y.recovered)
    <3>1. CASE y.recovered = rec
      BY <1>0, <1>1, <3>1, Zenon
    <3>2. CASE <<s, p>> \in DOMAIN P /\ y.recovered = x.recovered /\ (x.paused => y.paused)
      <4>1. Recovers(x, a, r0, b) /\ (r0 = -1 => b)
        BY <2>3, <3>2, Zenon
      <4>2. CASE r0 = -1
        BY <1>1, <3>2, <4>1, <4>2 DEF Recovers
      <4>3. CASE r0 # -1
        BY <1>1, <3>2, <4>1, <4>3 DEF Recovers
      <4> QED
        BY <4>2, <4>3, Zenon
    <3> QED
      BY <2>4, <3>1, <3>2, Zenon
  <2> QED
    BY <2>5, Zenon DEF y
<1>5. CASE i # r
  <2>1. st2 = new /\ (i < r => r2 = r) /\ (~(i < r) => r2 = 0)
    BY <1>5, Zenon DEF Entered
  <2>2. ASSUME NEW s \in Stream, NEW p \in Partition, HasPartition(new, s, p)
        PROVE  Recovers(new[s][p], i, r2, b)
    BY <1>1, <1>4, <1>5, <2>1, <2>2 DEF Recovers
  <2>3. r2 # -1
    BY <1>1, <2>1
  <2> QED
    BY <1>2, <2>1, <2>2, <2>3, Zenon DEF Live, Q
<1>6. CASE i = r
  <2>1. st2 = FinishedRecovery(n, new) /\ r2 = 0
    BY <1>1, <1>6 DEF Entered
  <2>2. /\ ViewOK(st2)
        /\ \A s, p : HasPartition(st2, s, p) <=> HasPartition(new, s, p)
        /\ \A s, p : HasPartition(new, s, p) => st2[s][p] = StartRecovered(n, new[s][p])
    BY <1>2, <2>1, FinishedView
  <2>3. Sound(L, Parts(st2), i)
    BY <1>2, <2>1, FinishedSound, Zenon DEF Q
  <2>4. ASSUME NEW s \in Stream, NEW p \in Partition, HasPartition(st2, s, p)
        PROVE  LivePart(L, n, s, p, st2[s][p], i, b) /\ Recovers(st2[s][p], i, r2, b)
    <3> DEFINE x == new[s][p]
    <3>1. HasPartition(new, s, p) /\ st2[s][p] = StartRecovered(n, x)
      BY <2>2, <2>4, Zenon
    <3>2. LivePart(L, n, s, p, x, i, b) /\ x \in ListedRecord /\ QuietOK(L, s, p, x)
      BY <1>2, <1>3, <3>1, Zenon DEF Sound, PartOK
    <3> HIDE DEF x
    <3>3. /\ LivePart(L, n, s, p, StartRecovered(n, x), i, b)
          /\ StartRecovered(n, x).recovered => StartRecovered(n, x).paused
      BY <3>2, LivePartStarted, StartedRecord
    <3> QED
      BY <1>1, <2>1, <3>1, <3>3 DEF Recovers
  <2> QED
    BY <2>1, <2>2, <2>3, <2>4 DEF Live
<1> QED
  BY <1>5, <1>6, Zenon

-----------------------------------------------------------------------------
\* Restored snapshots.

\* The partition that Restore makes from a record of a snapshot.
LEMMA RestoredRecord ==
    ASSUME NEW n, NEW x, x \in ListedRecord, NEW y, y = RestoredPartition(n, x)
    PROVE  /\ y \in ListedRecord /\ y.obj = 0 /\ ~y.paused /\ ~y.recovered
           /\ y.leader = x.leader /\ y.leaderEpoch = x.leaderEpoch /\ y.epoch = x.epoch
           /\ y.assigned = x.assigned /\ y.replicas = x.assigned /\ y.isr = x.assigned
           /\ y.runs = Role(n, y, "no")
<1> DEFINE old == NewPartition(x.leader, x.assigned, x.epoch, x.leaderEpoch, FALSE)
           new == [old EXCEPT !.obj = 0]
<1>1. /\ x.leader \in Server /\ x.assigned \in SUBSET Server
      /\ x.epoch \in Nat /\ x.leaderEpoch \in Nat
  BY Zenon DEF ListedRecord
<1>2. /\ new \in ListedRecord /\ new.obj = 0 /\ new.leader = x.leader
      /\ new.leaderEpoch = x.leaderEpoch /\ new.epoch = x.epoch /\ new.assigned = x.assigned
      /\ new.replicas = x.assigned /\ new.isr = x.assigned /\ ~new.paused /\ ~new.recovered
      /\ new.runs = "no"
  <2>1. /\ old \in ListedRecord /\ old.leader = x.leader /\ old.runs = "no"
        /\ old.leaderEpoch = x.leaderEpoch /\ old.epoch = x.epoch /\ old.assigned = x.assigned
        /\ old.replicas = x.assigned /\ old.isr = x.assigned /\ ~old.paused /\ ~old.recovered
    BY <1>1 DEF NewPartition, ListedRecord
  <2> HIDE DEF old
  <2> QED
    BY <2>1 DEF ListedRecord
<1>3. y = SetLeader(n, new, new.leader, new.leaderEpoch)
  BY <1>2, Zenon DEF RestoredPartition
<1> HIDE DEF new
<1>4. /\ y \in ListedRecord /\ y.obj = new.obj /\ y.leader = new.leader
      /\ y.leaderEpoch = new.leaderEpoch /\ y.epoch = new.epoch
      /\ y.replicas = new.replicas /\ y.assigned = new.assigned /\ y.isr = new.isr
      /\ y.paused = new.paused /\ y.recovered = new.recovered
      /\ ~new.recovered => y.runs = Role(n, y, "no")
  <2>1. new \in ListedRecord /\ new.runs = "no"
    BY <1>2, Zenon
  <2> QED
    BY <1>3, <2>1, CreatedRecord
<1> QED
  BY <1>2, <1>4, Zenon

\* Restore makes the partitions of a snapshot and no others.
LEMMA RestoredView ==
    ASSUME NEW n, NEW parts, DOMAIN parts \subseteq Stream \X Partition
    PROVE  /\ ViewOK(Restored(n, parts))
           /\ \A s \in Stream, p \in Partition :
                /\ HasPartition(Restored(n, parts), s, p) <=> <<s, p>> \in DOMAIN parts
                /\ <<s, p>> \in DOMAIN parts =>
                     Restored(n, parts)[s][p] = RestoredPartition(n, parts[<<s, p>>])
           /\ DOMAIN parts = {} => DOMAIN Restored(n, parts) = {}
<1> DEFINE st == Restored(n, parts)
<1>1. /\ DOMAIN st = {k[1] : k \in DOMAIN parts}
      /\ \A s \in DOMAIN st :
           /\ DOMAIN st[s] = {q \in Partition : <<s, q>> \in DOMAIN parts}
           /\ \A p \in DOMAIN st[s] : st[s][p] = RestoredPartition(n, parts[<<s, p>>])
  BY Zenon DEF Restored
<1>2. ASSUME NEW s
      PROVE  s \in DOMAIN st <=> s \in Stream /\ \E p \in Partition : <<s, p>> \in DOMAIN parts
  <2>1. ASSUME s \in DOMAIN st PROVE s \in Stream /\ \E p \in Partition : <<s, p>> \in DOMAIN parts
    <3>1. PICK k \in DOMAIN parts : s = k[1]
      BY <1>1, <2>1, Zenon
    <3>2. k \in Stream \X Partition /\ k = <<k[1], k[2]>>
      BY <3>1
    <3> QED
      BY <3>1, <3>2, Zenon
  <2>2. ASSUME NEW p \in Partition, <<s, p>> \in DOMAIN parts PROVE s \in DOMAIN st
    <3>1. <<s, p>>[1] = s
      BY Zenon
    <3> QED
      BY <1>1, <2>2, <3>1, Zenon
  <2> QED
    BY <2>1, <2>2, Zenon
<1> HIDE DEF st
<1>3. ViewOK(st)
  BY <1>1, <1>2, Zenon DEF ViewOK
<1>4. \A s \in Stream, p \in Partition :
         /\ HasPartition(st, s, p) <=> <<s, p>> \in DOMAIN parts
         /\ <<s, p>> \in DOMAIN parts => st[s][p] = RestoredPartition(n, parts[<<s, p>>])
  BY <1>1, <1>2, Zenon DEF HasPartition
<1>5. DOMAIN parts = {} => DOMAIN st = {}
  BY <1>2, Zenon
<1> QED
  BY <1>3, <1>4, <1>5, Zenon DEF st

\* A server that has restored a snapshot is in accord with the log at the
\* index of the snapshot, although the snapshot may hold later changes.
LEMMA RestoredLive ==
    ASSUME NEW L, NEW n, NEW parts, NEW a, Sound(L, parts, a), NEW r \in Int, a \in Nat
    PROVE  Live(L, n, Restored(n, parts), a, r, TRUE)
<1> DEFINE st == Restored(n, parts)
           Q == Parts(st)
<1>1. DOMAIN parts \subseteq Stream \X Partition
  BY Zenon DEF Sound
<1>2. /\ ViewOK(st)
      /\ \A s \in Stream, p \in Partition :
           /\ HasPartition(st, s, p) <=> <<s, p>> \in DOMAIN parts
           /\ <<s, p>> \in DOMAIN parts => st[s][p] = RestoredPartition(n, parts[<<s, p>>])
  BY <1>1, RestoredView
<1>3. /\ \A s, p : <<s, p>> \in DOMAIN Q <=> HasPartition(st, s, p)
      /\ \A s, p : HasPartition(st, s, p) => Q[<<s, p>>] = st[s][p]
      /\ DOMAIN Q \subseteq Stream \X Partition
  BY <1>2, PartsOfView, Zenon
<1> HIDE DEF st, Q
<1>4. ASSUME NEW s \in Stream, NEW p \in Partition, <<s, p>> \in DOMAIN parts
      PROVE  /\ Q[<<s, p>>] \in ListedRecord /\ Carries(parts[<<s, p>>], Q[<<s, p>>])
             /\ LivePart(L, n, s, p, Q[<<s, p>>], a, TRUE)
             /\ Recovers(Q[<<s, p>>], a, r, TRUE)
  <2> DEFINE x == parts[<<s, p>>]
             y == Q[<<s, p>>]
  <2>1. y = RestoredPartition(n, x) /\ x \in ListedRecord /\ QuietOK(L, s, p, x)
    BY <1>2, <1>3, <1>4 DEF Sound, PartOK
  <2> HIDE DEF x, y
  <2>2. /\ y \in ListedRecord /\ y.obj = 0 /\ ~y.paused /\ ~y.recovered
        /\ y.leader = x.leader /\ y.leaderEpoch = x.leaderEpoch /\ y.epoch = x.epoch
        /\ y.assigned = x.assigned /\ y.replicas = x.assigned /\ y.isr = x.assigned
        /\ y.runs = Role(n, y, "no")
    BY <2>1, RestoredRecord
  <2>3. Carries(x, y)
    BY <2>2, Zenon DEF Carries
  <2>4. LivePart(L, n, s, p, y, a, TRUE)
    BY <2>1, <2>2 DEF LivePart, Role, QuietOK
  <2>5. Recovers(y, a, r, TRUE)
    BY <2>2, Zenon DEF Recovers
  <2> QED
    BY <2>2, <2>3, <2>4, <2>5, Zenon DEF x, y
<1>5. DOMAIN Q = DOMAIN parts
  BY <1>1, <1>2, <1>3
<1>6. ASSUME NEW k \in DOMAIN parts PROVE Q[k] \in ListedRecord /\ Carries(parts[k], Q[k])
  <2>1. PICK s \in Stream, p \in Partition : k = <<s, p>>
    BY <1>1
  <2> QED
    BY <1>4, <2>1, Zenon
<1>7. Sound(L, Q, a)
  BY <1>5, <1>6, SoundCarries, Zenon
<1>8. ASSUME NEW s \in Stream, NEW p \in Partition, HasPartition(st, s, p)
      PROVE  LivePart(L, n, s, p, st[s][p], a, TRUE) /\ Recovers(st[s][p], a, r, TRUE)
  <2>1. <<s, p>> \in DOMAIN parts /\ Q[<<s, p>>] = st[s][p]
    BY <1>2, <1>3, <1>8, Zenon
  <2>2. LivePart(L, n, s, p, Q[<<s, p>>], a, TRUE) /\ Recovers(Q[<<s, p>>], a, r, TRUE)
    BY <1>4, <2>1, Zenon
  <2> QED
    BY <2>1, <2>2, Zenon
<1>9. Live(L, n, st, a, r, TRUE)
  BY <1>2, <1>7, <1>8, Zenon DEF Live, Q
<1> QED
  BY <1>9, Zenon DEF st

-----------------------------------------------------------------------------
\* Snapshots in progress.

\* A snapshot at index j lists the partition objects in parts.  Those that are
\* still live after a entries were not replaced since: an entry after j that
\* paused one was not followed by one that created it again.
ListedOK(L, st, a, parts, j) ==
    \A s \in Stream, p \in Partition :
        <<s, p>> \in DOMAIN parts =>
            /\ parts[<<s, p>>].obj <= j
            /\ HasPartition(st, s, p) /\ st[s][p].obj = parts[<<s, p>>].obj =>
                 \A d \in j + 1 .. a :
                    PausesPartition(L, d, s, p) =>
                       st[s][p].paused /\ \A c \in d + 1 .. a : ~Creates(L, c, s, p)

Follow(parts, st) ==
    [k \in DOMAIN parts |->
       IF HasPartition(st, k[1], k[2]) /\ st[k[1]][k[2]].obj = parts[k].obj
       THEN st[k[1]][k[2]] ELSE parts[k]]

\* A record that later entries have changed is in accord with the log at the
\* index of its snapshot, too.
LEMMA PartOKListed ==
    ASSUME NEW L, NEW n, NEW s, NEW p, NEW x, NEW a \in Nat, NEW b, NEW j \in 0 .. a,
           x \in ListedRecord, PartOK(L, s, p, x, a), LivePart(L, n, s, p, x, a, b),
           \A d \in j + 1 .. a :
              PausesPartition(L, d, s, p) => x.paused /\ \A c \in d + 1 .. a : ~Creates(L, c, s, p)
    PROVE  PartOK(L, s, p, x, j)
<1>1. j \in Nat /\ \A c \in 1 .. j : c \in 1 .. a
  OBVIOUS
<1>2. EpochsOK(L, s, p, x, j)
  BY <1>1, Zenon DEF PartOK, EpochsOK
<1>3. Unreplaced(L, s, p, x, j)
  <2> SUFFICES ASSUME NEW c \in j + 1 .. x.epoch, NEW d \in j + 1 .. c - 1,
                      PausesPartition(L, d, s, p), Creates(L, c, s, p)
               PROVE  FALSE
    BY Zenon DEF Unreplaced
  <2>1. x.epoch \in Nat /\ c \in Nat /\ d \in Nat
    BY DEF ListedRecord
  <2>2. CASE d > a
    <3>1. c \in a + 1 .. x.epoch /\ d \in a + 1 .. c - 1
      BY <2>1, <2>2
    <3> QED
      BY <3>1, Zenon DEF PartOK, Unreplaced
  <2>3. CASE d <= a
    <3>1. d \in j + 1 .. a
      BY <2>1, <2>3
    <3>2. x.paused /\ \A e \in d + 1 .. a : ~Creates(L, e, s, p)
      BY <3>1, Zenon
    <3>3. c > a
      BY <2>1, <3>2
    <3>4. c \in a + 1 .. x.epoch
      BY <2>1, <3>3
    <3> QED
      BY <3>2, <3>4, Zenon DEF LivePart
  <2> QED
    BY <2>1, <2>2, <2>3
<1> QED
  BY <1>2, <1>3, Zenon DEF PartOK

\* A snapshot that is being written stays in accord with the log when it
\* follows the live records.
LEMMA ListedFollows ==
    ASSUME NEW L, NEW n, NEW st, NEW a \in Nat, NEW r, NEW b, Live(L, n, st, a, r, b),
           NEW parts, NEW j \in 0 .. a, Sound(L, parts, j), ListedOK(L, st, a, parts, j)
    PROVE  Sound(L, Follow(parts, st), j) /\ ListedOK(L, st, a, Follow(parts, st), j)
<1> DEFINE new == Follow(parts, st)
<1>1. /\ DOMAIN new = DOMAIN parts
      /\ \A s, p : <<s, p>> \in DOMAIN parts =>
           new[<<s, p>>] = IF HasPartition(st, s, p) /\ st[s][p].obj = parts[<<s, p>>].obj
                           THEN st[s][p] ELSE parts[<<s, p>>]
  BY Zenon DEF Follow
<1>2. /\ \A s, p : HasPartition(st, s, p) <=> <<s, p>> \in DOMAIN Parts(st)
      /\ \A s, p : HasPartition(st, s, p) => Parts(st)[<<s, p>>] = st[s][p]
  BY PartsOfView, Zenon
<1> HIDE DEF new
<1>3. ASSUME NEW s \in Stream, NEW p \in Partition, <<s, p>> \in DOMAIN parts
      PROVE  /\ new[<<s, p>>] \in ListedRecord /\ PartOK(L, s, p, new[<<s, p>>], j)
             /\ new[<<s, p>>].obj = parts[<<s, p>>].obj
  <2>1. CASE HasPartition(st, s, p) /\ st[s][p].obj = parts[<<s, p>>].obj
    <3> DEFINE x == st[s][p]
    <3>1. new[<<s, p>>] = x /\ x.obj = parts[<<s, p>>].obj
      BY <1>1, <1>3, <2>1, Zenon
    <3>2. x \in ListedRecord /\ PartOK(L, s, p, x, a) /\ LivePart(L, n, s, p, x, a, b)
      BY <1>2, <2>1, Zenon DEF Live, Sound
    <3>3. \A d \in j + 1 .. a :
             PausesPartition(L, d, s, p) => x.paused /\ \A c \in d + 1 .. a : ~Creates(L, c, s, p)
      BY <1>3, <2>1, Zenon DEF ListedOK
    <3> HIDE DEF x
    <3>4. PartOK(L, s, p, x, j)
      BY <3>2, <3>3, PartOKListed, Zenon
    <3> QED
      BY <3>1, <3>2, <3>4, Zenon
  <2>2. CASE ~(HasPartition(st, s, p) /\ st[s][p].obj = parts[<<s, p>>].obj)
    BY <1>1, <1>3, <2>2, Zenon DEF Sound
  <2> QED
    BY <2>1, <2>2, Zenon
<1>4. Sound(L, new, j)
  <2>1. Presence(L, new, j)
    BY <1>1, Zenon DEF Sound, Presence
  <2> QED
    BY <1>1, <1>3, <2>1, Zenon DEF Sound
<1>5. ListedOK(L, st, a, new, j)
  BY <1>1, <1>3 DEF ListedOK
<1> QED
  BY <1>4, <1>5, Zenon DEF new

\* The objects of new are those of st, paused or not as before.
KeepsObjects(st, new) ==
    \A s \in Stream, p \in Partition :
        HasPartition(new, s, p) =>
           /\ HasPartition(st, s, p)
           /\ new[s][p].obj = st[s][p].obj /\ new[s][p].paused = st[s][p].paused

\* It does when no object is replaced and nothing is resumed, too.
LEMMA ListedKeeps ==
    ASSUME NEW L, NEW st, NEW new, NEW a, NEW parts, NEW j, ListedOK(L, st, a, parts, j),
           KeepsObjects(st, new)
    PROVE  ListedOK(L, new, a, parts, j)
  BY Zenon DEF ListedOK, KeepsObjects

\* An entry that pauses a partition, or replaces it, leaves the records of a
\* snapshot that is being written in accord with the log.
LEMMA ListedApply ==
    ASSUME NEW L, LogOK(L), NEW n \in Server, NEW st, NEW a \in Nat, NEW r0 \in Int, NEW b \in BOOLEAN,
           Live(L, n, st, a, r0, b), a < Len(L), NEW i, NEW op, EntryAt(L, a, i, op),
           ~Panics(st, op, i), NEW rec \in BOOLEAN, NEW new, AppliedTo(n, st, op, i, rec, new),
           NEW parts, NEW j \in 0 .. a, Sound(L, parts, j), ListedOK(L, st, a, parts, j)
    PROVE  ListedOK(L, new, i, parts, j)
<1> DEFINE P == Parts(st)
           Q == Parts(new)
<1>0. j \in Nat
  OBVIOUS
<1>1. op \in Entries /\ i \in Nat /\ i = a + 1 /\ op = L[i] /\ i \in 1 .. Len(L) /\ j \in Nat
  BY <1>0, EntryFacts, Zenon
<1>2. EntryStep(n, P, Q, op, i, rec)
  BY LiveEntry, Zenon
<1>3. /\ \A s, p : <<s, p>> \in DOMAIN P <=> HasPartition(st, s, p)
      /\ \A s, p : HasPartition(st, s, p) => P[<<s, p>>] = st[s][p]
      /\ \A s, p : <<s, p>> \in DOMAIN Q <=> HasPartition(new, s, p)
      /\ \A s, p : HasPartition(new, s, p) => Q[<<s, p>>] = new[s][p]
  BY PartsOfView
<1>4. Sound(L, P, a)
  BY Zenon DEF Live
<1> HIDE DEF P, Q
<1> SUFFICES ASSUME NEW s \in Stream, NEW p \in Partition, <<s, p>> \in DOMAIN parts,
                    HasPartition(new, s, p), new[s][p].obj = parts[<<s, p>>].obj,
                    NEW d \in j + 1 .. i, PausesPartition(L, d, s, p)
             PROVE  new[s][p].paused /\ \A c \in d + 1 .. i : ~Creates(L, c, s, p)
  BY Zenon DEF ListedOK
<1> DEFINE x == P[<<s, p>>]
           y == new[s][p]
<1>5. PartStep(n, P, y, s, p, op, i, rec)
  BY <1>2, <1>3, Zenon DEF EntryStep
<1>6. RecordOf(P, s, p, <<s, p>>, x)
  BY Zenon DEF RecordOf
<1>7. <<s, p>> \in DOMAIN P => x \in ListedRecord
  BY <1>4, Zenon DEF Sound
<1>8. y.obj <= j /\ parts[<<s, p>>].obj \in Int
  BY Zenon DEF ListedOK, Sound, ListedRecord
<1> HIDE DEF x, y
<1>9. /\ <<s, p>> \in DOMAIN P /\ y.obj = x.obj
      /\ x.paused => y.paused /\ ~IsCreate(op, s, p)
      /\ IsPause(P, op, s, p) => y.paused
  <2>1. op \in Entries /\ i \in Nat /\ rec \in BOOLEAN
    BY <1>1, Zenon
  <2>2. y.obj # i
    BY <1>1, <1>8
  <2> QED
    BY <1>5, <1>6, <1>7, <2>1, <2>2, SameObject, Zenon
<1>10. CASE d = i
  <2>1. IsPause(P, op, s, p)
    <3>1. /\ op.type = "pause" /\ op.stream = s /\ (op.partitions = {} \/ p \in op.partitions)
          /\ \A q \in op.partitions :
               \E c \in 1 .. a : Creates(L, c, s, q) /\ \A e \in c + 1 .. a : ~Deletes(L, e, s)
      BY <1>1, <1>10 DEF PausesPartition, Pauses
    <3>2. op.partitions \subseteq Partition
      BY <1>1, <3>1, Zenon DEF Entries
    <3> QED
      BY <1>4, <3>1, <3>2, Zenon DEF IsPause, Sound, Presence
  <2>2. \A c \in d + 1 .. i : ~Creates(L, c, s, p)
    BY <1>1, <1>10
  <2>3. y.paused
    BY <1>9, <2>1, Zenon
  <2>4. new[s][p].paused
    BY <2>3, Zenon DEF y
  <2> QED
    BY <2>2, <2>4, Zenon
<1>11. CASE d # i
  <2>1. d \in j + 1 .. a
    BY <1>1, <1>11
  <2>2. x.paused /\ \A c \in d + 1 .. a : ~Creates(L, c, s, p)
    <3>1. HasPartition(st, s, p) /\ st[s][p] = x /\ x.obj = parts[<<s, p>>].obj
      BY <1>3, <1>9, Zenon DEF x, y
    <3>2. \A e \in j + 1 .. a :
             PausesPartition(L, e, s, p) =>
                st[s][p].paused /\ \A c \in e + 1 .. a : ~Creates(L, c, s, p)
      BY <3>1, Zenon DEF ListedOK
    <3> QED
      BY <2>1, <3>1, <3>2, Zenon
  <2>3. ~Creates(L, i, s, p)
    BY <1>1, <1>9, <2>2, Zenon DEF Creates, IsCreate
  <2>4. \A c \in d + 1 .. i : c \in d + 1 .. a \/ c = i
    BY <1>1
  <2> QED
    BY <1>9, <2>2, <2>3, <2>4, Zenon DEF y
<1> QED
  BY <1>10, <1>11, Zenon

\* A snapshot that a server is about to write.
Writing(L, st, a, z) ==
    /\ DOMAIN z = {"index", "parts"} /\ z = [index |-> z.index, parts |-> z.parts]
    /\ z.index \in 0 .. a
    /\ Sound(L, z.parts, z.index)
    /\ ListedOK(L, st, a, z.parts, z.index)

\* A snapshot that is about to be written may take over what the live
\* partitions have become.
LEMMA WritingFollows ==
    ASSUME NEW L, NEW n, NEW st, NEW a \in Nat, NEW r, NEW b, Live(L, n, st, a, r, b),
           NEW z, Writing(L, st, a, z)
    PROVE  Writing(L, st, a, Listed(z, st))
<1>1. /\ DOMAIN Listed(z, st) = {"index", "parts"}
      /\ Listed(z, st).index = z.index /\ Listed(z, st).parts = Follow(z.parts, st)
      /\ Listed(z, st) = [index |-> z.index, parts |-> Follow(z.parts, st)]
  BY DEF Listed, Follow, Writing
<1>2. /\ Sound(L, Follow(z.parts, st), z.index)
      /\ ListedOK(L, st, a, Follow(z.parts, st), z.index)
  BY ListedFollows, Zenon DEF Writing
<1> QED
  BY <1>1, <1>2, Zenon DEF Writing

\* Snapshot takes down the partitions as they are.
LEMMA WritingStarts ==
    ASSUME NEW L, NEW n, NEW st, NEW a \in Nat, NEW r, NEW b, Live(L, n, st, a, r, b)
    PROVE  Writing(L, st, a, [index |-> a, parts |-> Parts(st)])
<1>1. /\ \A s, p : <<s, p>> \in DOMAIN Parts(st) <=> HasPartition(st, s, p)
      /\ \A s, p : HasPartition(st, s, p) => Parts(st)[<<s, p>>] = st[s][p]
  BY PartsOfView, Zenon
<1>2. a + 1 .. a = {}
  OBVIOUS
<1>3. ListedOK(L, st, a, Parts(st), a)
  <2>1. ASSUME NEW s \in Stream, NEW p \in Partition, <<s, p>> \in DOMAIN Parts(st)
        PROVE  Parts(st)[<<s, p>>].obj <= a
    <3>1. HasPartition(st, s, p) /\ Parts(st)[<<s, p>>] = st[s][p]
      BY <1>1, <2>1, Zenon
    <3>2. LivePart(L, n, s, p, st[s][p], a, b)
      BY <3>1, Zenon DEF Live
    <3>3. Parts(st)[<<s, p>>].obj \in 0 .. a
      BY <3>1, <3>2, Zenon DEF LivePart
    <3> QED
      BY <3>3
  <2> QED
    BY <1>2, <2>1, Zenon DEF ListedOK
<1> QED
  BY <1>3 DEF Writing, Live

\* Reset replaces the objects a snapshot lists, which keep what they were.
LEMMA WritingDetached ==
    ASSUME NEW L, NEW n, NEW st, NEW a \in Nat, NEW z, Writing(L, st, a, z),
           NEW parts, NEW i \in Nat, a <= i, Sound(L, parts, i)
    PROVE  Writing(L, Restored(n, parts), i, Detached(z))
<1> DEFINE new == [k \in DOMAIN z.parts |-> [z.parts[k] EXCEPT !.obj = -1]]
<1>1. /\ DOMAIN Detached(z) = {"index", "parts"}
      /\ Detached(z).index = z.index /\ Detached(z).parts = new
      /\ Detached(z) = [index |-> z.index, parts |-> new]
  BY DEF Detached, Writing
<1>2. /\ DOMAIN new = DOMAIN z.parts
      /\ \A k \in DOMAIN z.parts : new[k] = [z.parts[k] EXCEPT !.obj = -1]
  BY Zenon
<1> HIDE DEF new
<1>3. ASSUME NEW k \in DOMAIN z.parts
      PROVE  new[k] \in ListedRecord /\ Carries(z.parts[k], new[k]) /\ new[k].obj = -1
  <2> DEFINE x == z.parts[k]
             y == new[k]
  <2>1. PICK s \in Stream, p \in Partition : k = <<s, p>>
    BY DEF Writing, Sound
  <2>2. x \in ListedRecord /\ x.isr \subseteq x.replicas /\ y = [x EXCEPT !.obj = -1]
    BY <1>2, <2>1, Zenon DEF Writing, Sound, PartOK
  <2> HIDE DEF x, y
  <2>3. /\ y \in ListedRecord /\ y.obj = -1 /\ y.leader = x.leader /\ y.leaderEpoch = x.leaderEpoch
        /\ y.epoch = x.epoch /\ y.assigned = x.assigned /\ y.replicas = x.replicas
        /\ y.isr = x.isr /\ y.paused = x.paused
    BY <2>2 DEF ListedRecord
  <2>4. Carries(x, y)
    BY <2>2, <2>3, Zenon DEF Carries
  <2> QED
    BY <2>3, <2>4, Zenon DEF x, y
<1>4. Sound(L, new, z.index)
  BY <1>2, <1>3, SoundCarries, Zenon DEF Writing
<1>5. ListedOK(L, Restored(n, parts), i, new, z.index)
  <2> SUFFICES ASSUME NEW s \in Stream, NEW p \in Partition, <<s, p>> \in DOMAIN new
               PROVE  /\ new[<<s, p>>].obj <= z.index
                      /\ HasPartition(Restored(n, parts), s, p) =>
                            Restored(n, parts)[s][p].obj # new[<<s, p>>].obj
    BY Zenon DEF ListedOK
  <2>1. new[<<s, p>>].obj = -1 /\ z.index \in Nat
    BY <1>2, <1>3 DEF Writing
  <2>2. ASSUME HasPartition(Restored(n, parts), s, p)
        PROVE  Restored(n, parts)[s][p].obj = 0
    <3>1. /\ <<s, p>> \in DOMAIN parts
          /\ Restored(n, parts)[s][p] = RestoredPartition(n, parts[<<s, p>>])
      BY <2>2, RestoredView DEF Sound
    <3>2. parts[<<s, p>>] \in ListedRecord
      BY <3>1, Zenon DEF Sound
    <3> QED
      BY <3>1, <3>2, RestoredRecord
  <2> QED
    BY <2>1, <2>2
<1>6. z.index \in 0 .. i
  BY DEF Writing
<1> QED
  BY <1>1, <1>4, <1>5, <1>6, Zenon DEF Writing

\* The empty snapshot is in accord with every log.
LEMMA WritingNothing ==
    ASSUME NEW L, LogOK(L), NEW st, NEW a \in Nat
    PROVE  /\ Writing(L, st, a, NoSnapshot)
           /\ NoSnapshot.index = 0 /\ Sound(L, NoSnapshot.parts, 0) /\ DOMAIN NoSnapshot.parts = {}
<1>1. /\ DOMAIN NoSnapshot = {"index", "parts"} /\ NoSnapshot.index = 0
      /\ NoSnapshot.parts = <<>> /\ NoSnapshot = [index |-> 0, parts |-> <<>>]
  BY Zenon DEF NoSnapshot
<1>2. DOMAIN << >> = {}
  OBVIOUS
<1> DEFINE none == << >>
<1>3. DOMAIN none = {}
  BY <1>2, Zenon
<1> HIDE DEF none
<1>4. 0 \in 0 .. Len(L) /\ 0 \in 0 .. a /\ 1 .. 0 = {}
  BY DEF LogOK
<1>5. Presence(L, none, 0)
  BY <1>3, <1>4, Zenon DEF Presence
<1>6. Sound(L, none, 0) /\ ListedOK(L, st, a, none, 0)
  BY <1>3, <1>4, <1>5, Zenon DEF Sound, ListedOK
<1> QED
  BY <1>1, <1>3, <1>4, <1>6, Zenon DEF Writing, none

-----------------------------------------------------------------------------
\* A paused partition is given another assignment.

\* The assignment of a paused partition may be overwritten (resumeStream,
\* api.go).
LEMMA ResumedPart ==
    ASSUME NEW L, NEW n, NEW s, NEW p, NEW x, NEW y, NEW a \in Nat, NEW b, LogOK(L), a <= Len(L),
           x \in ListedRecord, PartOK(L, s, p, x, a), LivePart(L, n, s, p, x, a, b), x.paused,
           y \in ListedRecord,
           y.obj = x.obj /\ y.leaderEpoch = x.leaderEpoch /\ y.epoch = x.epoch,
           y.replicas = x.replicas /\ y.isr = x.isr /\ y.paused = x.paused,
           y.recovered = x.recovered /\ y.runs = x.runs
    PROVE  PartOK(L, s, p, y, a) /\ LivePart(L, n, s, p, y, a, b)
<1>1. LivePart(L, n, s, p, y, a, b)
  BY Zenon DEF LivePart
<1>2. PICK d \in 1 .. a : Pauses(L, d, s)
  BY Zenon DEF LivePart
<1>3. Len(L) \in Nat /\ d \in 1 .. Len(L)
  BY DEF LogOK
<1>4. ~Quiet(L, s) /\ Disturbed(L, Len(L), s)
  BY <1>2, <1>3, Zenon DEF Quiet, Disturbed
<1>5. ASSUME NEW c \in 1 .. Len(L), Changes(L, c, s, p), ~Disturbed(L, c - 1, s)
      PROVE  c <= y.epoch
  <2>1. c <= d
    BY <1>2, <1>5 DEF Disturbed
  <2>2. c \in 1 .. a
    BY <2>1
  <2> QED
    BY <1>5, <2>2, Zenon DEF PartOK, EpochsOK
<1>6. ReplicasOK(L, s, p, y)
  BY <1>4, <1>5, Zenon DEF ReplicasOK
<1>7. QuietOK(L, s, p, y)
  BY <1>4, Zenon DEF QuietOK
<1>8. EpochsOK(L, s, p, y, a) /\ Unreplaced(L, s, p, y, a)
  BY Zenon DEF PartOK, EpochsOK, Unreplaced
<1> QED
  BY <1>1, <1>6, <1>7, <1>8, Zenon DEF PartOK

Reassigned(st, s, p, R, l, new) ==
    new = [st EXCEPT ![s][p].assigned = R, ![s][p].leader = l]

\* A server stays in accord with the log when it resumes a partition.
LEMMA ResumedLive ==
    ASSUME NEW L, NEW n, NEW st, NEW a, NEW r, NEW b, NEW s, NEW p, NEW R, NEW l, NEW new,
           Live(L, n, st, a, r, b), Reassigned(st, s, p, R, l, new), LogOK(L), a \in Nat,
           s \in Stream, p \in Partition, HasPartition(st, s, p), st[s][p].paused,
           R \in SUBSET Server, l \in Server
    PROVE  Live(L, n, new, a, r, b) /\ KeepsObjects(st, new)
<1> DEFINE P == Parts(st)
           Q == Parts(new)
           x == st[s][p]
           y == new[s][p]
<1>1. /\ \A t, q : <<t, q>> \in DOMAIN P <=> HasPartition(st, t, q)
      /\ \A t, q : HasPartition(st, t, q) => P[<<t, q>>] = st[t][q]
      /\ \A t, q : <<t, q>> \in DOMAIN Q <=> HasPartition(new, t, q)
      /\ \A t, q : HasPartition(new, t, q) => Q[<<t, q>>] = new[t][q]
  BY PartsOfView
<1>2. /\ DOMAIN new = DOMAIN st
      /\ \A t \in DOMAIN st : DOMAIN new[t] = DOMAIN st[t]
      /\ \A t \in DOMAIN st : \A q \in DOMAIN st[t] : t # s \/ q # p => new[t][q] = st[t][q]
      /\ y = [x EXCEPT !.assigned = R, !.leader = l]
  BY Zenon DEF HasPartition, Reassigned
<1>3. /\ ViewOK(new)
      /\ \A t, q : HasPartition(new, t, q) <=> HasPartition(st, t, q)
      /\ \A t, q : HasPartition(st, t, q) /\ (t # s \/ q # p) => new[t][q] = st[t][q]
  BY <1>2, Zenon DEF ViewOK, HasPartition, Live
<1>5a. DOMAIN Q \subseteq Stream \X Partition /\ DOMAIN P \subseteq Stream \X Partition
  BY <1>3, PartsOfView, Zenon DEF Live
<1>5b. Sound(L, P, a)
  BY Zenon DEF Live
<1>5c. LivePart(L, n, s, p, x, a, b) /\ Recovers(x, a, r, b)
  BY Zenon DEF Live
<1>5d. <<s, p>> \in DOMAIN P /\ P[<<s, p>>] = x
  BY <1>1, Zenon
<1> HIDE DEF P, Q, x, y
<1>4. x \in ListedRecord /\ PartOK(L, s, p, x, a) /\ LivePart(L, n, s, p, x, a, b) /\ a <= Len(L)
  <2>1. a <= Len(L)
    BY <1>5b DEF Sound, LogOK
  <2>2. x \in ListedRecord /\ PartOK(L, s, p, x, a)
    BY <1>5b, <1>5d, Zenon DEF Sound
  <2> QED
    BY <1>5c, <2>1, <2>2, Zenon
<1>5. Recovers(x, a, r, b)
  BY <1>5c, Zenon
<1>6. /\ y \in ListedRecord
      /\ y.obj = x.obj /\ y.leaderEpoch = x.leaderEpoch /\ y.epoch = x.epoch
      /\ y.replicas = x.replicas /\ y.isr = x.isr /\ y.paused = x.paused
      /\ y.recovered = x.recovered /\ y.runs = x.runs
  BY <1>2, <1>4, Zenon DEF ListedRecord
<1>7. PartOK(L, s, p, y, a) /\ LivePart(L, n, s, p, y, a, b)
  <2>1. x.paused
    BY Zenon DEF x
  <2> QED
    BY <1>4, <1>6, <2>1, ResumedPart, Zenon
<1>8. Recovers(y, a, r, b)
  BY <1>5, <1>6, Zenon DEF Recovers
<1>9. ASSUME NEW t \in Stream, NEW q \in Partition, HasPartition(new, t, q)
      PROVE  /\ new[t][q] \in ListedRecord /\ PartOK(L, t, q, new[t][q], a)
             /\ LivePart(L, n, t, q, new[t][q], a, b) /\ Recovers(new[t][q], a, r, b)
             /\ new[t][q].obj = st[t][q].obj /\ new[t][q].paused = st[t][q].paused
  <2>1. CASE t = s /\ q = p
    BY <2>1, <1>6, <1>7, <1>8, Zenon DEF x, y
  <2>2. CASE t # s \/ q # p
    <3>1. HasPartition(st, t, q) /\ new[t][q] = st[t][q] /\ P[<<t, q>>] = st[t][q]
      <4>1. HasPartition(st, t, q)
        BY <1>3, <1>9, Zenon
      <4> QED
        BY <2>2, <1>1, <1>3, <4>1, Zenon
    <3>2. st[t][q] \in ListedRecord /\ PartOK(L, t, q, st[t][q], a)
      BY <1>1, <1>5b, <3>1, Zenon DEF Sound
    <3>3. LivePart(L, n, t, q, st[t][q], a, b) /\ Recovers(st[t][q], a, r, b)
      BY <3>1, Zenon DEF Live
    <3> QED
      BY <3>1, <3>2, <3>3, Zenon
  <2> QED
    BY <2>1, <2>2, Zenon
<1>10. DOMAIN Q = DOMAIN P
  <2>1. ASSUME NEW t, NEW q PROVE <<t, q>> \in DOMAIN Q <=> <<t, q>> \in DOMAIN P
    BY <1>1, <1>3, Zenon
  <2>2. \A k \in Stream \X Partition : k \in DOMAIN Q <=> k \in DOMAIN P
    BY <2>1
  <2> QED
    BY <1>5a, <2>2, Zenon
<1>11. Sound(L, Q, a)
  <2>1. Presence(L, Q, a)
    BY <1>5b, <1>10, Zenon DEF Sound, Presence
  <2> QED
    <3>1. ASSUME NEW t \in Stream, NEW q \in Partition, <<t, q>> \in DOMAIN Q
          PROVE  Q[<<t, q>>] \in ListedRecord /\ PartOK(L, t, q, Q[<<t, q>>], a)
      <4>1. HasPartition(new, t, q) /\ Q[<<t, q>>] = new[t][q]
        BY <1>1, <3>1, Zenon
      <4> QED
        BY <1>9, <4>1, Zenon
    <3>2. a \in 0 .. Len(L)
      BY <1>5b, Zenon DEF Sound
    <3> QED
      BY <1>5a, <2>1, <3>1, <3>2, Zenon DEF Sound
<1>12. Live(L, n, new, a, r, b)
  BY <1>2, <1>3, <1>9, <1>11, Zenon DEF Live, Q
<1> QED
  BY <1>3, <1>9, <1>12, Zenon DEF KeepsObjects

=============================================================================
