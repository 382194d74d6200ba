-------------------------- MODULE LeaderEpochCache --------------------------
(***************************************************************************)
(* The leader epoch cache of a partition's commit log                      *)
(* (server/commitlog/leader_epoch_cache.go): a sequence of entries, each   *)
(* saying that the messages of leader epoch "epoch" begin at offset        *)
(* "start".  A replica that rejoins uses it to find the point at which its *)
(* log may differ from the leader's.                                       *)
(*                                                                         *)
(* The operators take a cache and return the new cache; every one of them  *)
(* also writes the whole cache to the checkpoint file (flush), so the file *)
(* always holds the value in memory.                                       *)
(***************************************************************************)
EXTENDS Integers, Sequences

EarliestOffset(c) == IF c = <<>> THEN -1 ELSE c[1].start
LatestOffset(c) == IF c = <<>> THEN -1 ELSE c[Len(c)].start
LatestEpoch(c) == IF c = <<>> THEN 0 ELSE c[Len(c)].epoch

\* assign: an entry that does not extend the last one is ignored.
Assign(c, e, o) ==
    IF e > LatestEpoch(c) /\ o >= LatestOffset(c)
    THEN Append(c, [epoch |-> e, start |-> o])
    ELSE c

\* findEpoch: sort.Search (a binary search, whose answer is only the first
\* match when the epochs are sorted) for an entry of epoch e or later; the
\* result is a 0-based index, Len(c) when there is none.
FindEpoch(c, e) ==
    LET search[lo \in 0..Len(c), hi \in 0..Len(c)] ==
            IF lo >= hi
            THEN lo
            ELSE LET mid == (lo + hi) \div 2
                 IN IF c[mid + 1].epoch >= e THEN search[lo, mid]
                                             ELSE search[mid + 1, hi]
    IN search[0, Len(c)]

\* LastOffsetForLeaderEpoch of the cache: where the first later epoch starts,
\* -1 when no later epoch is known.
StartAfterEpoch(c, e) ==
    LET i == FindEpoch(c, e + 1)
    IN IF i = Len(c) THEN -1 ELSE c[i + 1].start

Before(c, o) == SelectSeq(c, LAMBDA x : x.start < o)

\* ClearLatest: the log now ends before offset o.
ClearLatest(c, o) == IF o > LatestOffset(c) THEN c ELSE Before(c, o)

\* ClearEarliest: the log now begins at offset o.  The entries before o are
\* counted, and that many are dropped from the front; the last of them is
\* put back, at the end of the slice, when nothing left covers o.
ClearEarliest(c, o) ==
    LET removed == Before(c, o)
        rest == SubSeq(c, Len(removed) + 1, Len(c))
    IN IF EarliestOffset(c) >= o \/ removed = <<>>
       THEN c
       ELSE IF rest = <<>> \/ o < EarliestOffset(rest)
            THEN Append(rest, [epoch |-> removed[Len(removed)].epoch, start |-> o])
            ELSE rest

\* Rebase: the entries of the cache "from" that start at offset o or later
\* (again by sort.Search) are assigned to c, one after the other.
FindStart(c, o) ==
    LET search[lo \in 0..Len(c), hi \in 0..Len(c)] ==
            IF lo >= hi
            THEN lo
            ELSE LET mid == (lo + hi) \div 2
                 IN IF c[mid + 1].start >= o THEN search[lo, mid]
                                             ELSE search[mid + 1, hi]
    IN search[0, Len(c)]

Rebase(c, from, o) ==
    LET i == FindStart(from, o)
        added[j \in i..Len(from)] ==
            IF j = i THEN c ELSE Assign(added[j - 1], from[j].epoch, from[j].start)
    IN added[Len(from)]

\* readLeaderEpochOffsets fails on a file that names an epoch twice.
Readable(c) == \A i, j \in DOMAIN c : c[i].epoch = c[j].epoch => i = j
=============================================================================
