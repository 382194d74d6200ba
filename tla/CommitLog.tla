----------------------------- MODULE CommitLog -----------------------------
(***************************************************************************)
(* The commit log of one replica of a partition: server/commitlog.         *)
(*                                                                         *)
(* disk holds the segment files, by base offset; seg holds the segment     *)
(* objects of the running process, and a segment is named by its place in  *)
(* seg.  A message takes one unit of a segment's bytes, so a position in a *)
(* segment is a number of messages and the index of a segment is the       *)
(* sequence of its messages.  A message's timestamp is its offset: the     *)
(* clock never gives two messages the same one.                            *)
(*                                                                         *)
(* Two goroutines change the log: the appender (the partition's leader     *)
(* loop or its replication loop) and the cleaner (cleanerLoop).  They take *)
(* no common lock while they split the active segment, and Clean takes     *)
(* none while it deletes and compacts.                                     *)
(***************************************************************************)
EXTENDS LeaderEpochCache, SortSearch, SequencesExt, FiniteSetsExt, TLC

CONSTANTS
    Key,            \* the keys of messages
    KeyOf,          \* offset |-> the key of the message published there
    NoKey,          \* the key of a message that has none
    Readers,        \* the readers of the log
    SegmentSize,    \* MaxSegmentBytes: messages that fill a segment
    AgeRollers,     \* MaxSegmentAge: goroutines that may find a segment too old
    MaxLogMessages, \* Retention.Messages, 0 for no limit
    MaxLogBytes,    \* Retention.Bytes, 0 for no limit
    MaxLogAge,      \* Retention.Age: may segments outlive it?
    Compact,        \* is compaction on?
    Overlap,        \* what may overlap: see MaySplit and Truncate
    ExpireHW,       \* may retention take the segment of the high watermark?
    MaxOffset,      \* bound on the offsets
    MaxLag,         \* role |-> bound on the messages beyond the high watermark
    MaxCheckpoints, \* bound on the checkpoints of the high watermark
    MaxBatch,       \* bound on the messages of one append
    MaxCleans,      \* bound on the runs of the cleaner
    MaxTruncations, \* bound on the truncations
    MaxRestarts,    \* role |-> bound on the times the log is opened again
    MaxEvents       \* bound on cleans, checkpoints, truncations and restarts together

Role == {"leader", "follower"}

ASSUME CommitLogAssumption ==
    /\ NoKey \in Key
    /\ KeyOf \in [0 .. MaxOffset -> Key]
    /\ SegmentSize \in Nat \ {0}
    /\ AgeRollers \subseteq {"appender", "cleaner"}
    /\ MaxLogMessages \in Nat /\ MaxLogBytes \in Nat
    /\ MaxLogAge \in BOOLEAN /\ Compact \in BOOLEAN /\ ExpireHW \in BOOLEAN
    /\ Overlap \subseteq {"split", "truncate"}
    /\ MaxBatch \in Nat \ {0}
    /\ MaxLag \in [Role -> Nat] /\ MaxRestarts \in [Role -> Nat]

VARIABLES
    disk,       \* base offset |-> the messages of that segment's files
    hwFile,     \* the high watermark checkpoint file, -1 when there is none
    cache,      \* the leader epoch cache, and its file
    state,      \* the log is open, closed, crashed or deleted
    seg,        \* the segment objects created since the log was opened
    segs,       \* commitLog.segments
    active,     \* commitLog.vActiveSegment
    hw,         \* commitLog.hw
    hwWaiters,  \* commitLog.hwWaiters
    role,       \* does the partition lead or follow?
    epoch,      \* the leader epoch of the messages appended
    thr,        \* where each of the two goroutines is in its split and write
    clean,      \* what Clean has done so far
    count       \* how often each bounded step was taken

fileVars == <<disk, hwFile, cache>>
logVars == <<disk, hwFile, cache, state, seg, segs, active, hw, hwWaiters,
             role, epoch, thr, clean, count>>

Message == [off : Nat, key : Key, epoch : Nat]
Goroutine == {"appender", "cleaner"}
Other(t) == CHOOSE u \in Goroutine : u # t

-----------------------------------------------------------------------------
\* Segments.

NewSegment(b, ms) == [base |-> b, msgs |-> ms, sealed |-> FALSE,
                      closed |-> FALSE, replaced |-> FALSE, waiters |-> {}]

NextOffset(s) == IF s.msgs = <<>> THEN s.base ELSE Last(s.msgs).off + 1
FirstOffset(s) == IF s.msgs = <<>> THEN -1 ELSE s.msgs[1].off
Full(s) == Len(s.msgs) >= SegmentSize

\* Places are counted from 1; one past the end stands for "none".
FindEntry(s, o) == 1 + Search(Len(s.msgs), [i \in Nat |-> s.msgs[i + 1].off >= o])
\* Mutant: an entry after the timestamp.
FindEntryAfterTimestamp(s, t) == FindEntry(s, t + 1)
FindEntryByTimestamp(s, t) == FindEntry(s, t)
FindSegment(ss, o) == 1 + Search(Len(ss), [i \in Nat |-> NextOffset(seg[ss[i + 1]]) > o])
FindSegmentByBaseOffset(ss, o) == 1 + Search(Len(ss), [i \in Nat |-> seg[ss[i + 1]].base >= o])
Found(ss, i) == i <= Len(ss)

NewestOffset == NextOffset(seg[active]) - 1
OldestOffset == FirstOffset(seg[segs[1]])

\* Close, Replace and Delete of a segment; the files are found by their name.
Close(s) == [s EXCEPT !.closed = TRUE]
Replaced(s) == [s EXCEPT !.closed = TRUE, !.replaced = TRUE]
Removed(b) == [x \in DOMAIN disk \ {b} |-> disk[x]]
Written(b, ms) == [x \in DOMAIN disk \cup {b} |-> IF x = b THEN ms ELSE disk[x]]

\* The log as its files hold it.
Content == UNION {ToSet(disk[b]) : b \in DOMAIN disk}
EndOffset == IF disk = << >> THEN 0
             ELSE LET b == Max(DOMAIN disk) IN NextOffset([base |-> b, msgs |-> disk[b]])

-----------------------------------------------------------------------------
\* Opening and closing the log.

Idle == [pc |-> "idle", old |-> 0, new |-> 0, batch |-> <<>>]
NotCleaning == [pc |-> "idle", old |-> <<>>, todo |-> <<>>, kept |-> <<>>,
                hw |-> -1, latest |-> << >>, cache |-> <<>>, compacted |-> FALSE]
Quiet == clean.pc = "idle" /\ \A t \in Goroutine : thr[t].pc \in {"idle", "ready"}

Bases(d) == SetToSortSeq(DOMAIN d, <)
\* The last segment becomes active.  Mutant: the one before it.
LastButOne(b) == Len(b) - 1
LastOf(b) == Len(b)

\* New: a segment for every log file, in the order of the base offsets; the
\* last one becomes active.  What the epoch cache says of offsets that the
\* log does not have is removed.
Open(d) ==
    LET b == Bases(d)
        opened == [i \in DOMAIN b |-> NewSegment(b[i], d[b[i]])]
    IN  /\ disk' = d
        /\ seg' = opened
        /\ segs' = [i \in DOMAIN b |-> i]
        /\ active' = LastOf(b)
        /\ cache' = ClearEarliest(ClearLatest(cache, NextOffset(Last(opened))),
                                  FirstOffset(opened[1]))

Init ==
    /\ disk = 0 :> <<>>
    /\ hwFile = -1
    /\ cache = <<>>
    /\ state = "open"
    /\ seg = <<NewSegment(0, <<>>)>>
    /\ segs = <<1>>
    /\ active = 1
    /\ hw = -1
    /\ hwWaiters = {}
    /\ role \in Role
    /\ epoch = IF role = "leader" THEN 0 ELSE 1
    /\ thr = [t \in Goroutine |-> Idle]
    /\ clean = NotCleaning
    /\ count = [cleans |-> 0, truncations |-> 0, checkpoints |-> 0, restarts |-> 0]

\* The process, or at least the commitLog object, is gone.
Gone(how) ==
    /\ state' = how
    /\ seg' = <<>> /\ segs' = <<>> /\ active' = 0
    /\ hw' = -1 /\ hwWaiters' = {}
    /\ thr' = [t \in Goroutine |-> Idle]
    /\ clean' = NotCleaning
    /\ UNCHANGED <<role, epoch, count>>

Crash == state = "open" /\ Gone("crashed") /\ UNCHANGED fileVars

\* Close checkpoints the high watermark and closes the segments.  It is
\* taken between splits and cleans.
CloseLog == state = "open" /\ Quiet /\ Gone("closed") /\ hwFile' = hw /\ UNCHANGED <<disk, cache>>

DeleteLog ==
    /\ state = "open" /\ Quiet
    /\ Gone("deleted")
    /\ disk' = << >> /\ hwFile' = -1 /\ cache' = <<>>

EventsLeft ==
    count.cleans + count.truncations + count.checkpoints + count.restarts < MaxEvents

\* A new process, a partition resumed after a pause, or a stream created
\* again under its old name.  An epoch file that names an epoch twice cannot
\* be read, and then the log does not open.
Reopen ==
    /\ state # "open"
    /\ count.restarts < MaxRestarts[role] /\ EventsLeft
    /\ Readable(cache)
    /\ Open(IF disk = << >> THEN 0 :> <<>> ELSE disk)
    /\ state' = "open"
    /\ hw' = hwFile
    /\ count' = [count EXCEPT !.restarts = @ + 1]
    /\ UNCHANGED <<hwFile, hwWaiters, role, epoch, thr, clean>>

-----------------------------------------------------------------------------
\* checkAndPerformSplit, by the appender before every write and by the
\* cleaner at every tick.

\* Unless "split" is in Overlap, a goroutine that splits the segment is not
\* overtaken by the other one.
MaySplit(t) ==
    /\ state = "open"
    /\ thr[t].pc = "idle"
    /\ t = "cleaner" => clean.pc = "idle" /\ count.cleans < MaxCleans /\ EventsLeft
    /\ t = "appender" => NextOffset(seg[active]) <= MaxOffset + 1
    /\ "split" \in Overlap \/ thr[Other(t)].pc \notin {"opened", "swapped"}

logRest == <<hwFile, cache, state, hw, hwWaiters, role, epoch, clean, count>>

\* CheckSplit says no, or the appender has just split.  What happens between
\* that answer and the next read of the active segment makes no difference.
PastSplit(t) == thr[t].pc = "ready" \/ (MaySplit(t) /\ ~Full(seg[active]))

\* CheckSplit says yes, and newSegment creates the file.  When the file is
\* there already the loop starts over, and the active segment with it.
OpenSegment(t) ==
    LET old == seg[active]
        b == NextOffset(old)
    IN  /\ MaySplit(t)
        /\ Full(old) \/ (t \in AgeRollers /\ old.msgs # <<>>)
        /\ b \notin DOMAIN disk
        /\ disk' = Written(b, <<>>)
        /\ seg' = Append(seg, NewSegment(b, <<>>))
        /\ thr' = [thr EXCEPT ![t].pc = "opened", ![t].old = active,
                              ![t].new = Len(seg) + 1]
        /\ UNCHANGED <<segs, active, logRest>>

\* The compare-and-swap of vActiveSegment, and Delete of the new segment
\* when the other goroutine was first.
SwapActive(t) ==
    /\ thr[t].pc = "opened"
    /\ IF active = thr[t].old
       THEN /\ active' = thr[t].new
            /\ thr' = [thr EXCEPT ![t].pc = "swapped"]
            /\ UNCHANGED <<disk, seg>>
       ELSE /\ disk' = Removed(seg[thr[t].new].base)
            /\ seg' = [seg EXCEPT ![thr[t].new] = Close(@)]
            /\ thr' = [thr EXCEPT ![t] = Idle]
            /\ UNCHANGED active
    /\ UNCHANGED <<segs, logRest>>

\* The new segment joins the read path, and Seal wakes the readers that wait
\* for data in the old one.  The cleaner does not clean after a split.
PublishSegment(t) ==
    /\ thr[t].pc = "swapped"
    /\ segs' = Append(segs, thr[t].new)
    /\ seg' = [seg EXCEPT ![thr[t].old].sealed = TRUE, ![thr[t].old].waiters = {}]
    /\ thr' = [thr EXCEPT ![t] = [Idle EXCEPT !.pc = IF t = "appender" THEN "ready" ELSE "idle"]]
    /\ UNCHANGED <<disk, active, logRest>>

-----------------------------------------------------------------------------
\* Appends.

\* Append reads the active segment and gives the messages its next offsets.
\* AppendMessageSet writes the offsets of the leader's log, which has lost
\* the one in between to compaction.
Prepare(n, skip) ==
    LET o == NextOffset(seg[active]) + skip
    IN  /\ PastSplit("appender")
        /\ o + n - 1 <= MaxOffset
        /\ o + n - 1 - hw <= MaxLag[role]
        /\ "split" \in Overlap \/ thr["cleaner"].pc \notin {"opened", "swapped"}
        /\ thr' = [thr EXCEPT !["appender"] =
                      [pc |-> "write", old |-> active, new |-> 0,
                       batch |-> [i \in 1 .. n |->
                           [off |-> o + i - 1, key |-> KeyOf[o + i - 1], epoch |-> epoch]]]]
        /\ UNCHANGED <<disk, seg, segs, active, logRest>>

AppendMessages(n) == role = "leader" /\ epoch = 1 + count.restarts /\ Prepare(n, 0)
AppendMessageSet(n, skip) == role = "follower" /\ Prepare(n, skip)

\* append: WriteMessageSet, which fails on a closed segment and wakes the
\* readers that wait for data, and Assign for a message of a new epoch.
Write ==
    LET me == thr["appender"]
        s == seg[me.old]
        ms == s.msgs \o me.batch
    IN  /\ me.pc = "write"
        /\ thr' = [thr EXCEPT !["appender"] = Idle]
        /\ IF s.closed
           THEN UNCHANGED <<disk, seg, cache>>
           ELSE /\ seg' = [seg EXCEPT ![me.old].msgs = ms, ![me.old].waiters = {}]
                /\ disk' = Written(s.base, ms)
                /\ cache' = Assign(cache, me.batch[1].epoch, me.batch[1].off)
        /\ UNCHANGED <<hwFile, state, segs, active, hw, hwWaiters, role, epoch, clean, count>>

\* NewLeaderEpoch, once each time the partition starts to lead; the epoch
\* starts at the newest offset, not after it.
NewLeaderEpoch ==
    /\ state = "open" /\ role = "leader"
    /\ epoch = count.restarts
    /\ thr["appender"].pc = "idle"
    /\ epoch' = epoch + 1
    /\ cache' = Assign(cache, epoch + 1, NewestOffset)
    /\ UNCHANGED <<disk, hwFile, state, seg, segs, active, hw, hwWaiters, role, thr, clean, count>>

\* A waiting reader is woken.  Mutant: it is not.
SetHighWatermarkSilently(h) ==
    /\ state = "open"
    /\ h > hw /\ \E m \in Content : m.off = h
    /\ hw' = h
    /\ UNCHANGED <<fileVars, state, seg, segs, active, hwWaiters, role, epoch, thr, clean, count>>
SetHighWatermark(h) ==
    /\ state = "open"
    /\ h > hw /\ \E m \in Content : m.off = h
    /\ hw' = h
    /\ hwWaiters' = {}
    /\ UNCHANGED <<fileVars, state, seg, segs, active, role, epoch, thr, clean, count>>

\* checkpointHWLoop.  The file is read when the log is opened again, and
\* makes no difference when that is out of bounds.
CheckpointHW ==
    /\ state = "open" /\ hwFile # hw
    /\ count.checkpoints < MaxCheckpoints /\ count.restarts < MaxRestarts[role] /\ EventsLeft
    /\ hwFile' = hw
    /\ count' = [count EXCEPT !.checkpoints = @ + 1]
    /\ UNCHANGED <<disk, cache, state, seg, segs, active, hw, hwWaiters, role, epoch, thr, clean>>

-----------------------------------------------------------------------------
\* Truncate: what follows offset o goes.  The segments after the one that
\* holds o are deleted, and so is that one when it begins at o and is not
\* the first; otherwise a copy of what precedes o replaces it.  Unless
\* "truncate" is in Overlap, the cleaner is not at work meanwhile.
Truncate(o) ==
    LET idx == FindSegment(segs, o)
        s == seg[segs[idx]]
        delete == s.base = o /\ idx # 1
        short == SelectSeq(s.msgs, LAMBDA m : m.off < o)
        gone == {seg[segs[i]].base : i \in idx .. Len(segs)}
        closed == [i \in DOMAIN seg |->
                      IF \E j \in idx .. Len(segs) : segs[j] = i THEN Close(seg[i]) ELSE seg[i]]
        rest == [b \in DOMAIN disk \ gone |-> disk[b]]
    IN  /\ state = "open" /\ role = "follower"
        /\ count.truncations < MaxTruncations /\ EventsLeft
        /\ thr["appender"].pc = "idle"
        /\ "truncate" \in Overlap \/ Quiet
        /\ Found(segs, idx)
        /\ IF delete
           THEN /\ disk' = rest
                /\ seg' = closed
                /\ segs' = SubSeq(segs, 1, idx - 1)
           ELSE /\ disk' = (s.base :> short) @@ rest
                /\ seg' = Append([closed EXCEPT ![segs[idx]] = Replaced(@)],
                                 NewSegment(s.base, short))
                /\ segs' = Append(SubSeq(segs, 1, idx - 1), Len(seg) + 1)
        /\ active' = Last(segs')
        /\ cache' = ClearLatest(cache, o)
        /\ count' = [count EXCEPT !.truncations = @ + 1]
        /\ UNCHANGED <<hwFile, state, hw, hwWaiters, role, epoch, thr, clean>>

-----------------------------------------------------------------------------
\* Clean, by the cleaner.

\* The limits of deleteCleaner, each on the segments the one before it left.
\* They count from the newest segment back.
Size(ss) == FoldLeft(LAMBDA n, i : n + Len(seg[i].msgs), 0, ss)
Newest(ss, n) == SubSeq(ss, Len(ss) - n + 1, Len(ss))
Oldest(ss, n) == SubSeq(ss, 1, Len(ss) - n)
Expirable(ss) == IF MaxLogAge THEN 0 .. Len(ss) - 1 ELSE {0}
WithinMessages(ss) ==
    IF MaxLogMessages = 0 \/ Len(ss) <= 1
    THEN Len(ss)
    ELSE Max({n \in 0 .. Len(ss) : Size(Newest(ss, n)) <= MaxLogMessages})
WithinBytes(ss) ==
    IF MaxLogBytes = 0
    THEN Len(ss)
    ELSE Max({1} \cup {n \in 1 .. Len(ss) : Size(Newest(ss, n)) <= MaxLogBytes})

cleanRest == <<hwFile, state, active, hw, hwWaiters, role, epoch>>

\* The segments to clean are read under the lock, which is then released.
\* Unless ExpireHW, the log is committed up to the segments that stay.
BeginClean(expired) ==
    LET young == Newest(segs, Len(segs) - expired)
        few == Newest(young, WithinMessages(young))
        small == Newest(few, WithinBytes(few))
    IN  /\ PastSplit("cleaner")
        /\ expired \in Expirable(segs)
        /\ ExpireHW \/ small = segs \/ seg[small[1]].base <= hw
        /\ clean' = [NotCleaning EXCEPT
                        !.pc = "delete",
                        !.old = segs,
                        !.kept = small,
                        !.todo = Oldest(segs, Len(young))
                                 \o Reverse(Oldest(young, Len(few)))
                                 \o Reverse(Oldest(few, Len(small)))]
        /\ count' = [count EXCEPT !.cleans = @ + 1]
        /\ UNCHANGED <<fileVars, seg, segs, thr, cleanRest>>

\* Delete of the next segment; by age the oldest goes first, by messages and
\* by bytes the newest of those that go.
DeleteSegment ==
    /\ clean.pc = "delete" /\ clean.todo # <<>>
    /\ disk' = Removed(seg[Head(clean.todo)].base)
    /\ seg' = [seg EXCEPT ![Head(clean.todo)] = Close(@)]
    /\ clean' = [clean EXCEPT !.todo = Tail(@)]
    /\ UNCHANGED <<cache, segs, thr, count, cleanRest>>

\* What a scan of a segment sees: nothing of one that was closed meanwhile.
Scan(i) == IF seg[i].closed THEN <<>> ELSE seg[i].msgs

\* scanKeys: the latest committed offset of every key.  Mutant: the latest
\* offset, committed or not.
ScanAllKeys(h, ss) ==
    LET ms == UNION {ToSet(Scan(i)) : i \in ToSet(ss)}
    IN [k \in {m.key : m \in ms} |-> Max({m.off : m \in {x \in ms : x.key = k}})]
ScanKeys(h, ss) ==
    LET ms == {m \in UNION {ToSet(Scan(i)) : i \in ToSet(ss)} : m.off <= h}
    IN [k \in {m.key : m \in ms} |-> Max({m.off : m \in {x \in ms : x.key = k}})]

\* Compact reads the high watermark and scans the keys; it leaves a log of
\* one segment alone.
BeginCompact ==
    /\ clean.pc = "delete" /\ clean.todo = <<>>
    /\ clean' = IF Compact /\ Len(clean.kept) > 1
                THEN [clean EXCEPT !.pc = "compact",
                                   !.hw = hw,
                                   !.latest = ScanKeys(hw, clean.kept),
                                   !.todo = clean.kept,
                                   !.kept = <<>>,
                                   !.compacted = TRUE]
                ELSE [clean EXCEPT !.pc = "finish"]
    /\ UNCHANGED <<fileVars, seg, segs, thr, count, cleanRest>>

AssignAll(c, ms) == FoldLeft(LAMBDA x, m : Assign(x, m.epoch, m.off), c, ms)

\* What cleanSegment keeps: messages without a key, the latest of every key,
\* and all from the high watermark on.
Retained(ms) ==
    SelectSeq(ms, LAMBDA m : \/ m.key = NoKey
                             \/ m.off = (IF m.key \in DOMAIN clean.latest
                                         THEN clean.latest[m.key] ELSE 0)
                             \/ m.off >= clean.hw)

\* cleanSegment, for every segment but the last: a copy of what is kept
\* replaces it, or it is deleted when that is nothing.
CleanSegment ==
    LET i == Head(clean.todo)
        b == seg[i].base
        ms == Retained(Scan(i))
        old == [seg EXCEPT ![i] = Replaced(@)]
    IN  /\ clean.pc = "compact" /\ Len(clean.todo) > 1
        /\ IF ms = <<>>
           THEN /\ disk' = Removed(b)
                /\ seg' = old
           ELSE /\ disk' = Written(b, ms)
                /\ seg' = Append(old, NewSegment(b, ms))
        /\ clean' = [clean EXCEPT !.todo = Tail(@),
                                  !.kept = IF ms = <<>> THEN @ ELSE Append(@, Len(seg) + 1),
                                  !.cache = AssignAll(@, ms)]
        /\ UNCHANGED <<cache, segs, thr, count, cleanRest>>

\* The last segment is kept as it is, and scanned for its epochs.
KeepLast ==
    /\ clean.pc = "compact" /\ Len(clean.todo) = 1
    /\ clean' = [clean EXCEPT !.pc = "finish",
                              !.todo = <<>>,
                              !.kept = Append(@, Head(clean.todo)),
                              !.cache = AssignAll(@, Scan(Head(clean.todo)))]
    /\ UNCHANGED <<fileVars, seg, segs, thr, count, cleanRest>>

\* The segments that were added to the log while Clean was at work.
Added == SubSeq(segs, Len(clean.old) + 1, Len(segs))

\* Without a compaction there is no epoch cache to rebase onto, and a nil
\* pointer is followed; without a segment segments[0] does not exist.
Panics == ~clean.compacted /\ (Added # <<>> \/ clean.kept = <<>>)

\* rebaseSegments, and the new epoch cache.  Mutant: the segments that were
\* added meanwhile are not taken over.
FinishCleanOnly ==
    /\ clean.pc = "finish" /\ ~Panics
    /\ segs' = clean.kept
    /\ clean' = NotCleaning
    /\ UNCHANGED <<fileVars, seg, thr, count, cleanRest>>
FinishClean ==
    /\ clean.pc = "finish" /\ ~Panics
    /\ segs' = clean.kept \o Added
    /\ cache' = IF ~clean.compacted
                THEN ClearEarliest(cache, seg[segs'[1]].base)
                ELSE IF Added = <<>>
                     THEN clean.cache
                     ELSE Rebase(clean.cache, cache, seg[Added[1]].base)
    /\ clean' = NotCleaning
    /\ UNCHANGED <<disk, seg, thr, count, cleanRest>>

Panic == clean.pc = "finish" /\ Panics /\ Gone("panicked") /\ UNCHANGED fileVars

-----------------------------------------------------------------------------
CleanStep == DeleteSegment \/ BeginCompact \/ CleanSegment \/ KeepLast \/ FinishClean

LogStep ==
    \/ \E t \in Goroutine : OpenSegment(t) \/ SwapActive(t) \/ PublishSegment(t)
    \/ \E n \in 1 .. MaxBatch : AppendMessages(n) \/ \E skip \in {0, 1} : AppendMessageSet(n, skip)
    \/ Write
    \/ NewLeaderEpoch
    \/ \E h \in 0 .. MaxOffset : SetHighWatermark(h)
    \/ CheckpointHW
    \/ \E o \in hw + 1 .. MaxOffset : Truncate(o)
    \/ \E n \in 0 .. MaxOffset : BeginClean(n)
    \/ CleanStep

\* The log comes and goes.
LogEvent == Crash \/ CloseLog \/ DeleteLog \/ Panic \/ Reopen

LogNext == LogStep \/ LogEvent
LogSpec == Init /\ [][LogNext]_logVars

-----------------------------------------------------------------------------
\* The type invariant.
TypeOK ==
    /\ DOMAIN disk \subseteq 0 .. MaxOffset + 1
    /\ \A b \in DOMAIN disk : disk[b] \in Seq(Message)
    /\ hwFile \in -1 .. MaxOffset /\ hw \in -1 .. MaxOffset
    /\ cache \in Seq([epoch : Nat, start : Int])
    /\ state \in {"open", "closed", "crashed", "deleted", "panicked"}
    /\ segs \in Seq(DOMAIN seg)
    /\ active \in IF state = "open" THEN DOMAIN seg ELSE {0}
    /\ hwWaiters \subseteq Readers
    /\ role \in Role /\ epoch \in Nat
    /\ \A t \in Goroutine : thr[t].pc \in {"idle", "opened", "swapped", "ready", "write"}
    /\ clean.pc \in {"idle", "delete", "compact", "finish"}

\* Whenever no split and no clean is half done, commitLog.segments is the
\* segment files in the order of their offsets: no file has dropped out of
\* the read path, none on the list is closed or was deleted, the active one
\* is the last, and each object sees what its file holds.
SegmentsAreFiles ==
    state = "open" /\ Quiet =>
        /\ [i \in DOMAIN segs |-> seg[segs[i]].base] = Bases(disk)
        /\ active = Last(segs)
        /\ \A i \in DOMAIN segs :
            ~seg[segs[i]].closed /\ seg[segs[i]].msgs = disk[seg[segs[i]].base]

\* The commit log implements the abstract log: splits, segment files, copies
\* made by compaction and restarts are invisible, and messages go only the
\* way retention, compaction and truncation may take them.
Abstract == INSTANCE AbstractLog WITH
    messages <- Content,
    next <- EndOffset,
    hw <- IF state = "open" THEN hw ELSE hwFile,
    floor <- IF clean.pc = "delete" /\ clean.kept # <<>> THEN seg[clean.kept[1]].base ELSE 0
ImplementsLog == Abstract!Spec
=============================================================================
