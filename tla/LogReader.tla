----------------------------- MODULE LogReader -----------------------------
(***************************************************************************)
(* Readers of a commit log (server/commitlog/reader.go) beside the         *)
(* goroutines that append to it and clean it: committed readers, which     *)
(* serve subscriptions, and uncommitted ones, which serve replication.     *)
(*                                                                         *)
(* A reader holds pointers to segments.  It follows the list of segments   *)
(* it took when it began to read a message, so what it meets may have been *)
(* sealed, replaced or deleted since.  ReadMessage reads a header and then *)
(* a payload; a segment that is closed in between makes it fail, and it is *)
(* one step here.                                                          *)
(***************************************************************************)
EXTENDS CommitLog

VARIABLES
    rd,     \* the state of every reader
    top     \* the highest high watermark there has been

vars == <<logVars, rd, top>>

Nothing == [off |-> -1, key |-> NoKey, epoch |-> 0]
NoReader == [pc |-> "none", kind |-> "committed", seg |-> 0, pos |-> 0,
             hwSeg |-> 0, hwPos |-> 0, hw |-> -1, segments |-> <<>>,
             waiting |-> FALSE, offset |-> 0, got |-> Nothing]
Failed == NoReader      \* the client is told, and may subscribe again

\* getHWPos: the segment that holds the high watermark, and the position
\* where the first message at or after it ends; no segment on an error.
\* Mutant: the position where the segment ends.
HWSegmentEnd(ss, h) ==
    LET i == FindSegment(ss, h)
    IN IF Found(ss, i)
       THEN [seg |-> ss[i], pos |-> Len(seg[ss[i]].msgs)]
       ELSE [seg |-> 0, pos |-> 0]
HWPos(ss, h) ==
    LET i == FindSegment(ss, h)
        s == seg[ss[i]]
        e == FindEntry(s, h)
    IN IF Found(ss, i) /\ e <= Len(s.msgs)
       THEN [seg |-> ss[i], pos |-> e]
       ELSE [seg |-> 0, pos |-> 0]

\* The place of the first message at or after offset o.
StartAt(ss, o) ==
    LET i == FindSegment(ss, o)
        s == seg[ss[i]]
        e == FindEntry(s, o)
    IN IF ~Found(ss, i) THEN [seg |-> 0, pos |-> 0]
       ELSE IF s.base > o THEN [seg |-> ss[i], pos |-> 0]
       ELSE IF e <= Len(s.msgs) THEN [seg |-> ss[i], pos |-> e - 1]
       ELSE [seg |-> 0, pos |-> 0]

\* newReaderCommitted; a reader that starts beyond the high watermark has no
\* segment yet.
Committed(x, o) ==
    LET h == HWPos(segs, hw)
        p == StartAt(segs, o)
    IN IF o > hw
       THEN [x EXCEPT !.pc = "idle", !.offset = o, !.hw = hw,
                      !.seg = 0, !.pos = 0, !.hwSeg = 0, !.hwPos = 0]
       ELSE IF h.seg = 0 \/ p.seg = 0
       THEN Failed
       ELSE [x EXCEPT !.pc = "idle", !.offset = o, !.hw = hw,
                      !.seg = p.seg, !.pos = p.pos, !.hwSeg = h.seg, !.hwPos = h.pos]

\* newReaderUncommitted.
Uncommitted(x, o) ==
    LET p == StartAt(segs, o)
    IN IF p.seg = 0
       THEN Failed
       ELSE [x EXCEPT !.pc = "idle", !.offset = o, !.seg = p.seg, !.pos = p.pos]

Opened(x, o) == IF x.kind = "committed" THEN Committed(x, o) ELSE Uncommitted(x, o)

\* OffsetForTimestamp; the timestamp of a message is its offset.  A binary
\* search looks for the first segment that begins after t.  It fails when it
\* meets a segment without messages.
NoOffset == -2
Later(t, i) == seg[segs[i + 1]].msgs = <<>> \/ seg[segs[i + 1]].msgs[1].off > t
Probed(t) ==
    LET at[lo \in 0 .. Len(segs), hi \in 0 .. Len(segs)] ==
            IF lo >= hi THEN {}
            ELSE LET mid == (lo + hi) \div 2
                 IN {mid} \cup (IF Later(t, mid) THEN at[lo, mid] ELSE at[mid + 1, hi])
    IN at[0, Len(segs)]

EntryByTimestamp(s, t) ==
    LET e == FindEntryByTimestamp(s, t) IN IF e <= Len(s.msgs) THEN s.msgs[e].off ELSE NoOffset

OffsetForTimestamp(t) ==
    LET idx == Search(Len(segs), [i \in Nat |-> Later(t, i)])
        first == EntryByTimestamp(seg[segs[IF idx = 0 THEN 1 ELSE idx]], t)
    IN IF \E i \in Probed(t) : seg[segs[i + 1]].msgs = <<>> THEN NoOffset
       ELSE IF first # NoOffset THEN first
       ELSE IF idx < Len(segs) THEN EntryByTimestamp(seg[segs[idx + 1]], t)
       ELSE NextOffset(seg[Last(segs)])

\* getStartOffset.
StartPosition == {"offset", "timestamp", "earliest", "latest", "new only"}
StartOffset(position, o) ==
    LET start == CASE position = "offset" -> o
                   [] position = "timestamp" -> OffsetForTimestamp(o)
                   [] position = "earliest" -> OldestOffset
                   [] position = "latest" -> NewestOffset
                   [] position = "new only" -> NewestOffset + 1
    IN IF start < 0 /\ position # "timestamp" THEN 0 ELSE start

-----------------------------------------------------------------------------
ReaderInit == Init /\ rd = [r \in Readers |-> NoReader] /\ top = -1

Become(r, x) == rd' = [rd EXCEPT ![r] = x] /\ UNCHANGED <<logVars, top>>

\* Subscribe, on the partition's leader, at any start position.
Subscribe(r) ==
    /\ state = "open" /\ role = "leader"
    /\ rd[r].pc = "none"
    /\ \E o \in {StartOffset(p, o) : p \in StartPosition, o \in 0 .. MaxOffset + 1} \ {NoOffset} :
        Become(r, Opened(NoReader, o))

\* A follower asks for the messages after offset o, which the leader has.
Replicate(r, o) ==
    /\ state = "open" /\ role = "leader"
    /\ rd[r].pc = "none"
    /\ o < NewestOffset
    /\ Become(r, Opened([NoReader EXCEPT !.kind = "uncommitted"], o + 1))

\* The subscription is cancelled: a waiter leaves the list it is on.
Unsubscribe(r) ==
    /\ rd[r].pc # "none"
    /\ rd' = [rd EXCEPT ![r] = NoReader]
    /\ hwWaiters' = hwWaiters \ {r}
    /\ seg' = [i \in DOMAIN seg |-> [seg[i] EXCEPT !.waiters = @ \ {r}]]
    /\ UNCHANGED <<fileVars, state, segs, active, hw, role, epoch, thr, clean, count, top>>

\* Read takes the list of segments.
StartRead(r) ==
    /\ rd[r].pc = "idle"
    /\ Become(r, [rd[r] EXCEPT !.segments = segs, !.waiting = FALSE,
                               !.pc = IF rd[r].seg = 0 THEN "sync" ELSE "read"])

Reading(r) == rd[r].pc = "read"
At(r) == seg[rd[r].seg]
\* Mutant: one message beyond the high watermark.
BeyondHW(r) == rd[r].kind = "committed" /\ rd[r].seg = rd[r].hwSeg /\ rd[r].pos > rd[r].hwPos
AtHW(r) == rd[r].kind = "committed" /\ rd[r].seg = rd[r].hwSeg /\ rd[r].pos >= rd[r].hwPos
AtEnd(r) == ~At(r).closed /\ ~AtHW(r) /\ rd[r].pos >= Len(At(r).msgs)

\* ReadAt finds a message; ReadMessage returns it.
Deliver(r) ==
    /\ Reading(r) /\ ~At(r).closed /\ ~AtHW(r) /\ ~AtEnd(r)
    /\ LET m == At(r).msgs[rd[r].pos + 1]
       IN Become(r, [rd[r] EXCEPT !.pc = "idle", !.pos = @ + 1, !.segments = <<>>,
                                  !.offset = m.off + 1, !.got = m])

\* ReadAt finds the segment replaced: the reader starts again at its offset.
Retry(r) ==
    /\ Reading(r) /\ At(r).closed /\ At(r).replaced
    /\ Become(r, Opened([rd[r] EXCEPT !.segments = <<>>], rd[r].offset))

\* ReadAt finds the segment deleted.
ReadClosed(r) == Reading(r) /\ At(r).closed /\ ~At(r).replaced /\ Become(r, Failed)

\* The next segment of a list, by base offset.  Mutant: the segment itself.
AfterSame(ss, r) == FindSegmentByBaseOffset(ss, At(r).base)
After(ss, r) == FindSegmentByBaseOffset(ss, At(r).base + 1)
MoveTo(r, ss) == [rd[r] EXCEPT !.seg = ss[After(ss, r)], !.pos = 0, !.waiting = FALSE,
                               !.segments = ss]

\* At the end of a segment both readers go on to the next one of their
\* list.  When there is none, the committed reader says "no segment to
\* consume", and the other one waits.
NextSegment(r) ==
    LET found == Found(rd[r].segments, After(rd[r].segments, r))
    IN  /\ Reading(r) /\ AtEnd(r) /\ ~rd[r].waiting
        /\ found \/ rd[r].kind = "committed"
        /\ Become(r, IF found THEN MoveTo(r, rd[r].segments) ELSE [rd[r] EXCEPT !.pc = "lost"])

\* WaitForData: the reader is woken by a write or by Seal.  A full segment is
\* about to be split, and is not waited for.
Await(r) ==
    /\ rd' = [rd EXCEPT ![r].waiting = TRUE, ![r].pc = IF Full(At(r)) THEN "read" ELSE "wait"]
    /\ seg' = IF Full(At(r)) THEN seg ELSE [seg EXCEPT ![rd[r].seg].waiters = @ \cup {r}]
    /\ UNCHANGED <<fileVars, state, segs, active, hw, hwWaiters, role, epoch, thr, clean,
                   count, top>>

\* The uncommitted reader at the end of the last segment it knows of.
WaitForData(r) ==
    /\ Reading(r) /\ AtEnd(r) /\ rd[r].kind = "uncommitted" /\ ~rd[r].waiting
    /\ ~Found(rd[r].segments, After(rd[r].segments, r))
    /\ Await(r)

\* Still at the end after it waited: the segment was split, or will be.
Rolled(r) ==
    /\ Reading(r) /\ AtEnd(r) /\ rd[r].waiting
    /\ IF Found(segs, After(segs, r)) THEN Become(r, MoveTo(r, segs)) ELSE Await(r)

\* The committed reader has read up to the high watermark it knows of.
ReachHW(r) ==
    /\ Reading(r) /\ ~At(r).closed /\ AtHW(r)
    /\ Become(r, [rd[r] EXCEPT !.pc = "sync"])

\* It waits while the high watermark is still that one (checked again under
\* the lock that SetHighWatermark takes), and else reads on up to the new one.
SyncHW(r) ==
    LET h == HWPos(segs, hw)
        p == StartAt(segs, rd[r].hw + 1)
        x == [rd[r] EXCEPT !.pc = "read", !.hw = hw, !.segments = segs,
                           !.hwSeg = h.seg, !.hwPos = h.pos]
    IN  /\ rd[r].pc = "sync"
        /\ rd' = [rd EXCEPT ![r] =
                IF hw = rd[r].hw THEN [rd[r] EXCEPT !.pc = "wait"]
                ELSE IF rd[r].seg # 0
                THEN IF h.seg = 0 THEN [x EXCEPT !.pc = "lost"] ELSE x
                ELSE IF h.seg = 0 \/ p.seg = 0 THEN Failed
                ELSE [x EXCEPT !.seg = p.seg, !.pos = p.pos]]
        /\ hwWaiters' = IF hw = rd[r].hw THEN hwWaiters \cup {r} ELSE hwWaiters
        /\ UNCHANGED <<fileVars, state, seg, segs, active, hw, role, epoch, thr, clean,
                       count, top>>

\* The channel a reader waits on is closed when it is no longer on the list.
Wake(r) ==
    /\ rd[r].pc = "wait"
    /\ IF rd[r].kind = "committed" THEN r \notin hwWaiters ELSE r \notin At(r).waiters
    /\ Become(r, [rd[r] EXCEPT !.pc = IF rd[r].kind = "committed" THEN "sync" ELSE "read"])

ReaderStep(r) ==
    /\ rd[r].pc # "none"
    /\ \/ StartRead(r) \/ Deliver(r) \/ Retry(r) \/ ReadClosed(r) \/ NextSegment(r)
       \/ WaitForData(r) \/ Rolled(r) \/ ReachHW(r) \/ SyncHW(r) \/ Wake(r)

\* The readers of a log that is closed, deleted or gone end with an error.
EndReaders ==
    /\ rd' = [r \in Readers |-> NoReader]
    /\ top' = IF state' = "deleted" THEN -1 ELSE top

Next ==
    \/ LogStep /\ UNCHANGED rd /\ top' = Max({top, hw'})
    \/ LogEvent /\ EndReaders
    \/ \E r \in Readers :
        Subscribe(r) \/ Unsubscribe(r) \/ ReaderStep(r) \/ \E o \in -1 .. MaxOffset : Replicate(r, o)

CleanerStep ==
    /\ clean.pc # "idle"
    /\ \/ CleanStep /\ UNCHANGED <<rd, top>>
       \/ Panic /\ EndReaders

\* The goroutines of the readers are scheduled, and so is the cleaner once
\* it is at work.
Fairness ==
    /\ \A r \in Readers : WF_rd(ReaderStep(r))
    /\ WF_clean(CleanerStep)

Spec == ReaderInit /\ [][Next]_vars /\ Fairness

-----------------------------------------------------------------------------
Delivered(r) == rd'[r].got # rd[r].got /\ rd'[r].got # Nothing

\* A committed reader never runs out of segments before the high watermark
\* (readLoop asks "Should this ever happen?"), and never finds that the
\* segment of the high watermark is not on the list, where it would take a
\* short read for a message.
NeverLost == \A r \in Readers : rd[r].pc # "lost"

\* A subscription gets only messages that have been committed, whatever the
\* cleaner did to the segments between the reader's look at the high
\* watermark and its reads.
OnlyCommitted == \A r \in Readers : rd[r].kind = "committed" => rd[r].got.off <= top

\* ReadMessage returns messages in the order of their offsets and passes
\* over none that the log still holds, across splits, replaced segments and
\* retries.
InOrder == [][\A r \in Readers : Delivered(r) =>
    /\ rd'[r].got.off > rd[r].got.off
    /\ ~\E m \in Content : rd[r].offset <= m.off /\ m.off < rd'[r].got.off]_vars

\* No wakeup is lost: a committed reader is not left behind the high
\* watermark for ever, nor an uncommitted one behind the end of the log,
\* however SetHighWatermark, writes, splits and cleans fall between its look
\* at the log and its wait.
Behind(r) ==
    /\ rd[r].pc # "none"
    /\ \E m \in Content :
        rd[r].offset <= m.off /\ (rd[r].kind = "committed" => m.off <= hw)
CatchesUp == \A r \in Readers : []<>~Behind(r)

\* OffsetForTimestamp gives the earliest message that is not older than the
\* timestamp, the end of the log when there is none, and fails only while a
\* segment has no messages.
TimestampLookup ==
    state = "open" /\ Quiet =>
        \A t \in 0 .. MaxOffset + 1 :
            LET found == {m.off : m \in {x \in Content : x.off >= t}}
            IN \/ OffsetForTimestamp(t) = (IF found = {} THEN EndOffset ELSE Min(found))
               \/ /\ OffsetForTimestamp(t) = NoOffset
                  /\ \E i \in DOMAIN segs : seg[segs[i]].msgs = <<>>
=============================================================================
