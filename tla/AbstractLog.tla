---------------------------- MODULE AbstractLog ----------------------------
(***************************************************************************)
(* What a commit log promises, without segments, files or goroutines: a    *)
(* set of messages, each at an offset of its own, the offset the next      *)
(* message gets, and the high watermark.  CommitLog is shown to implement  *)
(* it.                                                                     *)
(***************************************************************************)
EXTENDS Integers

CONSTANT NoKey      \* the key of a message that has none

VARIABLES
    messages,       \* the messages in the log: offset, key and epoch
    next,           \* the offset after the newest one
    hw,             \* the high watermark
    floor           \* retention lets go of what is older than this

vars == <<messages, next, hw, floor>>

Init == messages = {} /\ next = 0 /\ hw = -1 /\ floor = 0

\* Messages join the log at its end, one at an offset.  A follower may skip
\* offsets that its leader no longer has.
Extend ==
    LET old == messages
        new == messages' \ old
    IN  /\ old \subseteq messages'
        /\ \A m \in new : m.off \in Nat /\ next <= m.off /\ m.off < next'
        /\ \A m, n \in new : m.off = n.off => m = n
        /\ \E m \in new : next' = m.off + 1
        /\ UNCHANGED <<hw, floor>>

\* Uncommitted messages are cut off the end.  Where the offsets before the
\* cut hold no messages, the next message may get one of those.
Cut ==
    LET left == messages'
        cut == messages \ left
    IN  /\ left \subseteq messages
        /\ \A c \in cut : c.off > hw /\ \A m \in left : m.off < c.off
        /\ \A m \in left : m.off < next'
        /\ next' \in 0 .. next
        /\ UNCHANGED <<hw, floor>>

\* Retention sets a floor, and takes away messages below it.
SetFloor == floor' \in 0 .. next /\ UNCHANGED <<messages, next, hw>>

Retire ==
    LET left == messages'
    IN  /\ left \subseteq messages
        /\ \A g \in messages \ left : g.off < floor
        /\ UNCHANGED <<next, hw, floor>>

\* Compaction takes away a message only when a later message with its key is
\* committed and stays in the log.
Compacted ==
    LET left == messages'
    IN  /\ left \subseteq messages
        /\ \A g \in messages \ left :
            /\ g.key # NoKey
            /\ \E m \in left : m.key = g.key /\ m.off > g.off /\ m.off <= hw
        /\ UNCHANGED <<next, hw, floor>>

Commit == hw' \in hw + 1 .. next - 1 /\ UNCHANGED <<messages, next, floor>>

\* A restart keeps the messages and goes back to a checkpoint of the
\* high watermark.
Forget == hw' \in -1 .. hw /\ floor' = 0 /\ UNCHANGED <<messages, next>>

Drop == messages' = {} /\ next' = 0 /\ hw' = -1 /\ floor' = 0

Next == Commit \/ SetFloor \/ Forget \/ Extend \/ Compacted \/ Retire \/ Cut \/ Drop
Spec == Init /\ [][Next]_vars

-----------------------------------------------------------------------------
\* No two messages have the same offset, and all are before the offset that
\* the next message gets: what readers and followers take for granted when
\* they name a message by its offset.
OneMessagePerOffset ==
    /\ next \in Nat
    /\ \A m \in messages : m.off \in Nat /\ m.off < next
    /\ \A m, n \in messages : m.off = n.off => m = n

\* The committed message m is not superseded by a later one with its key.
Latest(m) ==
    /\ m.off <= hw
    /\ m.key = NoKey \/ ~\E x \in messages : x.key = m.key /\ x.off > m.off /\ x.off <= hw

KeepsLatest ==
    \A m \in messages : Latest(m) /\ ~(m.off < floor) => m \in messages' \/ messages' = {}

\* A committed message that no later one supersedes stays in the log until
\* retention takes what is below its floor or the whole log is deleted:
\* truncation, compaction and restarts never take it.
LatestStays == [][KeepsLatest]_vars
=============================================================================
