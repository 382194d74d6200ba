---------------------------- MODULE SegmentFile ----------------------------
(***************************************************************************)
(* The two files of a segment (segment.go, index.go, message_set.go): the  *)
(* log file, to which messages are appended, and the index, a memory       *)
(* mapped file of fixed-width entries that is allocated ahead and has      *)
(* zeros where there is no entry yet.  An append is a write to the log and *)
(* then one to the index.  The process may crash between any two writes;   *)
(* what it has written stays in the files.                                 *)
(*                                                                         *)
(* CommitLog takes a segment's file for the sequence of its messages: that *)
(* is Indexed below.                                                       *)
(*                                                                         *)
(* A message takes a unit of the log file for its header and size units    *)
(* for the rest.  Entries are counted, not measured in bytes.              *)
(***************************************************************************)
EXTENDS SortSearch, Sequences, SequencesExt, FiniteSets, FiniteSetsExt

CONSTANTS
    BaseOffset,     \* segment.BaseOffset
    IndexEntries,   \* the entries a new index has room for
    Sizes,          \* the sizes of messages
    MaxBatch,       \* bound on the messages of one append
    MaxMessages,    \* bound on the messages appended, and
    MaxOpens        \* bound on how often the segment is opened

ASSUME SegmentFileAssumption ==
    /\ BaseOffset \in Nat /\ IndexEntries \in Nat \ {0} /\ Sizes \subseteq Nat \ {0}
    /\ MaxBatch \in Nat /\ MaxMessages \in Nat

VARIABLES
    logFile,    \* the units of the log file
    indexFile,  \* the entries of the index file
    s,          \* the segment object
    written,    \* the messages whose append has succeeded
    sent,       \* the number of messages given to appends
    opens       \* how often the segment was opened

vars == <<logFile, indexFile, s, written, sent, opens>>

Closed == [pc |-> "closed", position |-> 0, lastOffset |-> -1, entries |-> 0,
           batch |-> <<>>, toWrite |-> <<>>]

-----------------------------------------------------------------------------
\* Messages and index entries.

\* newMessageSetFromProto: the messages of a batch get the next offsets, and
\* follow each other in the log file.
Units(m) == [k \in 1 .. 1 + m.size |-> [msg |-> m, part |-> k]]
MessageSet(batch) == FlattenSeq([i \in DOMAIN batch |-> Units(batch[i])])

\* The entry of a message has its position in the log file.  Mutant: that of
\* the batch.
EntriesAtBase(batch, basePos) ==
    [i \in DOMAIN batch |->
        [off |-> batch[i].off - BaseOffset, pos |-> basePos, size |-> 1 + batch[i].size]]
Entries(batch, basePos) ==
    [i \in DOMAIN batch |->
        [off  |-> batch[i].off - BaseOffset,
         pos  |-> basePos + Len(MessageSet(SubSeq(batch, 1, i - 1))),
         size |-> 1 + batch[i].size]]

Zero == [off |-> 0, pos |-> 0, size |-> 0]
\* Mutant: an entry is told by its position alone.
AtStart(e) == e.pos = 0
Empty(e) == e.pos = 0 /\ e.size = 0

\* readMessage and Scan: the message at a position of the log file, which is
\* checked against its CRC.
Corrupt == [id |-> 0, off |-> -1, size |-> 0]
MessageAt(pos) ==
    LET m == IF pos < Len(logFile) THEN logFile[pos + 1].msg ELSE Corrupt
    IN IF SubSeq(logFile, pos + 1, Min({pos + 1 + m.size, Len(logFile)})) = Units(m)
       THEN m ELSE Corrupt

NextOffset == IF s.lastOffset = -1 THEN BaseOffset ELSE s.lastOffset + 1

\* findEntry: the first entry at or after offset o, counted from 1.
FindEntry(o) == 1 + Search(s.entries, [i \in Nat |-> BaseOffset + indexFile[i + 1].off >= o])

-----------------------------------------------------------------------------
Init ==
    /\ logFile = <<>> /\ indexFile = <<>>
    /\ s = Closed
    /\ written = {} /\ sent = 0 /\ opens = 0

\* The log is written to from the end of its file on.  Mutant: from the end of
\* the last message that has an entry.
EndOfEntries(idx, n) == IF n = 0 THEN 0 ELSE idx[n].pos + idx[n].size
EndOfLog(idx, n) == Len(logFile)

\* newIndex allocates room for entries in a file that is empty.
Allocated == IF indexFile = <<>> THEN [i \in 1 .. IndexEntries |-> Zero] ELSE indexFile

\* newSegment and setupIndex; InitializePosition looks for the first empty
\* entry.
Open ==
    LET n == Search(Len(Allocated), [i \in Nat |-> Empty(Allocated[i + 1])])
    IN  /\ s.pc = "closed" /\ opens < MaxOpens
        /\ indexFile' = Allocated
        /\ s' = [Closed EXCEPT !.pc = "ready",
                               !.position = EndOfLog(Allocated, n),
                               !.entries = n,
                               !.lastOffset = IF n = 0 THEN -1 ELSE BaseOffset + Allocated[n].off]
        /\ opens' = opens + 1
        /\ UNCHANGED <<logFile, written, sent>>

Batches ==
    {[i \in DOMAIN z |-> [id |-> sent + i, off |-> NextOffset + i - 1, size |-> z[i]]] :
        z \in UNION {[1 .. n -> Sizes] : n \in 1 .. Min({MaxBatch, MaxMessages - sent})}}

\* write: the log file, and what the segment knows of it.
Write(batch) ==
    /\ s.pc = "ready"
    /\ logFile' = logFile \o MessageSet(batch)
    /\ s' = [s EXCEPT !.pc = "index",
                      !.position = @ + Len(MessageSet(batch)),
                      !.lastOffset = Last(batch).off,
                      !.batch = batch,
                      !.toWrite = Entries(batch, s.position)]
    /\ sent' = sent + Len(batch)
    /\ UNCHANGED <<indexFile, written, opens>>

\* The write to the log file fails, or the process crashes, after some of it
\* was done.  The leader's message loop ends and a follower panics: nothing
\* more is written before the segment is opened again.
WriteFails(batch, units) ==
    /\ s.pc = "ready"
    /\ logFile' = logFile \o SubSeq(MessageSet(batch), 1, units)
    /\ s' = [s EXCEPT !.pc = "failed"]
    /\ sent' = sent + Len(batch)
    /\ UNCHANGED <<indexFile, written, opens>>

\* writeAt: the room in an index that n entries are written to at the end.
\* Mutant: the index does not grow.
SameRoom(n) == Len(indexFile)
Room(n) ==
    LET size == Len(indexFile)
    IN IF s.entries + n < size THEN size
       ELSE IF size + IndexEntries < s.entries + n THEN size + n
       ELSE size + IndexEntries

\* The index with room for all entries of the batch and the first n of them.
IndexWith(n) ==
    LET old == [i \in 1 .. Room(Len(s.toWrite)) |->
                   IF i <= Len(indexFile) THEN indexFile[i] ELSE Zero]
    IN [i \in DOMAIN old |->
           IF i - s.entries \in 1 .. n THEN s.toWrite[i - s.entries] ELSE old[i]]

\* writeEntries, and WriteMessageSet returns.
WriteEntries ==
    /\ s.pc = "index"
    /\ indexFile' = IndexWith(Len(s.toWrite))
    /\ written' = written \cup ToSet(s.batch)
    /\ s' = [s EXCEPT !.pc = "ready", !.entries = @ + Len(s.toWrite),
                      !.batch = <<>>, !.toWrite = <<>>]
    /\ UNCHANGED <<logFile, sent, opens>>

\* The process crashes, perhaps with only some of the entries in the index.
Crash ==
    /\ s.pc # "closed"
    /\ s' = Closed
    /\ \/ UNCHANGED indexFile
       \/ s.pc = "index" /\ \E n \in 0 .. Len(s.toWrite) : indexFile' = IndexWith(n)
    /\ UNCHANGED <<logFile, written, sent, opens>>

\* Close, which shrinks the index to its entries.  Mutant: to one entry less.
CloseShort ==
    /\ s.pc \in {"ready", "failed"}
    /\ indexFile' = SubSeq(indexFile, 1, s.entries - 1)
    /\ s' = Closed
    /\ UNCHANGED <<logFile, written, sent, opens>>
Close ==
    /\ s.pc \in {"ready", "failed"}
    /\ indexFile' = SubSeq(indexFile, 1, s.entries)
    /\ s' = Closed
    /\ UNCHANGED <<logFile, written, sent, opens>>

Next ==
    \/ Open \/ WriteEntries \/ Crash \/ Close
    \/ \E batch \in Batches :
        Write(batch) \/ \E n \in 0 .. Len(MessageSet(batch)) - 1 : WriteFails(batch, n)

Spec == Init /\ [][Next]_vars

-----------------------------------------------------------------------------
\* The entries of the index file, and the messages they lead to.
Filled == {i \in DOMAIN indexFile : indexFile[i].size # 0}
Indexed == [i \in 1 .. Cardinality(Filled) |-> MessageAt(indexFile[i].pos)]

\* The state keeps its types, and the index has room for its entries.
TypeOK ==
    /\ \A i \in DOMAIN indexFile : indexFile[i] \in [off : Nat, pos : Nat, size : Nat]
    /\ s.pc \in {"closed", "ready", "index", "failed"}
    /\ s.position \in 0 .. Len(logFile)
    /\ s.entries \in 0 .. Len(indexFile)
    /\ \A m \in written : m.id \in 1 .. sent

\* However the index was allocated, grown, shrunk or left behind by a crash,
\* InitializePosition finds the end of its entries: an open index has entries
\* up to its position and none after it.
IndexRecovered ==
    s.pc # "closed" => Filled = 1 .. s.entries

\* A message whose append has succeeded is found by its offset in every
\* process that has the segment open, whatever failed writes and crashes have
\* left in the log file before it, between and after.
Durable ==
    s.pc \in {"ready", "failed"} =>
        \A m \in written :
            /\ FindEntry(m.off) <= s.entries
            /\ MessageAt(indexFile[FindEntry(m.off)].pos) = m

\* Every entry leads to a whole message with the entry's offset and size, and
\* the offsets have no gap and no duplicate.
EntriesExact ==
    \A i \in 1 .. Cardinality(Filled) :
        /\ Indexed[i].off = BaseOffset + i - 1
        /\ indexFile[i].off = i - 1 /\ indexFile[i].size = 1 + Indexed[i].size

\* What the segment holds only ever gets longer, crashes and restarts included.
AppendOnly == [][IsPrefix(Indexed, Indexed')]_vars
=============================================================================
