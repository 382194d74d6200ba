------------------------- MODULE AbstractLogProofs -------------------------
(***************************************************************************)
(* What the abstract log guarantees.  CommitLog implements the abstract    *)
(* log (the property ImplementsLog), so these hold of the messages in its  *)
(* segment files.                                                          *)
(***************************************************************************)
EXTENDS AbstractLog, TLAPS

LEMMA StepKeepsOffsets ==
    ASSUME OneMessagePerOffset, [Next]_vars
    PROVE  OneMessagePerOffset'
<1> USE DEF OneMessagePerOffset
<1>1. CASE Extend
  <2> DEFINE new == messages' \ messages
  <2>1. /\ messages \subseteq messages'
        /\ \A m \in new : m.off \in Nat /\ next <= m.off /\ m.off < next'
        /\ \A m, n \in new : m.off = n.off => m = n
        /\ \E m \in new : next' = m.off + 1
    BY <1>1, Zenon DEF Extend
  <2>2. next' \in Nat /\ next <= next'
    BY <2>1
  <2>3. ASSUME NEW m \in messages'  PROVE m.off \in Nat /\ m.off < next'
    BY <2>1, <2>2
  <2>4. ASSUME NEW m \in messages', NEW n \in messages', m.off = n.off
        PROVE  m = n
    <3>1. CASE m \in messages /\ n \in messages   BY <2>4, <3>1, Zenon
    <3>2. CASE m \in new /\ n \in new             BY <2>1, <2>4, <3>2, Zenon
    <3>3. CASE m \in messages /\ n \in new        BY <2>1, <2>4, <3>3
    <3>4. CASE m \in new /\ n \in messages        BY <2>1, <2>4, <3>4
    <3>5. QED BY <3>1, <3>2, <3>3, <3>4, Zenon
  <2>5. QED BY <2>2, <2>3, <2>4, Zenon
<1>2. CASE Cut
  BY <1>2 DEF Cut
<1>3. CASE Retire \/ Compacted
  BY <1>3, Zenon DEF Retire, Compacted
<1>4. CASE Commit \/ SetFloor \/ Forget \/ UNCHANGED vars
  BY <1>4, Zenon DEF Commit, SetFloor, Forget, vars
<1>5. CASE Drop
  BY <1>5, Zenon DEF Drop
<1>6. QED BY <1>1, <1>2, <1>3, <1>4, <1>5, Zenon DEF Next

HWIsNumber == hw \in Int

LEMMA StepKeepsHW ==
    ASSUME HWIsNumber, [Next]_vars  PROVE HWIsNumber'
  BY DEF HWIsNumber, Next, Commit, SetFloor, Forget, Extend, Compacted, Retire, Cut, Drop, vars

\* No two messages of a log share an offset, through any sequence of appends,
\* truncations, cleanings, restarts and deletions.
THEOREM OffsetsAreUnique == Spec => []OneMessagePerOffset
<1>1. Init => OneMessagePerOffset
  BY DEF Init, OneMessagePerOffset
<1>2. QED BY <1>1, StepKeepsOffsets, PTL DEF Spec

\* A committed message that is the latest of its key is lost only to retention
\* and to the deletion of the log.
THEOREM LatestIsKept == Spec => LatestStays
<1>1. ASSUME OneMessagePerOffset, HWIsNumber, [Next]_vars
      PROVE  [KeepsLatest]_vars
  <2> SUFFICES ASSUME NEW m \in messages, Latest(m), ~(m.off < floor)
               PROVE  m \in messages' \/ messages' = {}
    BY Zenon DEF KeepsLatest
  <2>1. CASE Extend      BY <2>1, Zenon DEF Extend
  <2>2. CASE Cut
    <3>1. m.off \in Nat /\ m.off <= hw    BY <1>1, Zenon DEF Latest, OneMessagePerOffset
    <3>2. ~(m.off > hw)                   BY <1>1, <3>1 DEF HWIsNumber
    <3>3. QED BY <2>2, <3>2, Zenon DEF Cut
  <2>3. CASE Retire      BY <2>3, Zenon DEF Retire
  <2>4. CASE Compacted   BY <2>4, Zenon DEF Compacted, Latest
  <2>5. CASE Drop        BY <2>5, Zenon DEF Drop
  <2>6. CASE Commit \/ SetFloor \/ Forget \/ UNCHANGED vars
    BY <2>6, Zenon DEF Commit, SetFloor, Forget, vars
  <2>7. QED BY <1>1, <2>1, <2>2, <2>3, <2>4, <2>5, <2>6, Zenon DEF Next
<1>2. Init => HWIsNumber
  BY DEF Init, HWIsNumber
<1>3. QED BY <1>1, <1>2, StepKeepsHW, OffsetsAreUnique, PTL DEF Spec, LatestStays
=============================================================================
