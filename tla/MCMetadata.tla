----------------------------- MODULE MCMetadata -----------------------------
\* Metadata with the values TLC uses for it.
EXTENDS Metadata

CONSTANTS a, b, c

MCPartition == {0, 1}
MCSymmetry == Permutations(Server \ Absent)

Ops(create, isr, elect, delete, pause) ==
    ("create" :> create) @@ ("shrink" :> isr) @@ ("expand" :> isr) @@ ("elect" :> elect)
       @@ ("delete" :> delete) @@ ("pause" :> pause)

MCScenarios ==
    \* leader reports, with a quorum of several witnesses, for two partitions
    ("reports" :> [ops |-> Ops(2, 1, 1, 0, 0), log |-> 3,
                   partitions |-> {0, 1}, factors |-> {3}, pauses |-> {},
                   terms |-> 1, crashes |-> 0, snapshots |-> 0, reports |-> 3])
    \* replay on top of a snapshot, and the snapshot of another server
    @@ ("snapshots" :> [ops |-> Ops(1, 1, 1, 1, 0), log |-> 3,
                   partitions |-> {0}, factors |-> {2}, pauses |-> {},
                   terms |-> 1, crashes |-> 1, snapshots |-> 1, reports |-> 1])
    \* pausing, resuming, deleting and creating again
    @@ ("pauses" :> [ops |-> Ops(2, 0, 1, 1, 1), log |-> 3,
                   partitions |-> {0}, factors |-> {2}, pauses |-> {{}, {1}},
                   terms |-> 1, crashes |-> 1, snapshots |-> 0, reports |-> 1])
    \* changes of the controller
    @@ ("terms" :> [ops |-> Ops(1, 1, 1, 1, 0), log |-> 2,
                   partitions |-> {0}, factors |-> {2}, pauses |-> {},
                   terms |-> 3, crashes |-> 0, snapshots |-> 0, reports |-> 1])
=============================================================================
