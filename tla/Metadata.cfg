SPECIFICATION Spec
CONSTANTS
    a = a
    b = b
    c = c
    None = none
    Server = {a, b, c}
    Absent = {c}
    Stream = {s}
    Partition <- MCPartition
    Scenarios <- MCScenarios
SYMMETRY MCSymmetry
INVARIANTS
    TypeOK
    ViewsAgree
    RestoredAgrees
    RunsAsViewed
    IdleWhileRecovering
    OneLeaderPerEpoch
    ControllerCaughtUp
    AppliesEntries
PROPERTIES
    EpochNeverFalls
CHECK_DEADLOCK FALSE
