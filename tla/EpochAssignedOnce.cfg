\* One change of the leader and two crashes that lose nothing.
CONSTANTS
    s1 = s1
    s2 = s2
    Server = {s1, s2}
    MinISR = 1
    TruncateTimeout = TRUE
    LoseTail = FALSE
    Ops = {"leader"}
    MaxMessages = 3
    MaxOps = 2
    MaxCrashes = 2
SPECIFICATION Spec
SYMMETRY Replicas
INVARIANT EpochAssignedOnce
