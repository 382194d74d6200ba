\* Two changes of the leader, no crash, no timeout of a leader offset request.
CONSTANTS
    s1 = s1
    s2 = s2
    Server = {s1, s2}
    MinISR = 1
    TruncateTimeout = FALSE
    LoseTail = FALSE
    Ops = {"leader"}
    MaxMessages = 2
    MaxOps = 3
    MaxCrashes = 0
SPECIFICATION Spec
SYMMETRY Replicas
INVARIANT AckedPreserved
