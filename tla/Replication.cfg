\* Changes of the leader, timeouts and one crash that loses nothing.
CONSTANTS
    s1 = s1
    s2 = s2
    Server = {s1, s2}
    MinISR = 1
    TruncateTimeout = TRUE
    LoseTail = FALSE
    Ops = {"leader"}
    MaxMessages = 2
    MaxOps = 3
    MaxCrashes = 1
SPECIFICATION Spec
SYMMETRY Replicas
INVARIANTS LogMatching LeaderHoldsEpoch
PROPERTY LeaderAppendOnly
