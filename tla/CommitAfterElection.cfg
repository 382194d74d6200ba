\* One change of the leader, no crash.
CONSTANTS
    s1 = s1
    s2 = s2
    Server = {s1, s2}
    MinISR = 1
    TruncateTimeout = FALSE
    LoseTail = FALSE
    Ops = {"leader"}
    MaxMessages = 1
    MaxOps = 2
    MaxCrashes = 0
SPECIFICATION FairSpec
PROPERTY EventuallyCommitted
