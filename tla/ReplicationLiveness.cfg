\* The leader stays in office while the ISR shrinks and grows.
CONSTANTS
    s1 = s1
    s2 = s2
    Server = {s1, s2}
    MinISR = 1
    TruncateTimeout = FALSE
    LoseTail = FALSE
    Ops = {"shrink", "expand"}
    MaxMessages = 2
    MaxOps = 3
    MaxCrashes = 0
SPECIFICATION FairSpec
PROPERTY EventuallyCommitted
