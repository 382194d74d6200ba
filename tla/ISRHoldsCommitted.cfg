\* The leader stays in office; a follower leaves the ISR and comes back.
CONSTANTS
    s1 = s1
    s2 = s2
    Server = {s1, s2}
    MinISR = 1
    TruncateTimeout = FALSE
    LoseTail = FALSE
    Ops = {"shrink", "expand"}
    MaxMessages = 2
    MaxOps = 4
    MaxCrashes = 0
SPECIFICATION Spec
SYMMETRY Replicas
INVARIANT ISRHoldsCommitted
