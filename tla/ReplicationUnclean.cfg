\* A crash may lose the end of a log; commits need the whole ISR of two.
CONSTANTS
    s1 = s1
    s2 = s2
    Server = {s1, s2}
    MinISR = 2
    TruncateTimeout = TRUE
    LoseTail = TRUE
    Ops = {"shrink", "expand", "leader"}
    MaxMessages = 1
    MaxOps = 3
    MaxCrashes = 1
SPECIFICATION Spec
SYMMETRY Replicas
INVARIANTS TypeOK  ViewsAgree
