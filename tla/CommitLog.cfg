CONSTANTS
    k = k
    nokey = nokey
    Key = {k, nokey}
    NoKey = nokey
    KeyOf <- MCKeyOf
    Readers = {r1}
    SegmentSize = 2
    AgeRollers = {}
    MaxLogMessages = 3
    MaxLogBytes = 3
    MaxLogAge = TRUE
    Compact = TRUE
    Overlap = {}
    ExpireHW = FALSE
    MaxOffset = 3
    MaxLag <- MCMaxLag
    MaxCheckpoints = 1
    MaxBatch = 1
    MaxCleans = 1
    MaxTruncations = 1
    MaxEvents = 3
    MaxRestarts <- MCMaxRestarts
SPECIFICATION Spec
INVARIANTS TypeOK    
PROPERTIES  InOrder 
CHECK_DEADLOCK FALSE
