SPECIFICATION Spec
CONSTANTS
    BaseOffset = 3
    IndexEntries = 2
    Sizes = {1, 2}
    MaxBatch = 3
    MaxMessages = 5
    MaxOpens = 3
INVARIANTS
    TypeOK
    IndexRecovered
    Durable
    
PROPERTIES
    AppendOnly
CHECK_DEADLOCK FALSE
