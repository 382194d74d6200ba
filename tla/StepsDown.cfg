\* A leader and a follower; the leadership ends.
CONSTANTS
    Self = leader
    Follower = {f1}
    MinISR = 1
    MaxMessages = 1
    MaxBatch = 1
    MaxChanges = 0
SPECIFICATION FairSpec
PROPERTY StepsDown
CHECK_DEADLOCK FALSE
