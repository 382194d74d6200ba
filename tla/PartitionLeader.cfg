\* A leader and a follower, both needed for a commit.
CONSTANTS
    Self = leader
    Follower = {f1}
    MinISR = 2
    MaxMessages = 2
    MaxBatch = 2
    MaxChanges = 2
SPECIFICATION FairSpec
INVARIANTS TypeOK CommittedOnMinISR AckedCommitted AckedOnce NoAckLeftBehind
PROPERTY NoLostCommitCheck
CHECK_DEADLOCK FALSE
