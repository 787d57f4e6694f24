\* Three input ranges of two regions each, a pool of two workers.
CONSTANTS
    R = 3
    N = 2
    Concurrency = 2
SPECIFICATION Spec
INVARIANT TypeOK
INVARIANT SuccessMeansCompleteManifest
\* BackupRanges returns: its final state has no successor.
CHECK_DEADLOCK FALSE
