\* Two holes ([0,1) and [2,3)) raced by two workers, every fault enabled.
CONSTANTS
    s1 = s1  s2 = s2  w1 = w1  w2 = w2
    NoStore = NoStore  NoRange = NoRange  NoResp = NoResp
    Stores <- MCStores
    Workers <- MCWorkers
    LockWaits = {0, 500}
    N = 3
    PushDownResults = {{1}}
    ChanCap = 2
    RetryTimes = 2
    MaxSleeps = 1
    MaxLocks = 1
    MaxTransfers = 1
    Faults = {"pd", "connect", "stream", "reset", "fatal", "resolve"}
SPECIFICATION Spec
INVARIANT TypeOK
INVARIANT NoUnexpectedBackupError
INVARIANT NoGoroutineOutlivesSuccess
SYMMETRY MCSymmetry
\* fineGrainedBackup returns: its terminal states are not deadlocks.
CHECK_DEADLOCK FALSE
