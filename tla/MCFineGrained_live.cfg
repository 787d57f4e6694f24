\* Every push-down outcome over two regions, every fault enabled: termination.
CONSTANTS
    s1 = s1  s2 = s2  w1 = w1  w2 = w2
    NoStore = NoStore  NoRange = NoRange  NoResp = NoResp
    Stores <- MCStores
    Workers <- MCWorkers
    LockWaits = {0, 500}
    N = 2
    PushDownResults = {{}, {0}, {1}, {0, 1}}
    ChanCap = 2
    RetryTimes = 2
    MaxSleeps = 2
    MaxLocks = 1
    MaxTransfers = 1
    Faults = {"pd", "connect", "stream", "reset", "fatal", "resolve"}
SPECIFICATION Spec
PROPERTY Terminates
\* fineGrainedBackup returns: its terminal states are not deadlocks.
CHECK_DEADLOCK FALSE
