\* Four one-region holes 0, 2, 4, 6; retry holds one range, two workers.
CONSTANTS
    s1 = s1  s2 = s2  w1 = w1  w2 = w2
    NoStore = NoStore  NoRange = NoRange  NoResp = NoResp
    Stores <- MCStores
    Workers <- MCWorkers
    LockWaits = {0, 500}
    N = 7
    PushDownResults = {{1, 3, 5}}
    ChanCap = 1
    RetryTimes = 1
    MaxSleeps = 0
    MaxLocks = 0
    MaxTransfers = 0
    Faults = {"pd"}
SPECIFICATION Spec
PROPERTY RetrySendCompletes
CHECK_DEADLOCK FALSE
