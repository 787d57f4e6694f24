\* Holes [0,2) and [3,4); respCh holds one response.
CONSTANTS
    s1 = s1  s2 = s2  w1 = w1  w2 = w2
    NoStore = NoStore  NoRange = NoRange  NoResp = NoResp
    Stores <- MCStores
    Workers <- MCWorkers
    LockWaits = {0, 500}
    N = 4
    PushDownResults = {{2}}
    ChanCap = 1
    RetryTimes = 1
    MaxSleeps = 0
    MaxLocks = 0
    MaxTransfers = 0
    Faults = {"pd"}
SPECIFICATION Spec
PROPERTY AllGoroutinesExit
CHECK_DEADLOCK FALSE
