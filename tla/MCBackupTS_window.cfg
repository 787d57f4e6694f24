CONSTANTS
    IntBits = 6
    LogicalBits = 1
    MaxPhys = 2
    Durations <- MCDurations
    Overrides <- MCOverrides
    TTLs = {2000}
    DefaultTTL = 3000
    MaxRegistrations = 1
SPECIFICATION Spec
CONSTRAINT TTLSetFirst
INVARIANT RegisteredTSNeverCollected
