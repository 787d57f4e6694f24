CONSTANTS
    IntBits = 6
    LogicalBits = 1
    MaxPhys = 2
    Durations <- MCDurations
    Overrides <- MCOverrides
    TTLs <- MCTTLsWhole
    DefaultTTL = 3000
    MaxRegistrations = 1
SPECIFICATION Spec
INVARIANT TypeOK
INVARIANT ReturnedTSIsTimeago
