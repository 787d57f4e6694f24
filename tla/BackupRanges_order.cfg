\* Two input ranges of two regions each, a pool of two workers.
CONSTANTS
    R = 2
    N = 2
    Concurrency = 2
SPECIFICATION Spec
INVARIANT ManifestInKeyOrder
CHECK_DEADLOCK FALSE
