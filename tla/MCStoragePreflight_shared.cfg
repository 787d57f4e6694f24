\* Two jobs on one prefix.
CONSTANTS
    j1 = j1  j2 = j2  j3 = j3
    Jobs <- MCJobs2
SPECIFICATION Spec
INVARIANT OneJobPerPrefix
CHECK_DEADLOCK FALSE
