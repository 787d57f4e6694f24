\* Three jobs on one prefix, every storage call may fail.
CONSTANTS
    j1 = j1  j2 = j2  j3 = j3
    Jobs <- MCJobs3
SPECIFICATION Spec
INVARIANT LaterJobRefused
SYMMETRY MCSymmetry3
\* Every job ends done or failed: the final states have no successor.
CHECK_DEADLOCK FALSE
