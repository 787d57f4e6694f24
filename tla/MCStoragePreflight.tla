------------------------ MODULE MCStoragePreflight ------------------------
(* Two, then three, backup jobs pointed at one storage prefix.             *)
EXTENDS StoragePreflight, TLC

CONSTANTS j1, j2, j3

MCJobs2 == {j1, j2}
MCJobs3 == {j1, j2, j3}

(* The jobs run the same code: sound for the invariant runs.                *)
MCSymmetry2 == Permutations(MCJobs2)
MCSymmetry3 == Permutations(MCJobs3)
=============================================================================
