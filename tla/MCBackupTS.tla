----------------------------- MODULE MCBackupTS -----------------------------
(* BackupTS at a 6-bit TS with 1 logical bit: PD's physical clock         *)
(* 0..2 ms, so a timeago of 3 ms reaches below the epoch.                  *)
EXTENDS BackupTS

MCDurations == {-1, 0, 1, 3}
MCOverrides == {0, 3}
\* SetGCTTL inputs: non-positive (default), whole seconds, sub-second.
MCTTLs == {0, 2000, 500}
MCTTLsWhole == {0, 2000}
\* A caller that sets a positive TTL with SetGCTTL before it calls
\* UpdateBRGCSafePoint: the registered TTL is then never 0.
TTLSetFirst == pending # NoCall => gcTTL > 0
=============================================================================
