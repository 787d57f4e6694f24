--------------------------- MODULE StoragePreflight ---------------------------
(***************************************************************************)
(* SetStorage, CheckBackupStorageIsLocked and SetLockFile of               *)
(* src/br/pkg/backup/client.go, run by several backup jobs against one     *)
(* storage prefix.  Each storage call is one step, so the jobs interleave  *)
(* between them.  After the preflight a job writes its SST files (TiKV,    *)
(* during BackupRanges) and then backupmeta (the metaWriter): those two    *)
(* steps are the spec's order of a backup job, not code under src/.        *)
(***************************************************************************)
EXTENDS Naturals, FiniteSets

CONSTANT Jobs           \* backup jobs pointed at the same prefix

VARIABLES
    pc,                 \* per job: its next storage step
    lockFile,           \* the LOCK file exists
    ssts,               \* jobs that have written .sst files into the prefix
    meta,               \* jobs that have written backupmeta
    sstsAtOpen          \* per job: whose .sst files were there at storage.New

vars == <<pc, lockFile, ssts, meta, sstsAtOpen>>

PCs == {"open", "meta", "lock", "walk", "setlock", "backup", "finish",
        "done", "failed"}

TypeOK ==
    /\ pc \in [Jobs -> PCs]
    /\ lockFile \in BOOLEAN
    /\ ssts \subseteq Jobs /\ meta \subseteq Jobs
    /\ sstsAtOpen \in [Jobs -> SUBSET Jobs]

Init ==
    /\ pc = [j \in Jobs |-> "open"]
    /\ lockFile = FALSE
    /\ ssts = {} /\ meta = {}
    /\ sstsAtOpen = [j \in Jobs |-> {}]

Goto(j, to) == pc' = [pc EXCEPT ![j] = to]

\* A storage call that returns an error ends the job.
IOError(j) == Goto(j, "failed")

(* storage.New: the handle, or an error.                                   *)
Open(j) ==
    /\ pc[j] = "open"
    /\ \/ Goto(j, "meta")
       \/ IOError(j)
    /\ sstsAtOpen' = [sstsAtOpen EXCEPT ![j] = ssts]
    /\ UNCHANGED <<lockFile, ssts, meta>>

(* FileExists(backupmeta): an error, or refuse a prefix holding a backup.  *)
CheckMeta(j) ==
    /\ pc[j] = "meta"
    /\ \/ Goto(j, IF meta = {} THEN "lock" ELSE "failed")
       \/ IOError(j)
    /\ UNCHANGED <<lockFile, ssts, meta, sstsAtOpen>>

(* CheckBackupStorageIsLocked, FileExists(LOCK): no LOCK means the prefix  *)
(* is free and SetStorage returns nil.                                      *)
CheckLock(j) ==
    /\ pc[j] = "lock"
    /\ \/ Goto(j, IF lockFile THEN "walk" ELSE "setlock")
       \/ IOError(j)
    /\ UNCHANGED <<lockFile, ssts, meta, sstsAtOpen>>

(* Mutant: WalkDir's error is not returned.                                *)
WalkDirIgnored(j) ==
    /\ pc[j] = "walk"
    /\ Goto(j, "setlock")
    /\ UNCHANGED <<lockFile, ssts, meta, sstsAtOpen>>

(* WalkDir over the prefix: the first .sst file breaks the walk with       *)
(* ErrInvalidArgument; the walk itself can fail.                            *)
WalkDir(j) ==
    /\ pc[j] = "walk"
    /\ \/ Goto(j, IF ssts = {} THEN "setlock" ELSE "failed")
       \/ IOError(j)
    /\ UNCHANGED <<lockFile, ssts, meta, sstsAtOpen>>

(* SetLockFile: WriteFile(LOCK).                                            *)
SetLockFile(j) ==
    /\ pc[j] = "setlock"
    /\ \/ Goto(j, "backup") /\ lockFile' = TRUE
       \/ IOError(j) /\ UNCHANGED lockFile
    /\ UNCHANGED <<ssts, meta, sstsAtOpen>>

(* The job's backup writes its SST files into the prefix.                  *)
WriteSSTs(j) ==
    /\ pc[j] = "backup"
    /\ \/ Goto(j, "finish") /\ ssts' = ssts \cup {j}
       \/ IOError(j) /\ UNCHANGED ssts
    /\ UNCHANGED <<lockFile, meta, sstsAtOpen>>

(* The metaWriter writes backupmeta.                                        *)
WriteMeta(j) ==
    /\ pc[j] = "finish"
    /\ \/ Goto(j, "done") /\ meta' = meta \cup {j}
       \/ IOError(j) /\ UNCHANGED meta
    /\ UNCHANGED <<lockFile, ssts, sstsAtOpen>>

JobStep(j) ==
    \/ Open(j) \/ CheckMeta(j) \/ CheckLock(j) \/ WalkDir(j)
    \/ SetLockFile(j) \/ WriteSSTs(j) \/ WriteMeta(j)

Next == \E j \in Jobs : JobStep(j)

Spec == Init /\ [][Next]_vars
-----------------------------------------------------------------------------
(* Properties.                                                              *)

(* A job that opens the prefix after another job's .sst files are there   *)
(* never writes into it: LOCK plus an .sst found by WalkDir, or the other  *)
(* job's backupmeta, refuses it.                                            *)
LaterJobRefused ==
    \A j \in Jobs : pc[j] \in {"backup", "finish", "done"} => sstsAtOpen[j] = {}

(* At most one job writes backup files into a prefix (the LOCK file's     *)
(* text: "other backup jobs won't use this path").                          *)
OneJobPerPrefix == Cardinality(ssts) <= 1
==============================================================================
