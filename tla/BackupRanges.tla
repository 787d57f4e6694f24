---------------------------- MODULE BackupRanges ----------------------------
(***************************************************************************)
(* BackupRanges and BackupRange of src/br/pkg/backup/client.go: each input *)
(* range runs as a goroutine of an errgroup, started through a worker pool *)
(* of size Concurrency; a range lists the stores, runs push-down, then the *)
(* fine-grained phase, then Ascends its range tree into the one metaWriter *)
(* all ranges share.                                                        *)
(*                                                                          *)
(* The fine-grained phase is taken by its outcomes (FineGrained models    *)
(* it): from what push-down covered, it returns nil with every region     *)
(* covered (the GetIncompleteRange guard), or an error with some more     *)
(* regions covered.  Push-down (push.go) is its contract in the spec: any *)
(* set of regions, or an error.  Cancellation of the errgroup's context   *)
(* makes the later I/O steps of the other ranges fail, which the          *)
(* nondeterministic failure of every I/O step already includes.           *)
(***************************************************************************)
EXTENDS Naturals, Sequences

CONSTANTS
    R,              \* input ranges 1..R, in key order
    N,              \* regions per range, 0..N-1 in key order
    Concurrency     \* size of the worker pool

ASSUME R \in Nat /\ N \in Nat \ {0} /\ Concurrency \in Nat \ {0}

Ranges == 1..R
Cells == 0..N-1

\* The steps of a BackupRange goroutine.
Steps == {"idle", "stores", "push", "fine", "ascend", "ok", "err"}

VARIABLES
    submitted,      \* ranges the for loop has handed to the pool
    free,           \* idle workers of the pool
    st,             \* per range: where its BackupRange goroutine is
    cov,            \* per range: the regions its range tree holds
    asc,            \* per range: Ascend's position in key order
    manifest,       \* metaWriter: the <<range, region>> files sent, in order
    firstErr,       \* the errgroup's first error (TRUE once one is set)
    result          \* what BackupRanges returned

vars == <<submitted, free, st, cov, asc, manifest, firstErr, result>>

TypeOK ==
    /\ submitted \in 0..R /\ free \in 0..Concurrency
    /\ st \in [Ranges -> Steps]
    /\ cov \in [Ranges -> SUBSET Cells]
    /\ asc \in [Ranges -> 0..N]
    /\ manifest \in Seq(Ranges \X Cells)
    /\ firstErr \in BOOLEAN
    /\ result \in {"running", "ok", "err"}

Init ==
    /\ submitted = 0 /\ free = Concurrency
    /\ st = [r \in Ranges |-> "idle"]
    /\ cov = [r \in Ranges |-> {}]
    /\ asc = [r \in Ranges |-> 0]
    /\ manifest = <<>>
    /\ firstErr = FALSE
    /\ result = "running"

(* The goroutine returns: the pool takes its worker back (deferred), and   *)
(* the errgroup records the first error.                                    *)
Release(r, ok) ==
    /\ st' = [st EXCEPT ![r] = IF ok THEN "ok" ELSE "err"]
    /\ free' = free + 1
    /\ firstErr' = (firstErr \/ ~ok)

(* Mutant: the pool hands out a worker whether or not one is free.         *)
SubmitUnbounded ==
    /\ submitted < R
    /\ submitted' = submitted + 1
    /\ free' = free - 1
    /\ st' = [st EXCEPT ![submitted + 1] = "stores"]
    /\ UNCHANGED <<cov, asc, manifest, firstErr, result>>

(* The for loop of BackupRanges: ApplyOnErrorGroup blocks until the pool   *)
(* has a worker, then starts BackupRange for the next range.               *)
Submit ==
    /\ submitted < R /\ free > 0
    /\ submitted' = submitted + 1
    /\ free' = free - 1
    /\ st' = [st EXCEPT ![submitted + 1] = "stores"]
    /\ UNCHANGED <<cov, asc, manifest, firstErr, result>>

(* GetAllTiKVStoresWithRetry: the store list, or an error.                  *)
GetAllStores(r) ==
    /\ st[r] = "stores"
    /\ \/ st' = [st EXCEPT ![r] = "push"] /\ UNCHANGED <<free, firstErr>>
       \/ Release(r, FALSE)
    /\ UNCHANGED <<submitted, cov, asc, manifest, result>>

(* pushBackup into a fresh range tree: the regions the stores answered, or *)
(* an error.                                                                 *)
PushBackup(r) ==
    /\ st[r] = "push"
    /\ \/ \E c \in SUBSET Cells :
             /\ cov' = [cov EXCEPT ![r] = c]
             /\ st' = [st EXCEPT ![r] = "fine"]
             /\ UNCHANGED <<free, firstErr>>
       \/ Release(r, FALSE) /\ UNCHANGED cov
    /\ UNCHANGED <<submitted, asc, manifest, result>>

(* fineGrainedBackup, by its outcomes: nil with no gap                    *)
(* left, or an error with the regions it did fill.  Then progress          *)
(* RangeUnit.                                                               *)
FineGrainedBackup(r) ==
    /\ st[r] = "fine"
    /\ \/ cov' = [cov EXCEPT ![r] = Cells]
          /\ st' = [st EXCEPT ![r] = "ascend"]
          /\ UNCHANGED <<free, firstErr>>
       \/ \E c \in SUBSET Cells :
             /\ cov[r] \subseteq c
             /\ cov' = [cov EXCEPT ![r] = c]
             /\ Release(r, FALSE)
    /\ UNCHANGED <<submitted, asc, manifest, result>>

(* The next region the tree holds at or after Ascend's position.           *)
NextInTree(r) ==
    LET rest == {c \in cov[r] : c >= asc[r]} IN
    IF rest = {} THEN N ELSE CHOOSE c \in rest : \A d \in rest : c <= d

(* Mutant: a failed metaWriter.Send is not returned from Ascend.           *)
SendIgnoresError(r) ==
    /\ st[r] = "ascend"
    /\ LET c == NextInTree(r) IN
       \/ c = N /\ Release(r, TRUE) /\ UNCHANGED <<asc, manifest>>
       \/ c < N /\ asc' = [asc EXCEPT ![r] = c + 1]
          /\ manifest' = Append(manifest, <<r, c>>)
          /\ UNCHANGED <<st, free, firstErr>>
       \/ c < N /\ Release(r, TRUE) /\ UNCHANGED <<asc, manifest>>
    /\ UNCHANGED <<submitted, cov, result>>

(* results.Ascend: metaWriter.Send the files of the next region in key     *)
(* order; a failed Send stops the walk and BackupRange returns it; after   *)
(* the last region (checkDupFiles only logs) BackupRange returns nil.      *)
Send(r) ==
    /\ st[r] = "ascend"
    /\ LET c == NextInTree(r) IN
       \/ c = N /\ Release(r, TRUE) /\ UNCHANGED <<asc, manifest>>
       \/ c < N /\ asc' = [asc EXCEPT ![r] = c + 1]
          /\ manifest' = Append(manifest, <<r, c>>)
          /\ UNCHANGED <<st, free, firstErr>>
       \/ c < N /\ Release(r, FALSE) /\ UNCHANGED <<asc, manifest>>
    /\ UNCHANGED <<submitted, cov, result>>

(* eg.Wait: once every goroutine has returned, the first error or nil.     *)
Wait ==
    /\ result = "running"
    /\ submitted = R
    /\ \A r \in Ranges : st[r] \in {"ok", "err"}
    /\ result' = IF firstErr THEN "err" ELSE "ok"
    /\ UNCHANGED <<submitted, free, st, cov, asc, manifest, firstErr>>

RangeStep(r) ==
    GetAllStores(r) \/ PushBackup(r) \/ FineGrainedBackup(r) \/ Send(r)

Next == Submit \/ Wait \/ \E r \in Ranges : RangeStep(r)

Spec == Init /\ [][Next]_vars
-----------------------------------------------------------------------------
(* Properties.                                                              *)

\* The files of range r, in the order they were sent.
FilesOf(r) == SelectSeq(manifest, LAMBDA e : e[1] = r)

(* When BackupRanges returns nil, the manifest holds every region of every *)
(* input range exactly once, each range's regions in key order: a failed  *)
(* metaWriter.Send or an incomplete fine-grained phase never ends in a     *)
(* partial manifest that reports success.                                   *)
SuccessMeansCompleteManifest ==
    result = "ok" =>
        \A r \in Ranges : FilesOf(r) = [i \in 1..N |-> <<r, i - 1>>]

(* The manifest lists files in ascending key order (spec 3 and 5: "Output  *)
(* manifest entries are in ascending start-key order because they come    *)
(* from a single Ascend traversal").                                        *)
ManifestInKeyOrder ==
    \A i, j \in 1..Len(manifest) :
        i < j => \/ manifest[i][1] < manifest[j][1]
                 \/ manifest[i][1] = manifest[j][1] /\ manifest[i][2] < manifest[j][2]
=============================================================================
