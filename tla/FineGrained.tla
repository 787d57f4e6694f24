---------------------------- MODULE FineGrained ----------------------------
(***************************************************************************)
(* The fine-grained phase of a BR backup (src/br/pkg/backup/client.go):    *)
(* fineGrainedBackup, its worker goroutines running handleFineGrained and  *)
(* SendBackup, the dispatcher goroutine, the response classifier           *)
(* OnBackupResponse and the retry predicate isRetryableError.              *)
(*                                                                         *)
(* The key interval [startKey, endKey) is abstracted to the cells          *)
(* 0..N-1; each cell is one region.  The range tree (rtree, not under      *)
(* src/) is the set of covered cells.  TiKV and PD are the environment:    *)
(* what a stream returns, whether PD answers, who leads a region.          *)
(***************************************************************************)
EXTENDS Integers, Sequences, FiniteSets, SequencesExt

CONSTANTS
    N,              \* number of regions (cells) in the backed-up range
    Stores,         \* TiKV store ids
    Workers,        \* the fine-grained worker goroutines (the code starts 4)
    ChanCap,        \* capacity of the retry/resp channels (4 in the code)
    RetryTimes,     \* backupRetryTimes (5 in the code)
    MaxSleeps,      \* backoff sleeps the 80 s backupFineGrainedMaxBackoff admits
    MaxLocks,       \* bound on Locked responses the workload produces
    MaxTransfers,   \* bound on leader transfers during the phase
    LockWaits,      \* msBeforeExpired values ResolveLocks may return
    Faults,         \* the environment faults enabled in this model
    PushDownResults, \* sets of regions push-down may have left covered
    NoStore, NoRange, NoResp  \* sentinels

ASSUME /\ N \in Nat \ {0}
       /\ ChanCap \in Nat \ {0}
       /\ RetryTimes \in Nat \ {0}
       /\ MaxSleeps \in Nat /\ MaxLocks \in Nat /\ MaxTransfers \in Nat
       /\ LockWaits \subseteq Nat
       /\ PushDownResults \subseteq SUBSET (0..N-1)
       /\ Faults \subseteq {"pd", "connect", "stream", "reset", "fatal", "resolve"}

Cells == 0..N-1
NoError == "none"

(* Errors a worker can send on errCh, and the phase's final results.        *)
Errors == {"BackupNoLeader", "ConnectFailed", "ResetFailed", "KVUnknown",
           "KVClusterIDMismatch", "ResolveLockFailed", "BackoffExceeded",
           "Panic"}

(* gRPC stream errors: code and whether the message contains               *)
(* "the client connection is closing".                                      *)
StreamErrors == {[code |-> "Unavailable", closing |-> FALSE],
                 [code |-> "Canceled", closing |-> TRUE],
                 [code |-> "Canceled", closing |-> FALSE],
                 [code |-> "Unknown", closing |-> FALSE]}

(* isRetryableError *)
IsRetryableError(e) ==
    \/ e.code = "Unavailable"
    \/ e.code = "Canceled" /\ e.closing

(* The region errors OnBackupResponse ignores.                              *)
AllowedRegionErrors ==
    {"EpochNotMatch", "NotLeader", "RegionNotFound", "ServerIsBusy",
     "StaleCommand", "StoreNotMatch", "ReadIndexNotReady",
     "ProposalInMergingMode"}
RegionErrors == AllowedRegionErrors \cup {"KeyNotInRegion"}

ResponseKinds == {"None", "Locked", "KvOther", "ClusterIdError",
                  "StorageRetryable", "Unknown"} \cup RegionErrors

ResolveFailed == -1

(* Mutant: the allow-listed region errors are forwarded instead of dropped. *)
OnBackupResponseKeepsRegionError(kind, resolved) ==
    CASE kind = "None" -> [keep |-> TRUE, ms |-> 0, err |-> NoError]
      [] kind = "Locked" /\ resolved = ResolveFailed ->
             [keep |-> FALSE, ms |-> 0, err |-> "ResolveLockFailed"]
      [] kind = "Locked" ->
             [keep |-> FALSE, ms |-> IF resolved > 0 THEN resolved ELSE 0,
              err |-> NoError]
      [] kind \in AllowedRegionErrors ->
             [keep |-> TRUE, ms |-> 1000, err |-> NoError]
      [] kind = "StorageRetryable" -> [keep |-> FALSE, ms |-> 3000, err |-> NoError]
      [] OTHER -> [keep |-> FALSE, ms |-> 0, err |-> "KVUnknown"]

(* OnBackupResponse: a response error kind, and for a Locked error the      *)
(* outcome of ResolveLocks, to (keep the response?, backoff ms, error).     *)
OnBackupResponse(kind, resolved) ==
    CASE kind = "None" -> [keep |-> TRUE, ms |-> 0, err |-> NoError]
      [] kind = "Locked" /\ resolved = ResolveFailed ->
             [keep |-> FALSE, ms |-> 0, err |-> "ResolveLockFailed"]
      [] kind = "Locked" ->
             [keep |-> FALSE, ms |-> IF resolved > 0 THEN resolved ELSE 0,
              err |-> NoError]
      [] kind = "KvOther" -> [keep |-> FALSE, ms |-> 0, err |-> "KVUnknown"]
      [] kind \in AllowedRegionErrors ->
             [keep |-> FALSE, ms |-> 1000, err |-> NoError]
      [] kind \in RegionErrors -> [keep |-> FALSE, ms |-> 0, err |-> "KVUnknown"]
      [] kind = "ClusterIdError" ->
             [keep |-> FALSE, ms |-> 0, err |-> "KVClusterIDMismatch"]
      [] kind = "StorageRetryable" -> [keep |-> FALSE, ms |-> 3000, err |-> NoError]
      [] OTHER -> [keep |-> FALSE, ms |-> 0, err |-> "KVUnknown"]

(* rtree.GetIncompleteRange(startKey, endKey): the maximal runs of          *)
(* uncovered cells, in key order, as half-open pairs <<s, e>>.              *)
IsGap(cov, s, e) ==
    /\ s < e
    /\ \A c \in s..(e-1) : c \notin cov
    /\ s = 0 \/ (s-1) \in cov
    /\ e = N \/ e \in cov
GetIncompleteRange(cov) ==
    SetToSortSeq({g \in Cells \X (1..N) : IsGap(cov, g[1], g[2])},
                 LAMBDA a, b : a[1] < b[1])

RangeCells(rg) == rg[1]..(rg[2]-1)
-----------------------------------------------------------------------------
VARIABLES
    covered,      \* rangeTree: the cells some Put has covered
    leader,       \* PD/TiKV: the store leading each region
    locks,        \* Locked responses produced so far (environment bound)
    transfers,    \* leader transfers so far (environment bound)
    phase,        \* fineGrainedBackup's goroutine: where it is in its loop
    result,       \* what fineGrainedBackup returned
    mainResp,     \* the response the main goroutine is putting
    slept,        \* backoff sleeps taken by bo
    maxMs,        \* max.ms, guarded by max.mu
    dpc,          \* the dispatcher goroutine
    toSend,       \* incomplete ranges the dispatcher has still to send
    retryCh, retryClosed,
    respCh, respClosed,
    errCh,
    worker        \* per worker goroutine: pc and handleFineGrained locals

mainVars == <<covered, phase, result, mainResp, slept>>
dispVars == <<dpc, toSend, retryCh, retryClosed, respClosed>>
vars == <<covered, leader, locks, transfers, phase, result, mainResp, slept, maxMs,
          dpc, toSend, retryCh, retryClosed, respCh, respClosed, errCh, worker>>

Holes == {g \in Cells \X (1..N) : g[1] < g[2]}
Responses == [cell : Cells, err : ResponseKinds]
BackoffValues == {0, 1000, 3000, 10000, 20000} \cup LockWaits
WorkerPCs == {"range", "leader", "client", "open", "recv", "send", "exited"}
IdleWorker == [pc |-> "exited", rg |-> NoRange, store |-> NoStore, retry |-> 0,
               ms |-> 0, prog |-> FALSE, ans |-> {}, resp |-> NoResp]

TypeOK ==
    /\ covered \subseteq Cells
    /\ leader \in [Cells -> Stores]
    /\ locks \in 0..MaxLocks
    /\ transfers \in 0..MaxTransfers
    /\ phase \in {"scan", "select", "put", "backoff", "done", "failed"}
    /\ result \in Errors \cup {NoError}
    /\ mainResp \in Responses \cup {NoResp}
    /\ slept \in 0..MaxSleeps
    /\ maxMs \in BackoffValues
    /\ dpc \in {"send", "wait", "exited"}
    /\ toSend \in Seq(Holes) /\ retryCh \in Seq(Holes) /\ Len(retryCh) <= ChanCap
    /\ respCh \in Seq(Responses) /\ Len(respCh) <= ChanCap
    /\ errCh \in Seq(Errors)
    /\ {retryClosed, respClosed} \subseteq BOOLEAN
    /\ worker \in [Workers -> [pc : WorkerPCs, rg : Holes \cup {NoRange},
                               store : Stores \cup {NoStore},
                               retry : 0..RetryTimes, ms : BackoffValues,
                               prog : BOOLEAN, ans : SUBSET Cells,
                               resp : Responses \cup {NoResp}]]

(* Push-down (push.go, not under src/) leaves some regions covered.        *)
Init ==
    /\ covered \in PushDownResults
    /\ leader \in [Cells -> Stores]
    /\ locks = 0 /\ transfers = 0
    /\ phase = "scan" /\ result = NoError /\ mainResp = NoResp
    /\ slept = 0 /\ maxMs = 0
    /\ dpc = "exited" /\ toSend = <<>>
    /\ retryCh = <<>> /\ retryClosed = FALSE
    /\ respCh = <<>> /\ respClosed = FALSE /\ errCh = <<>>
    /\ worker = [w \in Workers |-> IdleWorker]

-----------------------------------------------------------------------------
(* The main goroutine of fineGrainedBackup.                                 *)

(* The main goroutine is parked in its select with no case ready: a send   *)
(* on errCh is then handed to it directly by the Go runtime.                *)
MainParked ==
    /\ phase = "select"
    /\ respCh = <<>> /\ ~respClosed /\ errCh = <<>>

(* Step1 and Step2: look for incomplete ranges; return, or start the       *)
(* workers and the dispatcher of a new round.                               *)
Scan ==
    /\ phase = "scan"
    /\ LET incomplete == GetIncompleteRange(covered) IN
       IF incomplete = <<>>
       THEN /\ phase' = "done"
            /\ UNCHANGED <<maxMs, dispVars, respCh, errCh, worker>>
       ELSE /\ phase' = "select"
            /\ maxMs' = 0
            /\ toSend' = incomplete /\ dpc' = "send"
            /\ retryCh' = <<>> /\ retryClosed' = FALSE
            /\ respCh' = <<>> /\ respClosed' = FALSE /\ errCh' = <<>>
            /\ worker' = [w \in Workers |-> [IdleWorker EXCEPT !.pc = "range"]]
    /\ UNCHANGED <<covered, leader, locks, result, mainResp, slept>>

SelectErr ==
    /\ phase = "select" /\ errCh # <<>>
    /\ phase' = "failed" /\ result' = Head(errCh)
    /\ errCh' = Tail(errCh)
    /\ UNCHANGED <<covered, leader, locks, mainResp, slept, maxMs, dispVars,
                   respCh, worker>>

SelectResp ==
    /\ phase = "select" /\ respCh # <<>>
    /\ phase' = "put" /\ mainResp' = Head(respCh)
    /\ respCh' = Tail(respCh)
    /\ UNCHANGED <<covered, leader, locks, result, slept, maxMs, dispVars,
                   errCh, worker>>

SelectClosed ==
    /\ phase = "select" /\ respCh = <<>> /\ respClosed
    /\ phase' = "backoff"
    /\ UNCHANGED <<covered, leader, locks, result, mainResp, slept, maxMs,
                   dispVars, respCh, errCh, worker>>

(* A response carrying an error panics ("unexpected backup error");        *)
(* otherwise rangeTree.Put and back to the select.                          *)
PutResp ==
    /\ phase = "put"
    /\ IF mainResp.err # "None"
       THEN phase' = "failed" /\ result' = "Panic" /\ UNCHANGED covered
       ELSE /\ phase' = "select" /\ UNCHANGED result
            /\ covered' = covered \cup {mainResp.cell}
    /\ mainResp' = NoResp
    /\ UNCHANGED <<leader, locks, slept, maxMs, dispVars, respCh, errCh, worker>>

(* Step3: bo.BackoffWithMaxSleepTxnLockFast(ms) when ms != 0; the          *)
(* backoffer refuses once its budget is spent.                              *)
Backoff ==
    /\ phase = "backoff"
    /\ \/ maxMs = 0 /\ phase' = "scan" /\ UNCHANGED <<result, slept>>
       \/ maxMs # 0 /\ slept < MaxSleeps
          /\ slept' = slept + 1 /\ phase' = "scan" /\ UNCHANGED result
       \/ maxMs # 0 /\ slept = MaxSleeps
          /\ phase' = "failed" /\ result' = "BackoffExceeded" /\ UNCHANGED slept
    /\ UNCHANGED <<covered, leader, locks, mainResp, maxMs, dispVars, respCh,
                   errCh, worker>>

-----------------------------------------------------------------------------
(* The dispatcher goroutine: send every incomplete range on retry, close   *)
(* it, wait for the workers, close respCh.                                  *)

DispatchRange ==
    /\ dpc = "send" /\ toSend # <<>> /\ Len(retryCh) < ChanCap
    /\ retryCh' = Append(retryCh, Head(toSend))
    /\ toSend' = Tail(toSend)
    /\ UNCHANGED <<mainVars, leader, locks, maxMs, dpc, retryClosed,
                   respCh, respClosed, errCh, worker>>

CloseRetry ==
    /\ dpc = "send" /\ toSend = <<>>
    /\ retryClosed' = TRUE /\ dpc' = "wait"
    /\ UNCHANGED <<mainVars, leader, locks, maxMs, toSend, retryCh,
                   respCh, respClosed, errCh, worker>>

(* Mutant: respCh is closed without wg.Wait for the workers.               *)
CloseRespNoWait ==
    /\ dpc = "wait"
    /\ respClosed' = TRUE /\ dpc' = "exited"
    /\ UNCHANGED <<mainVars, leader, locks, maxMs, toSend, retryCh,
                   retryClosed, respCh, errCh, worker>>

CloseResp ==
    /\ dpc = "wait"
    /\ \A w \in Workers : worker[w].pc = "exited"
    /\ respClosed' = TRUE /\ dpc' = "exited"
    /\ UNCHANGED <<mainVars, leader, locks, maxMs, toSend, retryCh,
                   retryClosed, respCh, errCh, worker>>
-----------------------------------------------------------------------------
(* The worker goroutines: `for rg := range retry`, handleFineGrained.      *)

(* handleFineGrained returned an error: errCh <- err; return (wg.Done).    *)
Fail(w, e) ==
    /\ worker' = [worker EXCEPT ![w] = IdleWorker]
    /\ IF MainParked
       THEN phase' = "failed" /\ result' = e /\ UNCHANGED errCh
       ELSE errCh' = Append(errCh, e) /\ UNCHANGED <<phase, result>>
    /\ UNCHANGED <<covered, leader, mainResp, slept, maxMs, dispVars, respCh>>

(* handleFineGrained returned (ms, nil): fold ms into max.ms under max.mu  *)
(* and take the next range.                                                 *)
Return(w, ms) ==
    /\ maxMs' = IF ms # 0 /\ maxMs < ms THEN ms ELSE maxMs
    /\ worker' = [worker EXCEPT ![w] = [IdleWorker EXCEPT !.pc = "range"]]
    /\ UNCHANGED <<mainVars, leader, dispVars, respCh, errCh>>

(* Mutant: no 10 s debounce when the stream ended without a response.     *)
HandleFineGrainedMsNoDebounce(w) == worker[w].ms

(* The backoff handleFineGrained returns after SendBackup returned nil:    *)
(* 10 s when no response arrived, else the largest classifier backoff.      *)
HandleFineGrainedMs(w) == IF worker[w].prog THEN worker[w].ms ELSE 10000

(* A worker step that touches only its own locals.                          *)
Local(w, rec) ==
    /\ worker' = [worker EXCEPT ![w] = rec]
    /\ UNCHANGED <<mainVars, leader, maxMs, dispVars, respCh, errCh>>

RecvRange(w) ==
    /\ worker[w].pc = "range"
    /\ \/ /\ retryCh # <<>>
          /\ worker' = [worker EXCEPT ![w].pc = "leader", ![w].rg = Head(retryCh)]
          /\ retryCh' = Tail(retryCh)
       \/ /\ retryCh = <<>> /\ retryClosed
          /\ worker' = [worker EXCEPT ![w] = IdleWorker]
          /\ UNCHANGED retryCh
    /\ UNCHANGED <<mainVars, leader, locks, maxMs, dpc, toSend, retryClosed,
                   respClosed, respCh, errCh>>

(* findRegionLeader: PD names the leader of the region of rg's start key,  *)
(* or all five lookups fail.                                                *)
FindRegionLeader(w) ==
    /\ worker[w].pc = "leader"
    /\ UNCHANGED locks
    /\ \/ Local(w, [worker[w] EXCEPT !.pc = "client",
                                     !.store = leader[worker[w].rg[1]]])
       \/ "pd" \in Faults /\ Fail(w, "BackupNoLeader")

(* mgr.GetBackupClient: ErrFailedToConnect becomes a 20 s backoff.         *)
GetBackupClient(w) ==
    /\ worker[w].pc = "client"
    /\ UNCHANGED locks
    /\ \/ Local(w, [worker[w] EXCEPT !.pc = "open", !.retry = 0, !.ms = 0,
                                     !.prog = FALSE])
       \/ "connect" \in Faults /\ Return(w, 20000)
       \/ "connect" \in Faults /\ Fail(w, "ConnectFailed")

(* A retryable stream error: sleep 3 s, resetFn, next turn of backupLoop.  *)
(* A reset failing with ErrFailedToConnect is a 20 s backoff for           *)
(* handleFineGrained, any other reset failure its error.                    *)
ResetAndRetry(w) ==
    \/ Local(w, [worker[w] EXCEPT !.pc = "open", !.retry = @ + 1])
    \/ "reset" \in Faults /\ Return(w, 20000)
    \/ "reset" \in Faults /\ Fail(w, "ResetFailed")

(* A stream error: retried when isRetryableError, otherwise SendBackup     *)
(* returns ErrFailedToConnect, which handleFineGrained turns into 20 s.     *)
StreamError(w) ==
    /\ "stream" \in Faults
    /\ \E e \in StreamErrors :
          IF IsRetryableError(e) THEN ResetAndRetry(w) ELSE Return(w, 20000)

(* SendBackup, head of backupLoop: client.Backup opens the stream.         *)
OpenStream(w) ==
    /\ worker[w].pc = "open" /\ worker[w].retry < RetryTimes
    /\ UNCHANGED locks
    /\ \/ Local(w, [worker[w] EXCEPT !.pc = "recv", !.ans = {}])
       \/ StreamError(w)

(* backupLoop ran backupRetryTimes turns without EOF: SendBackup returns   *)
(* nil.                                                                     *)
SendBackupExhausted(w) ==
    /\ worker[w].pc = "open" /\ worker[w].retry = RetryTimes
    /\ UNCHANGED locks
    /\ Return(w, HandleFineGrainedMs(w))

(* What the store answers for region c: the leader backs it up or reports  *)
(* a lock or a transient storage error; a follower reports NotLeader.       *)
StoreAnswers(w, c) ==
    IF leader[c] = worker[w].store
    THEN {"None", "StorageRetryable"}
         \cup (IF locks < MaxLocks THEN {"Locked"} ELSE {})
         \cup (IF "fatal" \in Faults THEN {"ClusterIdError", "KeyNotInRegion"} ELSE {})
    ELSE {"NotLeader"}

ResolveOutcomes(kind) ==
    IF kind = "Locked"
    THEN LockWaits \cup (IF "resolve" \in Faults THEN {ResolveFailed} ELSE {})
    ELSE {0}

(* bcli.Recv and the respFn callback of handleFineGrained.                  *)
RecvResponse(w) ==
    /\ worker[w].pc = "recv"
    /\ \E c \in RangeCells(worker[w].rg) \ worker[w].ans :
       \E kind \in StoreAnswers(w, c) : \E resolved \in ResolveOutcomes(kind) :
          LET r == OnBackupResponse(kind, resolved) IN
          /\ locks' = IF kind = "Locked" THEN locks + 1 ELSE locks
          /\ IF r.err # NoError
             THEN Fail(w, r.err)
             ELSE Local(w, [worker[w] EXCEPT
                              !.ans = @ \cup {c},
                              !.ms = IF @ < r.ms THEN r.ms ELSE @,
                              !.pc = IF r.keep THEN "send" ELSE "recv",
                              !.resp = IF r.keep THEN [cell |-> c, err |-> kind]
                                                 ELSE NoResp,
                              !.prog = IF r.keep THEN @ ELSE TRUE])

RecvEOF(w) ==
    /\ worker[w].pc = "recv"
    /\ UNCHANGED locks
    /\ Return(w, HandleFineGrainedMs(w))

RecvError(w) ==
    /\ worker[w].pc = "recv"
    /\ UNCHANGED locks
    /\ StreamError(w)

(* Mutant: the send ignores respCh's capacity.                              *)
SendRespUnbounded(w) ==
    /\ worker[w].pc = "send"
    /\ respCh' = Append(respCh, worker[w].resp)
    /\ worker' = [worker EXCEPT ![w].pc = "recv", ![w].resp = NoResp,
                                ![w].prog = TRUE]
    /\ UNCHANGED <<mainVars, leader, locks, maxMs, dispVars, errCh>>

(* respCh <- response; hasProgress = true.                                  *)
SendResp(w) ==
    /\ worker[w].pc = "send" /\ Len(respCh) < ChanCap
    /\ respCh' = Append(respCh, worker[w].resp)
    /\ worker' = [worker EXCEPT ![w].pc = "recv", ![w].resp = NoResp,
                                ![w].prog = TRUE]
    /\ UNCHANGED <<mainVars, leader, locks, maxMs, dispVars, errCh>>

-----------------------------------------------------------------------------
(* Environment: a region's leadership moves to another store.              *)
LeaderTransfer ==
    /\ phase \notin {"done", "failed"}
    /\ transfers < MaxTransfers /\ transfers' = transfers + 1
    /\ \E c \in Cells, s \in Stores :
          /\ leader[c] # s
          /\ leader' = [leader EXCEPT ![c] = s]
    /\ UNCHANGED <<covered, locks, phase, result, mainResp, slept, maxMs,
                   dispVars, respCh, errCh, worker>>

MainStep ==
    /\ \/ Scan \/ SelectErr \/ SelectResp \/ SelectClosed \/ PutResp \/ Backoff
    /\ UNCHANGED transfers

DispatcherStep ==
    /\ DispatchRange \/ CloseRetry \/ CloseResp
    /\ UNCHANGED transfers

WorkerStep(w) ==
    /\ \/ RecvRange(w) \/ FindRegionLeader(w) \/ GetBackupClient(w)
       \/ OpenStream(w) \/ SendBackupExhausted(w)
       \/ RecvResponse(w) \/ RecvEOF(w) \/ RecvError(w) \/ SendResp(w)
    /\ UNCHANGED transfers

Next ==
    \/ MainStep
    \/ DispatcherStep
    \/ \E w \in Workers : WorkerStep(w)
    \/ LeaderTransfer

(* Go's scheduler eventually runs every runnable goroutine.  Weak fairness *)
(* of a worker's step also assumes of the environment that a store's       *)
(* stream eventually answers: a response, an error or EOF.                  *)
Fairness ==
    /\ WF_vars(MainStep)
    /\ WF_vars(DispatcherStep)
    /\ \A w \in Workers : WF_vars(WorkerStep(w))

Spec == Init /\ [][Next]_vars /\ Fairness

-----------------------------------------------------------------------------
(* Properties.                                                              *)

(* The "unexpected backup error" panic of fineGrainedBackup never fires:   *)
(* OnBackupResponse forwards no response carrying an error to respCh, in   *)
(* any interleaving of the workers with the main goroutine.                 *)
NoUnexpectedBackupError == result # "Panic"

(* fineGrainedBackup eventually returns: every round covers a region,      *)
(* spends backoff budget, or resolves a lock (spec §8: "never loop         *)
(* forever", even when stores answer with an immediate EOF).                *)
Terminates == <>(phase \in {"done", "failed"})

(* An error a worker sends on errCh aborts fineGrainedBackup (spec §7:     *)
(* fatal errors "surface immediately, abort the whole job"): the main      *)
(* goroutine never leaves its select loop for the backoff step while an    *)
(* error is waiting on errCh.                                               *)
ErrorsSurface == phase = "backoff" => errCh = <<>>

(* When fineGrainedBackup returns nil no goroutine of any round is still  *)
(* running: the main goroutine leaves its select only once the dispatcher *)
(* has closed respCh, which it does after wg.Wait saw every worker's      *)
(* wg.Done.                                                                 *)
NoGoroutineOutlivesSuccess ==
    phase = "done" =>
        /\ dpc = "exited"
        /\ \A w \in Workers : worker[w].pc = "exited"

(* Every goroutine fineGrainedBackup starts eventually exits, also when    *)
(* fineGrainedBackup has already returned an error.                         *)
AllGoroutinesExit ==
    <>[](dpc = "exited" /\ \A w \in Workers : worker[w].pc = "exited")

(* The dispatcher never stays blocked sending the incomplete ranges on     *)
(* retry: some worker is always left to receive them.                       *)
RetrySendCompletes == [](dpc = "send" => <>(dpc # "send"))
=============================================================================
