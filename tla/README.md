# TLA+ models of the BR backup client

This project holds TLA+ models of `src/br/pkg/backup/client.go`, the backup
coordinator of BR, the TiKV backup tool. TLC checks them. `spec.md` is the
natural-language specification. Only `client.go` is under `src/`. The
push-down driver (`push.go`), the range tree (`rtree`), the error sentinels
and the utilities are modelled from the spec, and PROJECT.json marks those
definitions `spec_modelled`.

## 1. Inventory

| Component | Code | State it keeps | Operations |
|---|---|---|---|
| C1 Coordinator | `Client`, `GetTS`, `UpdateBRGCSafePoint`, `SetStorage`, `CheckBackupStorageIsLocked`, `SetLockFile`, `BackupRanges`, `BackupRange` | cluster id, API version, storage handle, backend, gcTTL | pick the backup TS (override / PD, timeago, GC-safepoint check); preflight the storage; for each range run push-down, then fine-grained, then Ascend the tree into the manifest |
| C2 Push-down | `pushBackup` (push.go, not in src/) | one goroutine per store, a collector | send one request to each store and Put each response into the range tree |
| C3 Fine-grained | `fineGrainedBackup` | range tree, `bo` (backoff budget 80 s), per round: `retry`, `respCh`, `errCh` (capacity 4), `max.ms` + mutex, a WaitGroup | loop: find the holes; start 4 workers and a dispatcher; the main goroutine selects over errCh and respCh and Puts the responses; back off by the max; repeat |
| C4 Per-store RPC | `handleFineGrained`, `SendBackup`, `findRegionLeader` | per call: leader store, client, `hasProgress`, `backoffMill`, retry counter | look up the leader (5 tries), get a client (a connect failure is a 20 s backoff), stream the request with up to 5 resets, and hand each response to the classifier |
| C5 Classifier | `OnBackupResponse`, `isRetryableError` | none (pure) | map an error to (keep, backoff ms, fatal), and decide whether a gRPC error resets the connection |

How they interact. C1 calls C2, then C3, for each range. C3's worker
goroutines call C4, and C4 calls C5 on every response. C3's goroutines share
the channels, the mutex-protected `max.ms` and (through the main goroutine
only) the range tree. PD and TiKV are the environment. PD answers leader
lookups and timestamps. TiKV stores stream responses, errors and EOF, and
region leadership moves between them.

Hard behaviour:
- Interleaving of the main goroutine, the dispatcher and the workers
  around bounded channels. Go's `select` picks at random among ready cases.
- Partial failure: one worker fails while the others keep streaming.
- Stream resets with a whole-request retry, so responses can be duplicated.
  After 5 attempts `SendBackup` returns success anyway.
- Leadership moves between the lookup and the stream.
- The shared backoff budget, and termination of the loop.
- Timestamp arithmetic on the composed (physical << 18 | logical) TS.
- Two jobs sharing one storage prefix.
- GC running between the safepoint check of a TS and its registration.

What makes each correct:
- C5 never forwards an error response.
- C4 always returns either an error or a backoff, and the stream is reset only
  on retryable errors.
- C3 terminates (it succeeds with every hole filled, or it fails). A fatal
  worker error aborts the phase. No goroutine outlives the phase.
- C1 emits the manifest in key order after the range is complete. GetTS
  returns now−timeago or fails, and never a wrapped value. A TS that
  UpdateBRGCSafePoint registers is still uncollected. The preflight
  keeps two jobs out of one prefix.

## 2. Plan

Most important first. Items 1, 2, 4 and 5 are done; item 3 was dropped.
1. **FineGrained.tla**. It covers C3, C4 and C5, and the range tree as a set
   of covered regions. Push-down's result is the initial coverage.
2. **BackupTS.tla**. It covers timestamp selection at a reduced bit width.
3. An abstract spec of the phase, with FineGrained shown to refine it. It
   was dropped: what the phase promises BackupRange (the tree only gains
   regions; nil only when no gap is left) holds by the shape of the model
   or restates the one guard at client.go:440-443, so the refinement
   checked nothing about the code.
4. **BackupRanges.tla**. It composes the errgroup and the worker pool with
   BackupRange. The fine-grained phase enters by its outcomes.
5. **StoragePreflight.tla**. Several jobs share one storage prefix.
6. Push-down's own goroutines (C2) cannot be modelled from code: push.go is
   not under `src/` (see section 7). Fine-grained runs with more workers stay
   out of the time limit; `fg_dispatcher_leak` already takes seven regions.

## 3. FineGrained.tla: the model

The key interval is cut into cells `0..N-1`, and each cell is one region.
`covered` is the range tree. `GetIncompleteRange` returns the maximal runs of
uncovered cells, in key order. Each goroutine has a program counter.

| Code | Model |
|---|---|
| `for {}` / `GetIncompleteRange` / goroutine start (437–487) | `Scan` |
| `select` on `errCh` / `respCh` (489–499) | `SelectErr`, `SelectResp`, `SelectClosed`; `MainParked` covers Go's direct hand-off of an errCh send to a parked select |
| `Panic` or `rangeTree.Put` (500–511) | `PutResp` |
| `BackoffWithMaxSleepTxnLockFast` (514–525) | `Backoff`; the budget counts sleeps (`MaxSleeps`) |
| dispatcher goroutine (480–487) | `DispatchRange`, `CloseRetry`, `CloseResp` |
| worker loop (458–476) | `RecvRange`, `Fail` (errCh send + exit), `Return` (atomic max under the mutex) |
| `findRegionLeader` | `FindRegionLeader`: the leader of the start key, or all five lookups fail |
| `GetBackupClient` | `GetBackupClient`: ok, or ErrFailedToConnect → 20 s, or another error |
| `SendBackup` | `OpenStream`, `RecvResponse` (Recv + respFn + `OnBackupResponse`), `SendResp`, `RecvEOF`, `RecvError`, `ResetAndRetry`, `SendBackupExhausted` |
| `hasProgress` / 10 s debounce | `HandleFineGrainedMs` |

The environment is what TiKV, PD and the lock resolver do. A store answers
for each region of the request at most once per stream. The leader answers
success, Locked (at most `MaxLocks` in total) or a retryable storage error,
plus ClusterIdError and a non-allowed region error when the "fatal" fault is
on. A follower answers NotLeader. A stream can end with EOF at any point, or
with any of four gRPC errors. Leadership can move (at most `MaxTransfers`
times). `Faults` selects which failures a run injects.

Fairness: weak fairness on the main goroutine, the dispatcher and each
worker. Go's scheduler eventually runs every runnable goroutine. Fairness
on a worker's step also assumes something of the environment: a store's
stream eventually answers with a response, an error or EOF (a receive always
has EOF or an error enabled). Leader moves are not forced. A blocked channel
operation is simply not enabled, so fairness never forces it.

Bounds (and why they are enough):
- `N` = 2 or 3 regions. Two separate holes need 3, and the leak needs a hole
  of 2 regions. The dispatcher leak needs more holes than workers plus the
  retry capacity, so N = 7 (four one-region holes).
- 2 workers (the code uses 4). Every race here is between two goroutines.
- Channel capacity 1, 2 or 4 (the code uses 4). The leak needs capacity + 1
  responses that nobody consumes. Capacity 1 shows it with 2 regions, and at
  capacity 4 the same thing happens with a hole of 5 or more regions.
- `RetryTimes` = 1 or 2 (the code uses 5). With 2, the model covers a reset,
  a re-sent request and exhaustion.
- `MaxSleeps` = 1 (safety run) or 2 (liveness run). Either value lets a run
  reach a backoff and then the exhausted budget.

### Runs

| Run | Checks | Result |
|---|---|---|
| `fg_safety` (N=3, two holes, every fault, symmetry over stores and workers) | `TypeOK`, `NoUnexpectedBackupError`, `NoGoroutineOutlivesSuccess` | pass |
| `fg_terminates` (N=2, every push-down outcome, every fault) | `Terminates` | pass |
| `fg_error_swallowed` | `ErrorsSurface` | violation (finding) |
| `fg_goroutine_leak` | `AllGoroutinesExit` | violation (finding) |
| `fg_dispatcher_leak` (N=7, four holes, retry capacity 1) | `RetrySendCompletes` | violation (finding) |

What they show:
- **NoUnexpectedBackupError.** In every interleaving, no response carrying an
  error reaches the panic in the main loop. The guarantee depends on the
  classifier dropping every non-success response.
- **NoGoroutineOutlivesSuccess.** When the phase returns nil, the dispatcher
  and every worker of every round have exited. The main goroutine leaves its
  select only on a closed `respCh`, and the dispatcher closes it after
  `wg.Wait` (client.go:484-486). The mutant that closes `respCh` without
  waiting breaks this. The error return is different: there goroutines can
  outlive the phase (`AllGoroutinesExit`).
- **Terminates.** The loop always ends, under the workload bound on locks.
  Rounds without new coverage always spend backoff budget, thanks to the 10 s
  debounce for streams that end without a response. A lock resolved with
  `msBeforeExpired = 0` is the one exception. It costs nothing, which is why
  `MaxLocks` bounds the workload.
- **ErrorsSurface (violated).** Go's `select` can drop a worker's error. The
  main goroutine is descheduled after a `Put`, a worker fails and sends on
  `errCh`, the last worker exits, and the dispatcher closes `respCh`. With
  both cases ready, the select may take the closed `respCh` and go on to the
  next round. The error is lost.
- **AllGoroutinesExit (violated).** Once the main goroutine has returned on
  an error, nobody reads `respCh`. A worker with one more response blocks
  forever, and the dispatcher blocks in `wg.Wait`.
- **RetrySendCompletes (violated).** Both workers fail their leader lookup
  and exit, and the main goroutine returns. The dispatcher still has ranges
  to send, but `retry` is full, so it blocks on the send for ever.

`CHECK_DEADLOCK FALSE` is set because `fineGrainedBackup` returns. Its final
states (`done`/`failed`) have no successor. The liveness properties cover
real stalls.

## 4. BackupTS.tla: GetTS, UpdateBRGCSafePoint, SetGCTTL

A TS is `ComposeTS(p, l) = (p * 2^LogicalBits + l) % 2^IntBits`. This is the
code's int64 shift and add followed by `uint64()`, so a negative physical part
wraps exactly as it does in Go. The code uses 64 and 18 bits. The model scales
them to 6 and 1. The real relation still holds: `|physical − timeago|` shifted
stays below `2^(IntBits−1)`, so only the wrap to uint64 matters, and never an
int64 overflow. Times are in ms.

| Code | Model |
|---|---|
| `NewBackupClient` / `Client` (66–93) | `Init`: `curAPIVer` is V1 or V2, `gcTTL` is 0 |
| `GetTS` (96–139) | `GetTS`, which uses `GetTSOutcomes` (the PD retry fails or answers) and `GetTSResult` (override, negative or positive timeago, overflow check, GC check) |
| `SetGCTTL` (173–178) | `SetGCTTL` |
| `UpdateBRGCSafePoint` (141–152) | `UpdateBRGCSafePoint`: the V1 no-op; under V2, GetTS; on success the call is left `pending` |
| `UpdateServiceSafePoint` call (153–163) | `RegisterServiceSafePoint`: registration of the pending TS with `Seconds(gcTTL)` (truncation), which may fail; a separate step, so `PDTick` and `GCAdvance` can run between the two |

The environment is PD. Its TSO advances (`PDTick`). GC moves its safepoint
forward (`GCAdvance`), never past PD's clock nor past a service safepoint with
a positive TTL. Bounds: `MaxPhys` = 2 and timeago ∈ {−1, 0, 1, 3}, so
timeago 3 reaches below the epoch. The override is 0 or 3, and at most one
service safepoint is registered (`MaxRegistrations`).

| Run | Checks | Result |
|---|---|---|
| `ts_timeago` | `TypeOK`, `ReturnedTSIsTimeago` | pass |
| `ts_gc_window` (caller sets a 2 s TTL first: `CONSTRAINT TTLSetFirst`) | `RegisteredTSNeverCollected` | violation (finding) |
| `ts_zero_ttl` | `RegisteredTSNeverCollected` | violation (finding) |

- **ReturnedTSIsTimeago.** A TS taken from PD is above the GC safepoint of the
  moment, is not after PD's clock, and is exactly `timeago` earlier with the
  same logical part. Without the "backup ts overflow" check, the wrapped
  composed TS passes the GC check and is returned.
- **RegisteredTSNeverCollected (violated).** `UpdateBRGCSafePoint` before
  `SetGCTTL`, or after `SetGCTTL(500ms)`, registers TTL
  `int64(gcTTL.Seconds())` = 0. GC can then pass the backup TS.
- **RegisteredTSNeverCollected under a positive TTL (`ts_gc_window`,
  violated).** The caller sets a 2 s TTL first, so the TTL is not the cause.
  `UpdateBRGCSafePoint` takes a TS and `GetTS` checks it against the GC
  safepoint (:133). GC then advances past it, and only after that does
  `UpdateServiceSafePoint` register the TS (:158). The call returns a TS that
  is already collected.
- Read directly from the code, with no run: `GetTS(-1, 3)` returns 3. The
  duration is only checked on the branch that asks PD (:101). Spec section 8
  says `GetTS(d<0, _)` fails.

## 5. BackupRanges.tla: the composition

Each input range is a `BackupRange` goroutine started through a worker pool
of size `Concurrency`. The goroutine's steps are:
1. `GetAllStores`.
2. `PushBackup`: any set of regions, or an error (the push-down contract).
3. `FineGrainedBackup`: its outcomes, which are nil with no gap (the guard
   at client.go:440-443), or an error with some regions filled.
4. `Send`: one region per `metaWriter.Send` in `Ascend`'s key order. A Send
   can fail, and that error stops the walk.

Every return gives the worker back to the pool and records the errgroup's
first error (`Release`). `Wait` is `eg.Wait`. Cancellation of the errgroup
context shows up as later I/O failures, and those are already
nondeterministic. There is no fairness: the module checks safety only.
That BackupRanges returns holds by construction here (every step advances
or returns, and the pool's deferred recycle is in utils, not under `src/`),
so it is not checked.

| Run | Checks | Result |
|---|---|---|
| `br_manifest` (3 ranges × 2 regions, pool of 2) | `TypeOK`, `SuccessMeansCompleteManifest` | pass |
| `br_manifest_order` (2 ranges, pool of 2) | `ManifestInKeyOrder` | violation (finding) |

- **SuccessMeansCompleteManifest.** A nil return means that each range's
  regions are in the manifest once each, in key order. Its mutant ignores a
  failed Send and shows the partial manifest the check rules out.
- **ManifestInKeyOrder (violated).** Ranges running at once interleave their
  files in the shared metaWriter. The key order that spec §3 and §5 claim
  holds only within a range.

## 6. StoragePreflight.tla: jobs sharing a prefix

Each storage call is one step: `Open` (storage.New), `CheckMeta`,
`CheckLock`, `WalkDir` and `SetLockFile`. After them the job's SSTs and
backupmeta are written (`WriteSSTs`, `WriteMeta`), in the spec's order. Every
call can fail. There is no fairness (safety only).

| Run | Checks | Result |
|---|---|---|
| `pf_later_job_refused` (3 jobs, symmetry) | `LaterJobRefused` | pass |
| `pf_shared_prefix` (2 jobs) | `OneJobPerPrefix` | violation (finding) |

- **LaterJobRefused.** A job that opens the prefix after another job's SSTs
  are there is always refused. Its mutant drops WalkDir's error.
- **OneJobPerPrefix (violated).** TLC's trace: both jobs open the prefix and
  find no backupmeta and no LOCK before either writes LOCK; both then write
  LOCK and their SSTs. A second job that checks after the first wrote LOCK
  but before its first SST passes as well, since LOCK alone refuses nothing.

## 7. Not modelled


- Push-down's own goroutines (push.go is not under `src/`). BackupRanges
  takes its contract, and FineGrained takes its result as the initial
  coverage. A model of its goroutines would be written from the spec's
  prose alone, and would check nothing of this repository's code.
- The progress counter. `progressCallBack(RegionUnit)` runs once per
  response, and a reset stream re-sends regions already answered
  (client.go:510), so the count can pass the number of regions. This affects
  only the progress display. The range tree absorbs the duplicates, and the
  models keep them.
- The lines of client.go that the map leaves out are imports, types,
  signatures, the request built for a stream, logging and a failpoint.
- The getters, the cluster id, and `checkDupFiles`, which only logs.
- Tracing, logging, the summary collector and failpoints. They are
  observability and test hooks.
- The time values of the sleeps. Only the budget they spend is modelled.
- Region splits and merges. Each cell is a fixed region.
