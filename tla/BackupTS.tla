------------------------------ MODULE BackupTS ------------------------------
(***************************************************************************)
(* Backup timestamp selection in src/br/pkg/backup/client.go: GetTS,       *)
(* UpdateBRGCSafePoint and SetGCTTL, against PD's clock and GC safepoint.  *)
(*                                                                         *)
(* A TS is oracle.ComposeTS(physical, logical) = physical << LogicalBits   *)
(* + logical, computed in IntBits-bit two's complement and read as         *)
(* unsigned: the model keeps the width (the code's 64 and 18 are scaled    *)
(* down, keeping |physical - timeago| << LogicalBits below 2^(IntBits-1)   *)
(* as it is for real clocks and time.Duration).  Times are in ms.          *)
(***************************************************************************)
EXTENDS Integers, FiniteSets

CONSTANTS
    IntBits,        \* width of the TS (64 in the code)
    LogicalBits,    \* oracle's logical bits (18 in the code)
    MaxPhys,        \* bound on PD's physical clock (ms)
    Durations,      \* timeago values callers pass (ms)
    Overrides,      \* explicit ts values callers pass (0 = none)
    TTLs,           \* durations callers pass to SetGCTTL (ms)
    DefaultTTL,     \* utils.DefaultBRGCSafePointTTL (ms)
    MaxRegistrations \* bound on the service safepoints registered

ASSUME /\ LogicalBits \in 1..(IntBits - 2)
       /\ MaxPhys \in Nat
       /\ Durations \subseteq Int /\ TTLs \subseteq Int
       /\ Overrides \subseteq 0..(2^IntBits - 1)
       /\ DefaultTTL \in Nat \ {0}
       /\ MaxRegistrations \in Nat

Modulus == 2^IntBits
MaxLogical == 2^LogicalBits - 1

(* oracle.ComposeTS: int64 shift and add, then uint64().                    *)
ComposeTS(physical, logical) == (physical * 2^LogicalBits + logical) % Modulus

(* oracle.ExtractPhysical / GetTimeFromTS then GetPhysical: ts >> 18.       *)
ExtractPhysical(ts) == ts \div 2^LogicalBits

(* int64(d.Seconds()): truncation toward zero.                              *)
Seconds(ms) == IF ms >= 0 THEN ms \div 1000 ELSE -((-ms) \div 1000)

Errors == {"PDUnavailable", "InvalidArgument", "GCSafepointExceeded",
           "UpdateSafePointFailed"}
-----------------------------------------------------------------------------
VARIABLES
    pdPhys, pdLogical,  \* PD's TSO
    gcSafePoint,        \* the cluster's GC safepoint
    apiVersion,         \* bc.curAPIVer, fixed by NewBackupClient
    gcTTL,              \* bc.gcTTL (Go zero value until SetGCTTL)
    serviceSafePoints,  \* service safepoints BR registered with PD
    pending,            \* UpdateBRGCSafePoint between its GetTS and its
                        \* UpdateServiceSafePoint (NoCall when idle)
    last                \* the last call: its inputs and what it returned

vars == <<pdPhys, pdLogical, gcSafePoint, apiVersion, gcTTL,
          serviceSafePoints, pending, last>>

NoCall == [op |-> "none", override |-> 0, duration |-> 0, now |-> 0,
           safePoint |-> 0, err |-> "none", ts |-> 0]

TypeOK ==
    /\ pdPhys \in 0..MaxPhys /\ pdLogical \in 0..MaxLogical
    /\ gcSafePoint \in 0..(Modulus - 1)
    /\ apiVersion \in {"V1", "V2"}
    /\ gcTTL \in Int
    /\ serviceSafePoints \subseteq [ts : 1..(Modulus - 1), ttl : Int]
    /\ pending.op \in {"none", "UpdateBRGCSafePoint"}
    /\ last.op \in {"none", "GetTS", "UpdateBRGCSafePoint"}
    /\ last.err \in Errors \cup {"none"}
    /\ last.ts \in 0..(Modulus - 1)

Init ==
    /\ pdPhys \in 0..MaxPhys /\ pdLogical = 0
    /\ gcSafePoint = 0
    /\ apiVersion \in {"V1", "V2"}
    /\ gcTTL = 0
    /\ serviceSafePoints = {}
    /\ pending = NoCall /\ last = NoCall

(* utils.CheckGCSafePoint (not under src/): a TS at or below the GC        *)
(* safepoint is refused.                                                    *)
CheckGCSafePoint(ts) ==
    IF ts <= gcSafePoint THEN [err |-> "GCSafepointExceeded", ts |-> 0]
    ELSE [err |-> "none", ts |-> ts]

(* Mutant: the "backup ts overflow" check is dropped.                      *)
GetTSNoOverflowCheck(override, duration, physical, logical) ==
    IF override > 0 THEN CheckGCSafePoint(override)
    ELSE LET backupTS == ComposeTS(physical, logical)
             agoTS == ComposeTS(ExtractPhysical(backupTS) - duration, logical)
         IN CASE duration < 0 -> [err |-> "InvalidArgument", ts |-> 0]
              [] duration > 0 -> CheckGCSafePoint(agoTS)
              [] OTHER -> CheckGCSafePoint(backupTS)

(* GetTS once PD has answered (physical, logical): what it returns.        *)
GetTSResult(override, duration, physical, logical) ==
    IF override > 0 THEN CheckGCSafePoint(override)
    ELSE LET backupTS == ComposeTS(physical, logical)
             agoTS == ComposeTS(ExtractPhysical(backupTS) - duration, logical)
         IN CASE duration < 0 -> [err |-> "InvalidArgument", ts |-> 0]
              [] duration > 0 /\ backupTS < agoTS ->
                     [err |-> "InvalidArgument", ts |-> 0]
              [] duration > 0 -> CheckGCSafePoint(agoTS)
              [] OTHER -> CheckGCSafePoint(backupTS)

(* GetTS: the PD request (utils.WithRetry) either fails for good or        *)
(* returns PD's current TSO; an override skips PD.                          *)
GetTSOutcomes(override, duration) ==
    IF override > 0 THEN {GetTSResult(override, duration, pdPhys, pdLogical)}
    ELSE {GetTSResult(override, duration, pdPhys, pdLogical),
          [err |-> "PDUnavailable", ts |-> 0]}

(* What the model records of a call: its inputs, PD's clock and the GC     *)
(* safepoint when it ran, and its result.                                   *)
Call(op, override, duration, r) ==
    [op |-> op, override |-> override, duration |-> duration,
     now |-> ComposeTS(pdPhys, pdLogical), safePoint |-> gcSafePoint,
     err |-> r.err, ts |-> r.ts]

\* The caller makes one call at a time.
Idle == pending = NoCall

GetTS ==
    /\ Idle
    /\ \E o \in Overrides, d \in Durations :
          \E r \in GetTSOutcomes(o, d) : last' = Call("GetTS", o, d, r)
    /\ UNCHANGED <<pdPhys, pdLogical, gcSafePoint, apiVersion, gcTTL,
                   serviceSafePoints, pending>>

(* SetGCTTL: a non-positive ttl becomes the default.                        *)
SetGCTTL ==
    /\ Idle
    /\ \E ttl \in TTLs : gcTTL' = IF ttl <= 0 THEN DefaultTTL ELSE ttl
    /\ UNCHANGED <<pdPhys, pdLogical, gcSafePoint, apiVersion,
                   serviceSafePoints, pending, last>>

(* Mutant: GetTS's error is not checked before registering.               *)
UpdateBRGCSafePointUnchecked ==
    /\ Idle /\ apiVersion = "V2"
    /\ Cardinality(serviceSafePoints) < MaxRegistrations
    /\ \E d \in Durations : \E r \in GetTSOutcomes(0, d) :
          pending' = Call("UpdateBRGCSafePoint", 0, d, r)
    /\ UNCHANGED <<pdPhys, pdLogical, gcSafePoint, apiVersion, gcTTL,
                   serviceSafePoints, last>>

(* UpdateBRGCSafePoint: a no-op returning 0 unless the API is V2; else     *)
(* GetTS(safeInterval, 0), returning its error, and on success the call    *)
(* goes on to register the TS (RegisterServiceSafePoint).                   *)
UpdateBRGCSafePoint ==
    /\ Idle
    /\ \E d \in Durations :
          \/ apiVersion # "V2"
             /\ last' = Call("UpdateBRGCSafePoint", 0, d, [err |-> "none", ts |-> 0])
             /\ UNCHANGED pending
          \/ apiVersion = "V2"
             /\ Cardinality(serviceSafePoints) < MaxRegistrations
             /\ \E r \in GetTSOutcomes(0, d) :
                  \/ r.err # "none"
                     /\ last' = Call("UpdateBRGCSafePoint", 0, d, r)
                     /\ UNCHANGED pending
                  \/ r.err = "none"
                     /\ pending' = Call("UpdateBRGCSafePoint", 0, d, r)
                     /\ UNCHANGED last
    /\ UNCHANGED <<pdPhys, pdLogical, gcSafePoint, apiVersion, gcTTL,
                   serviceSafePoints>>

(* utils.UpdateServiceSafePoint with (backupTS, int64(gcTTL.Seconds())):   *)
(* a separate PD request, so GC may have moved on since GetTS checked.     *)
(* PD registers the safepoint, or the request fails.                        *)
RegisterServiceSafePoint ==
    /\ ~Idle
    /\ \/ serviceSafePoints' = serviceSafePoints
                               \cup {[ts |-> pending.ts, ttl |-> Seconds(gcTTL)]}
          /\ last' = pending
       \/ last' = [pending EXCEPT !.err = "UpdateSafePointFailed", !.ts = 0]
          /\ UNCHANGED serviceSafePoints
    /\ pending' = NoCall
    /\ UNCHANGED <<pdPhys, pdLogical, gcSafePoint, apiVersion, gcTTL>>

(* Environment: PD's TSO advances; GC moves its safepoint forward, never   *)
(* past PD's clock nor past a service safepoint with a positive TTL (a     *)
(* TTL <= 0 keeps nothing).                                                  *)
PDTick ==
    /\ \/ pdLogical < MaxLogical /\ pdLogical' = pdLogical + 1
          /\ UNCHANGED pdPhys
       \/ pdPhys < MaxPhys /\ pdPhys' = pdPhys + 1 /\ pdLogical' = 0
    /\ UNCHANGED <<gcSafePoint, apiVersion, gcTTL, serviceSafePoints, pending,
                   last>>

GCAdvance ==
    /\ \E sp \in (gcSafePoint + 1)..ComposeTS(pdPhys, pdLogical) :
          /\ \A s \in serviceSafePoints : s.ttl > 0 => sp <= s.ts
          /\ gcSafePoint' = sp
    /\ UNCHANGED <<pdPhys, pdLogical, apiVersion, gcTTL, serviceSafePoints,
                   pending, last>>

Next == GetTS \/ SetGCTTL \/ UpdateBRGCSafePoint \/ RegisterServiceSafePoint
        \/ PDTick \/ GCAdvance

Spec == Init /\ [][Next]_vars
-----------------------------------------------------------------------------
(* Properties.                                                              *)

(* A TS that GetTS or UpdateBRGCSafePoint took from PD is usable for a     *)
(* backup: above the GC safepoint of the moment, not after PD's clock,     *)
(* and exactly timeago earlier with the same logical part (spec 8).  The   *)
(* "backup ts overflow" check is what keeps this true when timeago reaches *)
(* below the epoch and the shifted physical part wraps.                     *)
ReturnedTSIsTimeago ==
    (/\ last.op # "none" /\ last.err = "none" /\ last.override = 0
     /\ ~(last.op = "UpdateBRGCSafePoint" /\ apiVersion # "V2"))
      => /\ last.ts > last.safePoint
         /\ last.ts <= last.now
         /\ ExtractPhysical(last.ts) = ExtractPhysical(last.now) - last.duration
         /\ last.ts % 2^LogicalBits = last.now % 2^LogicalBits

(* A backup TS that UpdateBRGCSafePoint registered stays readable: GC     *)
(* never moves past it.  It rests on the TTL sent, int64(gcTTL.Seconds()), *)
(* being positive, and on GC not passing the TS between GetTS's safepoint  *)
(* check and the UpdateServiceSafePoint request.                           *)
RegisteredTSNeverCollected == \A s \in serviceSafePoints : gcSafePoint <= s.ts
=============================================================================
