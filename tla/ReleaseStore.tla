---------------------------- MODULE ReleaseStore ----------------------------
(***************************************************************************)
(* release.FileStore: the JSON snapshot of completed, unreleased jobs that *)
(* the sidecar's scheduler and reconciler, the pipeline's tracker and the  *)
(* worker CLI share.  Every method runs under an in-process mutex and an   *)
(* flock on a separate lock file and replaces the data file by rename, so  *)
(* each method is one atomic action, also with respect to a crash.         *)
(* CompletedAt is left out: no decision depends on it, it only feeds a log *)
(* line about old disputes.                                                *)
(***************************************************************************)
EXTENDS JobRegistry

CONSTANTS BackoffBase, BackoffMax, MaxShift

ASSUME BackoffAssumption ==
  /\ BackoffBase \in Nat \ {0}
  /\ BackoffMax \in Nat
  /\ BackoffMax >= BackoffBase
  /\ MaxShift \in Nat

VARIABLES
  pending,         \* ids of Snapshot.Pending
  failCount,       \* PendingJob.FailCount
  backoffUntil,    \* PendingJob.BackoffUntil
  cursor,          \* Snapshot.LastReconciledBlock
  lastReleaseTs,   \* Snapshot.LastReleaseTs
  nextAllowed      \* Snapshot.NextAllowedAttempt

storeVars == <<pending, failCount, backoffUntil,
               cursor, lastReleaseTs, nextAllowed>>

(* The fields of a job that is not pending are zero values. *)
StoreTypeOK ==
  /\ pending \in SUBSET Jobs
  /\ failCount \in [Jobs -> Nat]
  /\ backoffUntil \in [Jobs -> Nat]
  /\ cursor \in Nat
  /\ lastReleaseTs \in Nat
  /\ nextAllowed \in Nat

(* NewFileStore on a path without a state file. *)
EmptySnapshot ==
  /\ pending = {}
  /\ failCount = [j \in Jobs |-> 0]
  /\ backoffUntil = [j \in Jobs |-> 0]
  /\ cursor = 0
  /\ lastReleaseTs = 0
  /\ nextAllowed = 0

NewSnapshot ==
  /\ pending' = {}
  /\ failCount' = [j \in Jobs |-> 0]
  /\ backoffUntil' = [j \in Jobs |-> 0]
  /\ cursor' = 0
  /\ lastReleaseTs' = 0
  /\ nextAllowed' = 0

(* Idempotent: an entry that exists keeps its failures. *)
AddEligible(j) ==
  IF j \in pending
    THEN UNCHANGED storeVars
    ELSE /\ pending' = pending \union {j}
         /\ failCount' = [failCount EXCEPT ![j] = 0]
         /\ backoffUntil' = [backoffUntil EXCEPT ![j] = 0]
         /\ UNCHANGED <<cursor, lastReleaseTs, nextAllowed>>

Remove(S) ==
  /\ pending' = pending \ S
  /\ failCount' = [j \in Jobs |-> IF j \in S THEN 0 ELSE failCount[j]]
  /\ backoffUntil' = [j \in Jobs |-> IF j \in S THEN 0 ELSE backoffUntil[j]]
  /\ UNCHANGED <<cursor, lastReleaseTs, nextAllowed>>

(* A job that left the set meanwhile is ignored. *)
RecordFailure(j, until) ==
  IF j \in pending
    THEN /\ failCount' = [failCount EXCEPT ![j] = @ + 1]
         /\ backoffUntil' = [backoffUntil EXCEPT ![j] = until]
         /\ UNCHANGED <<pending, cursor, lastReleaseTs, nextAllowed>>
    ELSE UNCHANGED storeVars

(* The cursor never moves backward: a smaller block is an error and leaves *)
(* the snapshot as it was.                                                 *)
SetReconcileBlock(b) ==
  /\ b >= cursor
  /\ cursor' = b
  /\ UNCHANGED <<pending, failCount, backoffUntil, lastReleaseTs, nextAllowed>>

(* Faulty variant: a cursor that is there is overwritten. *)
SeedOverwrites(b) ==
  /\ cursor' = b
  /\ UNCHANGED <<pending, failCount, backoffUntil, lastReleaseTs, nextAllowed>>

(* Stored only when there is no cursor yet. *)
SeedReconcileBlock(b) ==
  /\ cursor' = IF cursor = 0 THEN b ELSE cursor
  /\ UNCHANGED <<pending, failCount, backoffUntil, lastReleaseTs, nextAllowed>>

SetLastReleaseTs(t) ==
  /\ lastReleaseTs' = t
  /\ UNCHANGED <<pending, failCount, backoffUntil, cursor, nextAllowed>>

(* Faulty variant: the seconds of the chain's clock stored as milliseconds. *)
SetNextAllowedMillis(t) ==
  /\ nextAllowed' = 1000 * t
  /\ UNCHANGED <<pending, failCount, backoffUntil, cursor, lastReleaseTs>>

SetNextAllowedAttempt(t) ==
  /\ nextAllowed' = t
  /\ UNCHANGED <<pending, failCount, backoffUntil, cursor, lastReleaseTs>>

(* base * 2^(attempt-1), the shift bounded by MaxShift; the maximum when   *)
(* that is larger, or has overflowed to a negative number or zero.         *)
ComputeBackoff(attempt) ==
  LET shift == IF attempt - 1 > MaxShift THEN MaxShift ELSE attempt - 1
      d     == BackoffBase * 2^shift
  IN  IF d \in 1..BackoffMax THEN d ELSE BackoffMax
=============================================================================
