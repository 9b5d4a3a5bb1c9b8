----------------------------- MODULE Scheduler -----------------------------
(***************************************************************************)
(* release.Scheduler: the release cycle.  A cycler is a thread that runs   *)
(* cycles: the sidecar's periodic loop (tick, in Tickers) or a worker CLI  *)
(* `release` command (RunOnce, in OneShots).  Its local variables are      *)
(* cyc[a]; every chain call and every store call is a step of its own, so  *)
(* cyclers, reconcilers and the chain interleave between any two of them.  *)
(*                                                                         *)
(* A release transaction passes three points at which the contract may     *)
(* refuse it: gas estimation when it is built, the broadcast, and its      *)
(* receipt.  Only a revert seen in a receipt is classified as a pause.     *)
(***************************************************************************)
EXTENDS ReleaseStore

CONSTANTS
  Tickers,             \* cyclers driven by the probe ticker
  OneShots,            \* cyclers driven by the operator
  BatchThreshold, MaxBatchSize, Interval, PausedCycleBackoff,
  MaxLate              \* bound: transactions in flight that nobody waits for

ASSUME CyclerAssumption == Tickers \intersect OneShots = {}
ASSUME ConfigAssumption ==
  /\ BatchThreshold \in Nat \ {0}
  /\ MaxBatchSize \in Nat \ {0}
  /\ Interval \in Nat \ {0}
  /\ PausedCycleBackoff \in Nat \ {0}
  /\ MaxLate \in Nat

VARIABLES
  cyc,                 \* local state of each cycler
  late                 \* job sets of release transactions still in the mempool

cycleVars == <<cyc, late>>

Cyclers == Tickers \union OneShots

CyclePC == {"idle", "gate", "collect", "partition", "send", "await",
            "removeBatch", "fallback", "fsend", "fawait", "fremove", "ffail",
            "frecord", "attempt", "pause"}

(* The error a job of the fallback failed with: a failed GetJobState, a    *)
(* failed send or wait, a revert, or a revert of the gas estimation because *)
(* the contract is paused.                                                 *)
Err == {"nil", "read", "tx", "revert", "estimatePaused"}

CycleRec == [pc : CyclePC,
             now : Nat,              \* head.Timestamp of this cycle
             win : Nat,              \* dispute window used by this cycle
             cache : Nat,            \* memoized window of the client, 0 for none
             todo : SUBSET Jobs,     \* jobs still to inspect or to retry
             batch : SUBSET Jobs,    \* releaseBatch
             drop : SUBSET Jobs,     \* dropIDs
             fails : Nat,            \* fail count read by recordPerJobFailure
             err : Err,
             expired : BOOLEAN]      \* is the cycle's context past TxTimeout?

IdleCycle == [pc |-> "idle", now |-> 0, win |-> 0, cache |-> 0, todo |-> {}, batch |-> {},
              drop |-> {}, fails |-> 0, err |-> "nil", expired |-> FALSE]

CycleTypeOK ==
  /\ cyc \in [Cyclers -> CycleRec]
  /\ late \in SUBSET SUBSET Jobs

CycleInit ==
  /\ cyc = [a \in Cyclers |-> IdleCycle]
  /\ late = {}

At(a, pc) == cyc[a].pc = pc

CycleBecomes(a, rec) == cyc' = [cyc EXCEPT ![a] = rec]

(* End of a cycle; the sidecar's client keeps its memoized dispute window, *)
(* the command's process ends.                                             *)
Finish(a) ==
  CycleBecomes(a, [IdleCycle EXCEPT !.cache = IF a \in Tickers THEN cyc[a].cache ELSE 0])

Goto(a, pc) == cyc' = [cyc EXCEPT ![a].pc = pc]

(* The ids are handled in ascending order (Pending sorts by JobID). *)
IsFirst(j, S) == j \in S /\ \A k \in S : j <= k

----------------------------------------------------------------------------
(* Deciding whether a cycle fires: tick and RunOnce. *)

CycleHead(a) ==
  /\ At(a, "idle")
  /\ CycleBecomes(a, [cyc[a] EXCEPT !.pc = "gate", !.now = head])
  /\ UNCHANGED <<chainVars, storeVars, late>>

(* Faulty variant: the backoff gate is not read. *)
CycleGateIgnored(a) ==
  /\ At(a, "gate")
  /\ Goto(a, "collect")
  /\ UNCHANGED <<chainVars, storeVars, late>>

CycleGate(a) ==
  /\ At(a, "gate")
  /\ IF cyc[a].now < nextAllowed THEN Finish(a) ELSE Goto(a, "collect")
  /\ UNCHANGED <<chainVars, storeVars, late>>

(* An error of Head, the gate, the window or Pending ends the cycle. *)
CycleAbort(a) ==
  /\ Faulty
  /\ cyc[a].pc \in {"gate", "collect"}
  /\ Finish(a)
  /\ UNCHANGED <<chainVars, storeVars, late>>

(* countReadyForStateCheck and the filter of collectCandidates. *)
Ready(now) == {j \in pending : backoffUntil[j] <= now}

(* Faulty variant: jobs in backoff are collected too. *)
CollectAnyPending(now) ==
  {j \in pending : Cardinality({k \in pending : k < j}) < MaxBatchSize}

(* The first MaxBatchSize jobs out of backoff, in id order. *)
CollectCandidates(now) ==
  {j \in Ready(now) : Cardinality({k \in Ready(now) : k < j}) < MaxBatchSize}

(* The threshold or the time trigger; RunOnce has neither. *)
Fires(a) ==
  \/ a \in OneShots
  \/ Cardinality(Ready(cyc[a].now)) >= BatchThreshold
  \/ cyc[a].now >= lastReleaseTs + Interval

(* The dispute window is the memoized one, or a fresh read that replaces it. *)
CycleCollect(a) ==
  /\ At(a, "collect")
  /\ \E w \in {window} \union ({cyc[a].cache} \ {0}) :
       LET candidates == CollectCandidates(cyc[a].now)
       IN CycleBecomes(a,
            IF ~Fires(a) THEN [IdleCycle EXCEPT !.cache = w]
            ELSE [cyc[a] EXCEPT !.pc = IF candidates = {} THEN "attempt" ELSE "partition",
                                !.win = w, !.cache = w, !.todo = candidates])
  /\ UNCHANGED <<chainVars, storeVars, late>>

----------------------------------------------------------------------------
(* runReleaseCycle: inspect, drop, release the batch. *)

(* The scheduler's own test on what GetJobState returned. *)
Eligible(a, j) ==
  \/ state[j] = "Completed" /\ doneAt[j] + cyc[a].win <= cyc[a].now
  \/ state[j] = "ResolvedPaid"

(* GetJobState fails when the node does, and always once the context of    *)
(* the cycle has expired.                                                  *)
ReadFails(a) == cyc[a].expired \/ Faulty
ReadWorks(a) == ~cyc[a].expired

PartitionDefer(a) ==
  /\ At(a, "partition")
  /\ ReadFails(a)
  /\ \E j \in Jobs :
       /\ IsFirst(j, cyc[a].todo)
       /\ cyc' = [cyc EXCEPT ![a].todo = @ \ {j}]
  /\ UNCHANGED <<chainVars, storeVars, late>>

(* Faulty variant: a released job is kept. *)
PartitionKeepsReleased(a) ==
  /\ At(a, "partition")
  /\ ReadWorks(a)
  /\ \E j \in Jobs :
       /\ IsFirst(j, cyc[a].todo)
       /\ CycleBecomes(a, [cyc[a] EXCEPT
                            !.todo = @ \ {j},
                            !.batch = IF Eligible(a, j) THEN @ \union {j} ELSE @,
                            !.drop = IF Settled(j) /\ state[j] # "Released" THEN @ \union {j} ELSE @])
  /\ UNCHANGED <<chainVars, storeVars, late>>

(* Completed inside its window, Disputed: the job stays pending. *)
PartitionJob(a) ==
  /\ At(a, "partition")
  /\ ReadWorks(a)
  /\ \E j \in Jobs :
       /\ IsFirst(j, cyc[a].todo)
       /\ CycleBecomes(a, [cyc[a] EXCEPT
                            !.todo = @ \ {j},
                            !.batch = IF Eligible(a, j) THEN @ \union {j} ELSE @,
                            !.drop = IF Settled(j) THEN @ \union {j} ELSE @])
  /\ UNCHANGED <<chainVars, storeVars, late>>

(* A failed Remove is logged and the cycle goes on. *)
RemoveDropped(a) ==
  /\ At(a, "partition")
  /\ cyc[a].todo = {}
  /\ \/ Remove(cyc[a].drop)
     \/ Faulty /\ UNCHANGED storeVars
  /\ CycleBecomes(a, [cyc[a] EXCEPT !.pc = IF cyc[a].batch = {} THEN "attempt" ELSE "send",
                                    !.drop = {}])
  /\ UNCHANGED <<chainVars, late>>

(* The job set of the transaction a cycler is sending or waiting for. *)
TxJobs(a) ==
  IF cyc[a].pc \in {"send", "await"} THEN cyc[a].batch
  ELSE {j \in cyc[a].todo : IsFirst(j, cyc[a].todo)}

(* Where an error of ReleaseJobs, or of ReleaseJob in the fallback, leads. *)
ReleaseFailed(a, e) ==
  IF cyc[a].pc \in {"send", "await"}
    THEN [cyc[a] EXCEPT !.pc = "fallback", !.todo = cyc[a].batch]
    ELSE [cyc[a] EXCEPT !.pc = "ffail", !.err = e]

(* Building the transaction estimates its gas, which executes the call.    *)
EstimateRevert(a) ==
  /\ cyc[a].pc \in {"send", "fsend"}
  /\ ReleaseReverts(TxJobs(a))
  /\ CycleBecomes(a, ReleaseFailed(a, IF paused THEN "estimatePaused" ELSE "revert"))
  /\ UNCHANGED <<chainVars, storeVars, late>>

Broadcast(a) ==
  /\ cyc[a].pc \in {"send", "fsend"}
  /\ ~ReleaseReverts(TxJobs(a))
  /\ Goto(a, IF At(a, "send") THEN "await" ELSE "fawait")
  /\ UNCHANGED <<chainVars, storeVars, late>>

(* Gas price, broadcast slot, nonce or broadcast fail: definitely, or with *)
(* the transaction in the pool; waiting for the slot may use up TxTimeout. *)
SendError(a) ==
  /\ Faulty
  /\ cyc[a].pc \in {"send", "fsend"}
  /\ \E e \in BOOLEAN :
       CycleBecomes(a, [ReleaseFailed(a, "tx") EXCEPT !.expired = e])
  /\ late' \in {late, late \union {TxJobs(a)}}
  /\ Cardinality(late') <= MaxLate
  /\ UNCHANGED <<chainVars, storeVars>>

(* Faulty variant: a transaction that timed out is taken for mined. *)
TxTimeoutTrusted(a) ==
  /\ Faulty
  /\ cyc[a].pc \in {"await", "fawait"}
  /\ Goto(a, IF At(a, "await") THEN "removeBatch" ELSE "fremove")
  /\ late' \in {late, late \union {TxJobs(a)}}
  /\ Cardinality(late') <= MaxLate
  /\ UNCHANGED <<chainVars, storeVars>>

(* The receipt wait ends with the context of the cycle.                    *)
TxTimeout(a) ==
  /\ Faulty
  /\ cyc[a].pc \in {"await", "fawait"}
  /\ CycleBecomes(a, [ReleaseFailed(a, "tx") EXCEPT !.expired = TRUE])
  /\ late' \in {late, late \union {TxJobs(a)}}
  /\ Cardinality(late') <= MaxLate
  /\ UNCHANGED <<chainVars, storeVars>>

TxSucceeds(a) ==
  /\ cyc[a].pc \in {"await", "fawait"}
  /\ ~ReleaseReverts(TxJobs(a))
  /\ ApplyRelease(TxJobs(a))
  /\ Goto(a, IF At(a, "await") THEN "removeBatch" ELSE "fremove")
  /\ UNCHANGED <<storeVars, late>>

(* Faulty variant: the status of the receipt is not looked at. *)
TxRevertIgnored(a) ==
  /\ cyc[a].pc \in {"await", "fawait"}
  /\ ReleaseReverts(TxJobs(a))
  /\ Goto(a, IF At(a, "await") THEN "removeBatch" ELSE "fremove")
  /\ UNCHANGED <<chainVars, storeVars, late>>

(* decodePauseRevert replays the call; when the replay itself fails, a     *)
(* pause looks like any other revert.                                      *)
TxReverts(a) ==
  /\ cyc[a].pc \in {"await", "fawait"}
  /\ ReleaseReverts(TxJobs(a))
  /\ \/ /\ paused
        /\ Goto(a, "pause")
     \/ /\ ~paused \/ Faulty
        /\ CycleBecomes(a, ReleaseFailed(a, "revert"))
  /\ UNCHANGED <<chainVars, storeVars, late>>

RemoveReleased(a) ==
  /\ At(a, "removeBatch")
  /\ Remove(cyc[a].batch) \/ (Faulty /\ UNCHANGED storeVars)
  /\ Goto(a, "attempt")
  /\ UNCHANGED <<chainVars, late>>

RecordAttempt(a) ==
  /\ At(a, "attempt") \/ (At(a, "fallback") /\ cyc[a].todo = {})
  /\ SetLastReleaseTs(cyc[a].now) \/ (Faulty /\ UNCHANGED storeVars)
  /\ Finish(a)
  /\ UNCHANGED <<chainVars, late>>

ApplyPauseBackoff(a) ==
  /\ At(a, "pause")
  /\ \/ SetNextAllowedAttempt(cyc[a].now + PausedCycleBackoff)
     \/ Faulty /\ UNCHANGED storeVars
  /\ Finish(a)
  /\ UNCHANGED <<chainVars, late>>

----------------------------------------------------------------------------
(* perJobFallback: the jobs of a failed batch, one by one. *)

FallbackReadError(a) ==
  /\ At(a, "fallback")
  /\ cyc[a].todo # {}
  /\ ReadFails(a)
  /\ CycleBecomes(a, [cyc[a] EXCEPT !.pc = "ffail", !.err = "read"])
  /\ UNCHANGED <<chainVars, storeVars, late>>

(* Released and TimedOut are dropped; anything else that is not eligible,  *)
(* a Resolved job without escrow too, is left for a later cycle.           *)
FallbackJob(a) ==
  /\ At(a, "fallback")
  /\ ReadWorks(a)
  /\ \E j \in Jobs :
       /\ IsFirst(j, cyc[a].todo)
       /\ CycleBecomes(a,
            IF Eligible(a, j) THEN [cyc[a] EXCEPT !.pc = "fsend"]
            ELSE IF state[j] \in {"Released", "TimedOut"} THEN [cyc[a] EXCEPT !.pc = "fremove"]
            ELSE [cyc[a] EXCEPT !.todo = @ \ {j}])
  /\ UNCHANGED <<chainVars, storeVars, late>>

FallbackRemove(a) ==
  /\ At(a, "fremove")
  /\ \E j \in Jobs :
       /\ IsFirst(j, cyc[a].todo)
       /\ Remove({j}) \/ (Faulty /\ UNCHANGED storeVars)
       /\ CycleBecomes(a, [cyc[a] EXCEPT !.pc = "fallback", !.todo = @ \ {j}])
  /\ UNCHANGED <<chainVars, late>>

(* recordPerJobFailure reads the fail count under one lock ...             *)
ReadFailCount(a) ==
  /\ At(a, "ffail")
  /\ \E j \in Jobs :
       /\ IsFirst(j, cyc[a].todo)
       /\ CycleBecomes(a, [cyc[a] EXCEPT !.pc = "frecord",
                                         !.fails = IF j \in pending THEN failCount[j] ELSE 0])
  /\ UNCHANGED <<chainVars, storeVars, late>>

(* ... and writes the backoff under another.  When the read fails there is *)
(* no write.                                                               *)
RecordPerJobFailure(a) ==
  /\ At(a, "frecord")
  /\ \E j \in Jobs :
       /\ IsFirst(j, cyc[a].todo)
       /\ \/ RecordFailure(j, cyc[a].now + ComputeBackoff(cyc[a].fails + 1))
          \/ Faulty /\ UNCHANGED storeVars
       /\ CycleBecomes(a, [cyc[a] EXCEPT !.pc = "fallback", !.todo = @ \ {j},
                                         !.fails = 0, !.err = "nil"])
  /\ UNCHANGED <<chainVars, late>>

CycleStep(a) ==
  \/ CycleGate(a) \/ CycleAbort(a) \/ CycleCollect(a)
  \/ PartitionDefer(a) \/ PartitionJob(a) \/ RemoveDropped(a)
  \/ EstimateRevert(a) \/ Broadcast(a) \/ SendError(a)
  \/ TxTimeout(a) \/ TxSucceeds(a) \/ TxReverts(a)
  \/ RemoveReleased(a) \/ RecordAttempt(a) \/ ApplyPauseBackoff(a)
  \/ FallbackReadError(a) \/ FallbackJob(a) \/ FallbackRemove(a)
  \/ ReadFailCount(a) \/ RecordPerJobFailure(a)

----------------------------------------------------------------------------
(* A transaction nobody waits for is mined, reverts or is dropped by the   *)
(* mempool.                                                                *)
LateTx(S) ==
  /\ S \in late
  /\ late' = late \ {S}
  /\ \/ ~ReleaseReverts(S) /\ ApplyRelease(S)
     \/ UNCHANGED chainVars
  /\ UNCHANGED <<storeVars, cyc>>
=============================================================================
