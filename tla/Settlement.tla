----------------------------- MODULE Settlement -----------------------------
(***************************************************************************)
(* The settlement loop as a whole: the release scheduler and reconciler of *)
(* the sidecar, the pipeline's tracker, the worker CLI's `release` and     *)
(* `register` commands and a crash of either process, all sharing one      *)
(* release store and one chain.                                            *)
(***************************************************************************)
EXTENDS Scheduler, Reconciler

(* The CLI reconciles before it runs a cycle, in one thread. *)
ASSUME SettlementAssumption ==
  /\ OneShots \subseteq Scanners
  /\ Tickers \intersect Scanners = {}

VARIABLES
  unmarked,            \* jobs completed by the pipeline, MarkEligible not yet called
  seed                 \* the `register` command: program counter and block to store

vars == <<chainVars, storeVars, cycleVars, scan, unmarked, seed>>

SeedRec == [pc : {"idle", "head", "register", "store"}, block : Nat]
IdleSeed == [pc |-> "idle", block |-> 0]

TypeOK ==
  /\ ChainTypeOK
  /\ StoreTypeOK
  /\ CycleTypeOK
  /\ ScanTypeOK
  /\ unmarked \in SUBSET Jobs
  /\ seed \in SeedRec

Init ==
  /\ ChainInit
  /\ EmptySnapshot
  /\ CycleInit
  /\ ScanInit
  /\ unmarked = {}
  /\ seed = IdleSeed

----------------------------------------------------------------------------
(* Pipeline: completeJob is mined, then MarkEligible records the job with  *)
(* the worker's wall clock.  A failed MarkEligible is only logged.         *)
PipelineComplete(j) ==
  /\ CompleteJob(j)
  /\ unmarked' = unmarked \union {j}
  /\ UNCHANGED <<storeVars, cycleVars, scan, seed>>

MarkEligible(j) ==
  /\ j \in unmarked
  /\ unmarked' = unmarked \ {j}
  /\ \/ AddEligible(j)
     \/ Faulty /\ UNCHANGED storeVars
  /\ UNCHANGED <<chainVars, cycleVars, scan, seed>>

----------------------------------------------------------------------------
(* Sidecar threads. *)
TickerStep(a) ==
  /\ CycleHead(a) \/ CycleStep(a)
  /\ UNCHANGED <<scan, unmarked, seed>>

ScannerStep(r) ==
  /\ ScanCursor(r) \/ ScanStep(r)
  /\ UNCHANGED <<cycleVars, unmarked, seed>>

SidecarScanners == Scanners \ OneShots

SidecarCrash ==
  /\ Faulty
  /\ cyc' = [a \in Cyclers |-> IF a \in Tickers THEN IdleCycle ELSE cyc[a]]
  /\ scan' = [r \in Scanners |-> IF r \in SidecarScanners THEN IdleScan ELSE scan[r]]
  /\ unmarked' = {}
  /\ UNCHANGED <<chainVars, storeVars, late, seed>>

----------------------------------------------------------------------------
(* worker CLI `release`: a reconcile pass, and after a successful one a    *)
(* cycle (RunOnce).                                                        *)
ReleaseScan(a) ==
  /\ At(a, "idle")
  /\ \/ scan[a].pc = "idle" /\ ScanCursor(a)
     \/ ScanStep(a)
  /\ UNCHANGED <<cycleVars, unmarked, seed>>

ReleaseCycle(a) ==
  /\ scan[a].pc = "done"
  /\ CycleHead(a)
  /\ scan' = [scan EXCEPT ![a] = IdleScan]
  /\ UNCHANGED <<unmarked, seed>>

ReleaseStep(a) ==
  /\ CycleStep(a)
  /\ UNCHANGED <<scan, unmarked, seed>>

(* The command is interrupted, or ends after `release --reconcile-only`.   *)
CliExit(a) ==
  /\ cyc' = [cyc EXCEPT ![a] = IdleCycle]
  /\ scan' = [scan EXCEPT ![a] = IdleScan]
  /\ UNCHANGED <<chainVars, storeVars, late, unmarked, seed>>

----------------------------------------------------------------------------
(* worker CLI `register`: freshWorkerSafeHead reads the registration, the  *)
(* head and the key's nonce at the safe head; the block is stored as the   *)
(* reconcile cursor once the registration has gone through (at once when   *)
(* EnsureRegistered finds the key registered meanwhile).                   *)
RegisterCheck ==
  /\ seed.pc = "idle"
  /\ ~registered
  /\ seed' = [IdleSeed EXCEPT !.pc = "head"]
  /\ UNCHANGED <<chainVars, storeVars, cycleVars, scan, unmarked>>

(* Faulty variant: the nonce of the key is not looked at. *)
RegisterHeadAnyKey ==
  /\ seed.pc = "head"
  /\ seed' = [pc |-> "register",
              block |-> IF head >= Confirmations THEN head - Confirmations ELSE 0]
  /\ UNCHANGED <<chainVars, storeVars, cycleVars, scan, unmarked>>

RegisterHead ==
  /\ seed.pc = "head"
  /\ LET safe  == head - Confirmations
         fresh == /\ head >= Confirmations
                  /\ firstTx = 0 \/ firstTx > safe
     IN \E ok \in {~Faulty, TRUE} :
          seed' = [pc |-> "register", block |-> IF fresh /\ ok THEN safe ELSE 0]
  /\ UNCHANGED <<chainVars, storeVars, cycleVars, scan, unmarked>>

RegisterSend ==
  /\ seed.pc = "register"
  /\ IF registered THEN UNCHANGED chainVars ELSE RegisterWorker
  /\ seed' = [seed EXCEPT !.pc = "store"]
  /\ UNCHANGED <<storeVars, cycleVars, scan, unmarked>>

RegisterStore ==
  /\ seed.pc = "store"
  /\ \/ seed.block # 0 /\ SeedReconcileBlock(seed.block)
     \/ (seed.block = 0 \/ Faulty) /\ UNCHANGED storeVars
  /\ seed' = IdleSeed
  /\ UNCHANGED <<chainVars, cycleVars, scan, unmarked>>

RegisterExit ==
  /\ seed.pc # "idle"
  /\ seed' = IdleSeed
  /\ UNCHANGED <<chainVars, storeVars, cycleVars, scan, unmarked>>

----------------------------------------------------------------------------
(* With every process stopped the operator removes the state file; the     *)
(* next NewFileStore creates an empty one.                                 *)
WipeState ==
  /\ OperatorActs
  /\ \A a \in Cyclers : cyc[a] = IdleCycle
  /\ \A r \in Scanners : scan[r] = IdleScan
  /\ unmarked = {}
  /\ seed = IdleSeed
  /\ NewSnapshot
  /\ UNCHANGED <<chainVars, cycleVars, scan, unmarked, seed>>

ChainStep ==
  /\ \/ NewBlock \/ Deregister \/ Pause \/ Unpause \/ SetWindow
     \/ \E j \in Jobs : Reorg(j) \/ DisputeJob(j) \/ ResolveDispute(j)
  /\ UNCHANGED <<storeVars, cycleVars, scan, unmarked, seed>>

MempoolStep ==
  /\ \E S \in late : LateTx(S)
  /\ UNCHANGED <<scan, unmarked, seed>>

Next ==
  \/ ChainStep
  \/ MempoolStep
  \/ \E j \in Jobs : PipelineComplete(j) \/ MarkEligible(j)
  \/ \E a \in Tickers : TickerStep(a)
  \/ \E r \in SidecarScanners : ScannerStep(r)
  \/ SidecarCrash
  \/ \E a \in OneShots : ReleaseScan(a) \/ ReleaseCycle(a) \/ ReleaseStep(a) \/ CliExit(a)
  \/ RegisterCheck \/ RegisterHead \/ RegisterSend \/ RegisterStore \/ RegisterExit
  \/ WipeState

Spec == Init /\ [][Next]_vars

(* The probe ticker and the reconcile ticker keep firing, a thread that    *)
(* runs keeps running, blocks keep coming, transactions in the mempool are *)
(* mined or dropped, and a dispute is eventually resolved.                 *)
Fairness ==
  /\ \A a \in Tickers : WF_vars(TickerStep(a))
  /\ \A r \in SidecarScanners : WF_vars(ScannerStep(r))
  /\ WF_vars(NewBlock /\ UNCHANGED <<storeVars, cycleVars, scan, unmarked, seed>>)
  /\ WF_vars(Unpause /\ UNCHANGED <<storeVars, cycleVars, scan, unmarked, seed>>)
  /\ \A j \in Jobs :
       WF_vars(ResolveDispute(j) /\ UNCHANGED <<storeVars, cycleVars, scan, unmarked, seed>>)
  /\ WF_vars(MempoolStep)

FairSpec == Spec /\ Fairness

----------------------------------------------------------------------------
(* Safety. *)

(* Every job the worker completed in a block the reconcile cursor has      *)
(* passed is still tracked, unless the contract owes nothing on it: no     *)
(* interleaving of tracker, schedulers, reconcilers, crashes, failed calls *)
(* and unconfirmed blocks lets the worker forget a fee it is owed, because *)
(* the reconciler never looks behind its cursor again.                     *)
NoFeeForgotten ==
  \A j \in Jobs : doneAt[j] # 0 /\ doneAt[j] <= cursor => j \in pending \/ Settled(j)

(* A job leaves the pending set only when the contract owes nothing on it  *)
(* at that moment, although the scheduler decided to remove it from a      *)
(* state it read, or from a receipt it got, several steps earlier; only    *)
(* the operator's removal of the whole state file, which also forgets the  *)
(* cursor, is excepted.                                                    *)
DropsOnlySettled ==
  [][\A j \in pending \ pending' : Settled(j) \/ WipeState]_vars

(* The refinement mapping: fees the contract owes, and completions the     *)
(* reconciler will not read again.                                         *)
Owed == {j \in Jobs : doneAt[j] # 0 /\ ~Settled(j)}
Passed == {j \in Jobs : doneAt[j] # 0 /\ doneAt[j] <= cursor}

Ledger == INSTANCE SettlementLedger WITH owed <- Owed, known <- pending, passed <- Passed

(* The loop as a whole keeps the promise of SettlementLedger: what the     *)
(* contract owes, what the store tracks and what the cursor has passed     *)
(* move only as the ledger allows.                                         *)
ImplementsLedger == Ledger!LedgerSpec

(* While one cycler uses the store, no release transaction is built before *)
(* the chain time that a paused contract made the store record, whatever   *)
(* trigger fired the cycle and whether the process restarted in between.   *)
PauseGateHonoured ==
  \A a \in Cyclers :
    cyc[a].pc \in {"send", "await", "fsend", "fawait"} => nextAllowed <= cyc[a].now

(* While one cycler uses the store, a job whose release failed is in no    *)
(* transaction before its backoff has passed.                              *)
JobBackoffHonoured ==
  \A a \in Cyclers :
    cyc[a].pc \in {"send", "await", "fsend", "fawait"} =>
      \A j \in TxJobs(a) \intersect pending : backoffUntil[j] <= cyc[a].now

----------------------------------------------------------------------------
(* Liveness. *)

(* Events the model's last blocks leave time to confirm and to release. *)
InTime(j) ==
  /\ doneAt[j] # 0
  /\ doneAt[j] + Confirmations <= MaxHead
  /\ doneAt[j] + window <= MaxHead

(* Every fee the worker earns is eventually collected, or lost in a        *)
(* dispute: through the tracker or, when the process crashed before        *)
(* MarkEligible, through the reconciler, and in spite of failed calls,     *)
(* timed-out transactions and a paused contract.                           *)
EveryFeeCollected == \A j \in Jobs : InTime(j) ~> Settled(j)

(* Every entry of a settled job eventually leaves the pending set, also    *)
(* when a tracker or reconciler added it after the release.                *)
PendingDrains == \A j \in Jobs : (j \in pending /\ Settled(j)) ~> (j \notin pending)
=============================================================================
