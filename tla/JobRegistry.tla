---------------------------- MODULE JobRegistry ----------------------------
(***************************************************************************)
(* The chain as the settlement loop sees it: the block height, the states  *)
(* of the jobs in the JobRegistry contract, its pause switch, the dispute  *)
(* window of AIConfig, and whether the worker's key is registered.  The    *)
(* contracts are not part of the repository: this module is written from   *)
(* the calls the worker makes and the states it tells apart                *)
(* (chain.JobState, GetJobState, ReleaseJob(s), FilterJobCompleted).       *)
(*                                                                         *)
(* Block numbers and block timestamps are one clock: block n has time n.   *)
(***************************************************************************)
EXTENDS Naturals, FiniteSets

CONSTANTS
  Jobs,            \* job ids: natural numbers, the scheduler sorts by them
  Genesis,         \* height at which the contract was deployed
  MaxHead,         \* bound: last block of the model
  Windows,         \* dispute windows the governance may choose
  ReorgDepth,      \* a block buried deeper than this is final
  FaultHorizon,    \* bound: no RPC, send or store error and no crash from this block on
  PauseHorizon,    \* bound: the contract is not paused from this block on
  OperatorActs     \* does the operator (de)register the key and remove state files?

ASSUME JobsAssumption    == Jobs \subseteq Nat
ASSUME HeadAssumption    == Genesis \in Nat /\ MaxHead \in Nat /\ Genesis <= MaxHead
ASSUME WindowAssumption  == Windows \subseteq Nat \ {0}
ASSUME ReorgAssumption   == ReorgDepth \in Nat
ASSUME HorizonAssumption == FaultHorizon \in Nat /\ PauseHorizon \in Nat
ASSUME OperatorAssumption == OperatorActs \in BOOLEAN

VARIABLES
  head,            \* number (and timestamp) of the latest block
  state,           \* contract state of each job
  doneAt,          \* block of the job's JobCompleted event, 0 before it
  paused,          \* OpenZeppelin Pausable switch of the contract
  window,          \* AIConfig.getDisputeWindow()
  registered,      \* is the worker's key a registered worker?
  firstTx          \* block of the first transaction of the worker's key, 0 before it

chainVars == <<head, state, doneAt, paused, window, registered, firstTx>>

(* chain.JobState; Resolved is split by whether the verdict left an escrow. *)
JobState == {"Acknowledged", "Completed", "TimedOut", "Disputed",
             "ResolvedPaid", "ResolvedZero", "Released"}

ChainTypeOK ==
  /\ head \in Nat
  /\ state \in [Jobs -> JobState]
  /\ doneAt \in [Jobs -> Nat]
  /\ paused \in BOOLEAN
  /\ window \in Nat
  /\ registered \in BOOLEAN
  /\ firstTx \in Nat

(* Jobs on which the contract owes the worker nothing any more. *)
Settled(j) == state[j] \in {"TimedOut", "ResolvedZero", "Released"}

(* The contract's own test in releaseJob: the dispute window has passed,   *)
(* or a dispute was decided for the worker.                                *)
Releasable(j) ==
  \/ state[j] = "Completed" /\ doneAt[j] + window <= head
  \/ state[j] = "ResolvedPaid"

(* releaseJobs(S) succeeds as a whole or reverts as a whole. *)
ReleaseReverts(S) == paused \/ \E j \in S : ~Releasable(j)

ApplyRelease(S) ==
  /\ state' = [j \in Jobs |-> IF j \in S THEN "Released" ELSE state[j]]
  /\ UNCHANGED <<head, doneAt, paused, window, registered, firstTx>>

----------------------------------------------------------------------------
(* RPC, send and store errors and crashes happen only before the horizon. *)
Faulty == head < FaultHorizon

ChainInit ==
  /\ head = Genesis
  /\ state = [j \in Jobs |-> "Acknowledged"]
  /\ doneAt = [j \in Jobs |-> 0]
  /\ paused = FALSE
  /\ window \in Windows
  /\ registered = ~OperatorActs
  /\ firstTx = 0

(* The block in which a transaction of this step is mined. *)
Mine ==
  /\ head < MaxHead
  /\ head + 1 = PauseHorizon => ~paused
  /\ head' = head + 1

NewBlock ==
  /\ Mine
  /\ UNCHANGED <<state, doneAt, paused, window, registered, firstTx>>

(* registerWorker and completeJob act for their sender: both are           *)
(* transactions of the worker's key.                                       *)
FirstTx == firstTx' = IF firstTx = 0 THEN head + 1 ELSE firstTx

RegisterWorker ==
  /\ ~registered
  /\ Mine
  /\ registered' = TRUE
  /\ FirstTx
  /\ UNCHANGED <<state, doneAt, paused, window>>

Deregister ==
  /\ OperatorActs
  /\ registered
  /\ registered' = FALSE
  /\ UNCHANGED <<head, state, doneAt, paused, window, firstTx>>

(* completeJob of this worker is mined and emits JobCompleted. *)
CompleteJob(j) ==
  /\ registered
  /\ state[j] = "Acknowledged"
  /\ Mine
  /\ state' = [state EXCEPT ![j] = "Completed"]
  /\ doneAt' = [doneAt EXCEPT ![j] = head + 1]
  /\ FirstTx
  /\ UNCHANGED <<paused, window, registered>>

(* The blocks that are not final yet are replaced; a completeJob they held *)
(* is mined again, in one of the replacements or in the block after them.  *)
(* A first transaction of the key that was not final is mined again with   *)
(* the earliest completion.                                                *)
Reorg(j) ==
  /\ state[j] = "Completed"
  /\ doneAt[j] + ReorgDepth > head
  /\ Mine
  /\ \E b \in (Genesis + 1)..(head + 1) :
       /\ b + ReorgDepth > head
       /\ doneAt' = [doneAt EXCEPT ![j] = b]
  /\ \E i \in Jobs :
       /\ doneAt'[i] # 0
       /\ \A k \in Jobs : doneAt'[k] # 0 => doneAt'[i] <= doneAt'[k]
       /\ firstTx' = IF firstTx + ReorgDepth > head THEN doneAt'[i] ELSE firstTx
  /\ UNCHANGED <<state, paused, window, registered>>

DisputeJob(j) ==
  /\ state[j] = "Completed"
  /\ head < doneAt[j] + window
  /\ state' = [state EXCEPT ![j] = "Disputed"]
  /\ UNCHANGED <<head, doneAt, paused, window, registered, firstTx>>

ResolveDispute(j) ==
  /\ state[j] = "Disputed"
  /\ \E verdict \in {"ResolvedPaid", "ResolvedZero"} :
        state' = [state EXCEPT ![j] = verdict]
  /\ UNCHANGED <<head, doneAt, paused, window, registered, firstTx>>

Pause ==
  /\ ~paused
  /\ head + 1 < PauseHorizon
  /\ paused' = TRUE
  /\ UNCHANGED <<head, state, doneAt, window, registered, firstTx>>

Unpause ==
  /\ paused
  /\ paused' = FALSE
  /\ UNCHANGED <<head, state, doneAt, window, registered, firstTx>>

SetWindow ==
  /\ window' \in Windows \ {window}
  /\ UNCHANGED <<head, state, doneAt, paused, registered, firstTx>>
=============================================================================
