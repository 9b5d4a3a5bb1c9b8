-------------------------- MODULE SettlementProofs --------------------------
(***************************************************************************)
(* The settlement loop never forgets a fee, for any number of jobs,        *)
(* cyclers and scanners, any chunk size, confirmation depth and schedule.  *)
(***************************************************************************)
EXTENDS Settlement, TLAPS

(* A job the loop need not look up again: tracked, or nothing is owed on it. *)
Tracked(j) == j \in pending \/ Settled(j)

(* Completion events lie between the deployment and the head, after the    *)
(* first transaction of the key.                                           *)
EventsInv ==
  /\ Genesis <= head /\ firstTx <= head
  /\ \A j \in Jobs : doneAt[j] # 0 =>
       /\ Genesis < doneAt[j] /\ doneAt[j] <= head
       /\ firstTx # 0 /\ firstTx <= doneAt[j]

(* A job that has not completed is Acknowledged, and only such a job is. *)
StateInv == \A j \in Jobs : state[j] = "Acknowledged" <=> doneAt[j] = 0

(* The cursor is never less than the confirmation depth behind the head. *)
CursorInv == cursor = 0 \/ cursor + Confirmations <= head

(* What a cycler is about to remove is settled. *)
CycleSafe(a) ==
  /\ \A j \in cyc[a].drop : Settled(j)
  /\ cyc[a].pc = "removeBatch" => \A j \in cyc[a].batch : Settled(j)
  /\ cyc[a].pc = "fremove" => \A j \in Jobs : IsFirst(j, cyc[a].todo) => Settled(j)

(* A scanner that has a chunk has left nothing behind it, and of the chunk *)
(* itself only the events it still holds or failed to read.                *)
ScanSafe(r) ==
  /\ scan[r].pc \in {"head", "filter", "events", "add"} =>
       /\ (scan[r].lo <= Genesis + 1 \/ scan[r].lo + Confirmations <= head + 1)
       /\ \A j \in Jobs : doneAt[j] # 0 /\ doneAt[j] < scan[r].lo => Tracked(j)
  /\ scan[r].pc \in {"filter", "events", "add"} =>
       /\ scan[r].safe + Confirmations <= head
       /\ scan[r].lo <= scan[r].safe
  /\ scan[r].pc \in {"events", "add"} =>
       /\ scan[r].hi <= scan[r].safe
       /\ \A j \in Jobs : doneAt[j] \in scan[r].lo..scan[r].hi =>
            \/ j \in scan[r].evs \/ j \in scan[r].job
            \/ Tracked(j) \/ scan[r].failed
  /\ scan[r].pc # "add" => scan[r].job = {}
  /\ \A i, j \in scan[r].job : i = j

(* The block `register` is about to store lies before every event. *)
SeedInv ==
  seed.block # 0 =>
    /\ seed.block + Confirmations <= head
    /\ \A j \in Jobs : doneAt[j] # 0 => seed.block < doneAt[j]

IInv ==
  /\ TypeOK
  /\ EventsInv
  /\ StateInv
  /\ CursorInv
  /\ \A a \in Cyclers : CycleSafe(a)
  /\ \A r \in Scanners : ScanSafe(r)
  /\ SeedInv
  /\ NoFeeForgotten

----------------------------------------------------------------------------
(* Types. *)

(* NewFileStore, and every other process, starts in a state of its type. *)
LEMMA InitType == Init => TypeOK
<1> SUFFICES ASSUME Init PROVE TypeOK
  OBVIOUS
<1>1. registered \in BOOLEAN
  BY OperatorAssumption, Zenon DEF Init, ChainInit
<1>2. ChainTypeOK
  BY <1>1, JobsAssumption, HeadAssumption, WindowAssumption
  DEF Init, ChainInit, ChainTypeOK, JobState
<1>3. StoreTypeOK
  BY DEF Init, EmptySnapshot, StoreTypeOK
<1>4. CycleTypeOK
  BY DEF Init, CycleInit, CycleTypeOK, CycleRec, CyclePC, Err, IdleCycle
<1>5. ScanTypeOK
  BY DEF Init, ScanInit, ScanTypeOK, ScanRec, ScanPC, IdleScan
<1>6. unmarked \in SUBSET Jobs /\ seed \in SeedRec
  BY DEF Init, SeedRec, IdleSeed
<1> QED BY <1>2, <1>3, <1>4, <1>5, <1>6 DEF TypeOK

(* The mutating methods of FileStore keep the snapshot well formed. *)
LEMMA StoreOpsType ==
  ASSUME StoreTypeOK
  PROVE  /\ \A j \in Jobs : AddEligible(j) => StoreTypeOK'
         /\ \A S \in SUBSET Jobs : Remove(S) => StoreTypeOK'
         /\ \A j \in Jobs, u \in Nat : RecordFailure(j, u) => StoreTypeOK'
         /\ \A b \in Nat : SetReconcileBlock(b) => StoreTypeOK'
         /\ \A b \in Nat : SeedReconcileBlock(b) => StoreTypeOK'
         /\ \A u \in Nat : SetLastReleaseTs(u) => StoreTypeOK'
         /\ \A u \in Nat : SetNextAllowedAttempt(u) => StoreTypeOK'
         /\ NewSnapshot => StoreTypeOK'
         /\ UNCHANGED storeVars => StoreTypeOK'
<1> USE DEF StoreTypeOK
<1>1. \A j \in Jobs : AddEligible(j) => StoreTypeOK'
  BY DEF AddEligible, storeVars
<1>2. \A S \in SUBSET Jobs : Remove(S) => StoreTypeOK'
  BY DEF Remove
<1>3. \A j \in Jobs, u \in Nat : RecordFailure(j, u) => StoreTypeOK'
  BY DEF RecordFailure, storeVars
<1>4. \A b \in Nat : SetReconcileBlock(b) => StoreTypeOK'
  BY DEF SetReconcileBlock
<1>5. \A b \in Nat : SeedReconcileBlock(b) => StoreTypeOK'
  BY DEF SeedReconcileBlock
<1>6. \A u \in Nat : SetLastReleaseTs(u) => StoreTypeOK'
  BY DEF SetLastReleaseTs
<1>7. \A u \in Nat : SetNextAllowedAttempt(u) => StoreTypeOK'
  BY DEF SetNextAllowedAttempt
<1>8. NewSnapshot => StoreTypeOK'
  BY DEF NewSnapshot
<1>9. UNCHANGED storeVars => StoreTypeOK'
  BY DEF storeVars
<1> QED BY <1>1, <1>2, <1>3, <1>4, <1>5, <1>6, <1>7, <1>8, <1>9

(* computeBackoff returns a duration whatever base << shift overflowed to. *)
LEMMA BackoffType == \A n \in Nat : ComputeBackoff(n) \in Nat
  BY BackoffAssumption DEF ComputeBackoff

(* The contract's own transactions. *)
LEMMA ChainType ==
  ASSUME TypeOK
  PROVE  /\ \A S \in SUBSET Jobs : ApplyRelease(S) => ChainTypeOK'
         /\ UNCHANGED chainVars => ChainTypeOK'
         /\ NewBlock \/ Deregister \/ Pause \/ Unpause \/ SetWindow => ChainTypeOK'
         /\ RegisterWorker => ChainTypeOK'
         /\ \A j \in Jobs :
              CompleteJob(j) \/ Reorg(j) \/ DisputeJob(j) \/ ResolveDispute(j) => ChainTypeOK'
<1> USE WindowAssumption DEF TypeOK, ChainTypeOK, JobState
<1>1. \A S \in SUBSET Jobs : ApplyRelease(S) => ChainTypeOK'
  BY DEF ApplyRelease
<1>2. UNCHANGED chainVars => ChainTypeOK'
  BY DEF chainVars
<1>3. NewBlock \/ Deregister \/ Pause \/ Unpause \/ SetWindow => ChainTypeOK'
  <2>1. NewBlock => ChainTypeOK'
    BY DEF NewBlock, Mine
  <2>2. Deregister \/ Pause \/ Unpause => ChainTypeOK'
    BY DEF Deregister, Pause, Unpause
  <2>3. SetWindow => ChainTypeOK'
    BY DEF SetWindow
  <2> QED BY <2>1, <2>2, <2>3
<1>4. RegisterWorker => ChainTypeOK'
  BY DEF RegisterWorker, Mine, FirstTx
<1>5. \A j \in Jobs :
        CompleteJob(j) \/ Reorg(j) \/ DisputeJob(j) \/ ResolveDispute(j) => ChainTypeOK'
  <2>1. \A j \in Jobs : CompleteJob(j) \/ DisputeJob(j) \/ ResolveDispute(j) => ChainTypeOK'
    BY DEF CompleteJob, DisputeJob, ResolveDispute, Mine, FirstTx
  <2>2. \A j \in Jobs : Reorg(j) => ChainTypeOK'
    <3> SUFFICES ASSUME NEW j \in Jobs, Reorg(j) PROVE ChainTypeOK'
      OBVIOUS
    <3>1. head' \in Nat /\ UNCHANGED <<state, paused, window, registered>>
      BY DEF Reorg, Mine
    <3>2. doneAt' \in [Jobs -> Nat]
      BY HeadAssumption DEF Reorg
    <3>3. firstTx' \in Nat
      BY <3>2 DEF Reorg
    <3> QED BY <3>1, <3>2, <3>3
  <2> QED BY <2>1, <2>2
<1> QED BY <1>1, <1>2, <1>3, <1>4, <1>5

(* Each step of a release cycle keeps the locals of the cycler typed. *)
LEMMA CycleType ==
  ASSUME TypeOK, NEW a \in Cyclers, CycleHead(a) \/ CycleStep(a)
  PROVE  cyc' \in [Cyclers -> CycleRec]
<1>1. cyc \in [Cyclers -> CycleRec] /\ cyc[a] \in CycleRec
  BY DEF TypeOK, CycleTypeOK
<1>2. head \in Nat /\ window \in Nat /\ pending \in SUBSET Jobs /\ failCount \in [Jobs -> Nat]
  BY DEF TypeOK, ChainTypeOK, StoreTypeOK
<1>3. IdleCycle \in CycleRec
  BY DEF CycleRec, IdleCycle, CyclePC, Err
<1>4. /\ {"idle", "gate", "collect", "partition", "send", "await",
          "removeBatch", "fallback", "fsend", "fawait", "fremove", "ffail",
          "frecord", "attempt", "pause"} \subseteq CyclePC
      /\ {"nil", "read", "tx", "revert", "estimatePaused"} \subseteq Err
  BY DEF CyclePC, Err
<1> USE DEF CycleRec, CycleBecomes
<1>5. CASE CycleHead(a)
  BY <1>1, <1>2, <1>3, <1>4, <1>5 DEF CycleHead
<1>6. CASE CycleGate(a)
  BY <1>1, <1>2, <1>3, <1>4, <1>6 DEF CycleGate, Goto, Finish
<1>7. CASE CycleAbort(a)
  BY <1>1, <1>2, <1>3, <1>4, <1>7 DEF CycleAbort, Finish
<1>8. CASE CycleCollect(a)
  <2>1. PICK w \in {window} \union ({cyc[a].cache} \ {0}) :
          CycleBecomes(a,
            IF ~Fires(a) THEN [IdleCycle EXCEPT !.cache = w]
            ELSE [cyc[a] EXCEPT
                   !.pc = IF CollectCandidates(cyc[a].now) = {} THEN "attempt" ELSE "partition",
                   !.win = w, !.cache = w, !.todo = CollectCandidates(cyc[a].now)])
    BY <1>8 DEF CycleCollect
  <2>2. w \in Nat /\ CollectCandidates(cyc[a].now) \in SUBSET Jobs
    BY <1>1, <1>2 DEF CollectCandidates, Ready
  <2> QED BY <1>1, <1>3, <1>4, <2>1, <2>2
<1>9. CASE PartitionDefer(a)
  BY <1>1, <1>2, <1>3, <1>4, <1>9 DEF PartitionDefer, IsFirst
<1>10. CASE PartitionJob(a)
  <2>1. PICK j \in Jobs :
          CycleBecomes(a, [cyc[a] EXCEPT
            !.todo = @ \ {j},
            !.batch = IF Eligible(a, j) THEN @ \union {j} ELSE @,
            !.drop = IF Settled(j) THEN @ \union {j} ELSE @])
    BY <1>10 DEF PartitionJob
  <2> QED BY <1>1, <2>1
<1>11. CASE RemoveDropped(a)
  BY <1>1, <1>2, <1>3, <1>4, <1>11 DEF RemoveDropped
<1>12. CASE EstimateRevert(a)
  BY <1>1, <1>2, <1>3, <1>4, <1>12 DEF EstimateRevert, ReleaseFailed
<1>13. CASE Broadcast(a)
  BY <1>1, <1>2, <1>3, <1>4, <1>13 DEF Broadcast, Goto
<1>14. CASE SendError(a)
  <2>1. PICK e \in BOOLEAN : CycleBecomes(a, [ReleaseFailed(a, "tx") EXCEPT !.expired = e])
    BY <1>14 DEF SendError
  <2>2. ReleaseFailed(a, "tx") \in CycleRec
    BY <1>1, <1>4 DEF ReleaseFailed
  <2> QED BY <1>1, <2>1, <2>2
<1>15. CASE TxTimeout(a)
  BY <1>1, <1>2, <1>3, <1>4, <1>15 DEF TxTimeout, ReleaseFailed
<1>16. CASE TxSucceeds(a)
  BY <1>1, <1>2, <1>3, <1>4, <1>16 DEF TxSucceeds, Goto
<1>17. CASE TxReverts(a)
  <2>1. ReleaseFailed(a, "revert") \in CycleRec
    BY <1>1, <1>4 DEF ReleaseFailed
  <2>2. Goto(a, "pause") \/ CycleBecomes(a, ReleaseFailed(a, "revert"))
    BY <1>17 DEF TxReverts
  <2>3. Goto(a, "pause") => cyc' \in [Cyclers -> CycleRec]
    BY <1>1, <1>4 DEF Goto
  <2> QED BY <1>1, <2>1, <2>2, <2>3
<1>18. CASE RemoveReleased(a)
  BY <1>1, <1>2, <1>3, <1>4, <1>18 DEF RemoveReleased, Goto
<1>19. CASE RecordAttempt(a)
  BY <1>1, <1>2, <1>3, <1>4, <1>19 DEF RecordAttempt, Finish
<1>20. CASE ApplyPauseBackoff(a)
  BY <1>1, <1>2, <1>3, <1>4, <1>20 DEF ApplyPauseBackoff, Finish
<1>21. CASE FallbackReadError(a)
  BY <1>1, <1>2, <1>3, <1>4, <1>21 DEF FallbackReadError
<1>22. CASE FallbackJob(a)
  BY <1>1, <1>2, <1>3, <1>4, <1>22 DEF FallbackJob, IsFirst
<1>23. CASE FallbackRemove(a)
  <2>1. PICK j \in Jobs : CycleBecomes(a, [cyc[a] EXCEPT !.pc = "fallback", !.todo = @ \ {j}])
    BY <1>23 DEF FallbackRemove
  <2> QED BY <1>1, <1>4, <2>1
<1>24. CASE ReadFailCount(a)
  <2>1. PICK j \in Jobs :
          CycleBecomes(a, [cyc[a] EXCEPT !.pc = "frecord",
                                         !.fails = IF j \in pending THEN failCount[j] ELSE 0])
    BY <1>24 DEF ReadFailCount
  <2> QED BY <1>1, <1>2, <1>4, <2>1
<1>25. CASE RecordPerJobFailure(a)
  <2>1. PICK j \in Jobs :
          CycleBecomes(a, [cyc[a] EXCEPT !.pc = "fallback", !.todo = @ \ {j},
                                         !.fails = 0, !.err = "nil"])
    BY <1>25 DEF RecordPerJobFailure
  <2> QED BY <1>1, <1>4, <2>1
<1> QED BY <1>5, <1>6, <1>7, <1>8, <1>9, <1>10, <1>11, <1>12, <1>13, <1>14, <1>15, <1>16, <1>17, <1>18, <1>19, <1>20, <1>21, <1>22, <1>23, <1>24, <1>25 DEF CycleStep

----------------------------------------------------------------------------
(* What a step of any process leaves alone. *)

(* The step mines nothing, un-settles nothing, and removes only settled    *)
(* jobs from the pending set.                                              *)
Quiet ==
  /\ head' = head /\ doneAt' = doneAt /\ firstTx' = firstTx
  /\ \A j \in Jobs : Settled(j) => Settled(j)'
  /\ \A j \in Jobs : state'[j] = "Acknowledged" <=> state[j] = "Acknowledged"
  /\ \A j \in pending : j \in pending' \/ Settled(j)

(* Remove, on a set of settled jobs, is quiet; so are the other methods.   *)
LEMMA StoreQuiet ==
  ASSUME StoreTypeOK, UNCHANGED chainVars
  PROVE  /\ UNCHANGED storeVars => Quiet /\ cursor' = cursor
         /\ \A S \in SUBSET Jobs : Remove(S) /\ (\A j \in S : Settled(j)) => Quiet /\ cursor' = cursor
         /\ \A j \in Jobs : AddEligible(j) =>
              Quiet /\ cursor' = cursor /\ pending' = pending \union {j}
         /\ \A j \in Jobs, u \in Nat : RecordFailure(j, u) => Quiet /\ cursor' = cursor
         /\ \A u \in Nat : SetLastReleaseTs(u) => Quiet /\ cursor' = cursor
         /\ \A u \in Nat : SetNextAllowedAttempt(u) => Quiet /\ cursor' = cursor
         /\ \A b \in Nat : SetReconcileBlock(b) => Quiet /\ pending' = pending /\ cursor' = b
         /\ \A b \in Nat : SeedReconcileBlock(b) => Quiet /\ pending' = pending
<1> USE DEF Quiet, chainVars, Settled, StoreTypeOK
<1>1. UNCHANGED storeVars => Quiet /\ cursor' = cursor
  BY DEF storeVars
<1>2. \A S \in SUBSET Jobs : Remove(S) /\ (\A j \in S : Settled(j)) => Quiet /\ cursor' = cursor
  BY DEF Remove
<1>3. \A j \in Jobs : AddEligible(j) =>
        Quiet /\ cursor' = cursor /\ pending' = pending \union {j}
  BY DEF AddEligible, storeVars
<1>4. \A j \in Jobs, u \in Nat : RecordFailure(j, u) => Quiet /\ cursor' = cursor
  BY DEF RecordFailure, storeVars
<1>5. \A u \in Nat : SetLastReleaseTs(u) => Quiet /\ cursor' = cursor
  BY DEF SetLastReleaseTs
<1>6. \A u \in Nat : SetNextAllowedAttempt(u) => Quiet /\ cursor' = cursor
  BY DEF SetNextAllowedAttempt
<1>7. \A b \in Nat : SetReconcileBlock(b) => Quiet /\ pending' = pending /\ cursor' = b
  BY DEF SetReconcileBlock
<1>8. \A b \in Nat : SeedReconcileBlock(b) => Quiet /\ pending' = pending
  BY DEF SeedReconcileBlock
<1> QED BY <1>1, <1>2, <1>3, <1>4, <1>5, <1>6, <1>7, <1>8

(* A successful release transaction settles its jobs and nothing else. *)
LEMMA ReleaseQuiet ==
  ASSUME TypeOK, UNCHANGED storeVars, NEW S \in SUBSET Jobs, ~ReleaseReverts(S), ApplyRelease(S)
  PROVE  Quiet /\ cursor' = cursor /\ \A j \in S : Settled(j)'
  BY DEF TypeOK, ChainTypeOK, ReleaseReverts, Releasable, ApplyRelease, Quiet, Settled, storeVars

(* The steps of a release cycle are quiet: what it removes it has seen     *)
(* settled, in a state it read or in a receipt, and settled is for good.   *)
LEMMA CycleQuiet ==
  ASSUME TypeOK, NEW a \in Cyclers, CycleSafe(a), CycleHead(a) \/ CycleStep(a)
  PROVE  ChainTypeOK' /\ StoreTypeOK' /\ late' \in SUBSET SUBSET Jobs /\ Quiet /\ cursor' = cursor
<1>1. ChainTypeOK /\ StoreTypeOK /\ late \in SUBSET SUBSET Jobs /\ cyc[a] \in CycleRec
  BY DEF TypeOK, CycleTypeOK
<1>2. /\ cyc[a].drop \in SUBSET Jobs /\ cyc[a].batch \in SUBSET Jobs /\ cyc[a].now \in Nat
      /\ cyc[a].fails \in Nat /\ TxJobs(a) \in SUBSET Jobs
  BY <1>1 DEF CycleRec, TxJobs
<1>3. UNCHANGED chainVars /\ UNCHANGED storeVars =>
        ChainTypeOK' /\ StoreTypeOK' /\ Quiet /\ cursor' = cursor
  BY <1>1, ChainType, StoreOpsType, StoreQuiet
<1>4. CASE CycleHead(a)
  BY <1>1, <1>3, <1>4 DEF CycleHead
<1>5. CASE CycleGate(a)
  BY <1>1, <1>3, <1>5 DEF CycleGate
<1>6. CASE CycleAbort(a)
  BY <1>1, <1>3, <1>6 DEF CycleAbort
<1>7. CASE CycleCollect(a)
  BY <1>1, <1>3, <1>7 DEF CycleCollect
<1>8. CASE PartitionDefer(a)
  BY <1>1, <1>3, <1>8 DEF PartitionDefer
<1>9. CASE PartitionJob(a)
  BY <1>1, <1>3, <1>9 DEF PartitionJob
<1>10. CASE EstimateRevert(a)
  BY <1>1, <1>3, <1>10 DEF EstimateRevert
<1>11. CASE Broadcast(a)
  BY <1>1, <1>3, <1>11 DEF Broadcast
<1>12. CASE TxReverts(a)
  BY <1>1, <1>3, <1>12 DEF TxReverts
<1>13. CASE FallbackReadError(a)
  BY <1>1, <1>3, <1>13 DEF FallbackReadError
<1>14. CASE FallbackJob(a)
  BY <1>1, <1>3, <1>14 DEF FallbackJob
<1>15. CASE ReadFailCount(a)
  BY <1>1, <1>3, <1>15 DEF ReadFailCount
<1>16. CASE SendError(a)
  BY <1>1, <1>2, <1>3, <1>16 DEF SendError
<1>17. CASE TxTimeout(a)
  BY <1>1, <1>2, <1>3, <1>17 DEF TxTimeout
<1>18. CASE TxSucceeds(a)
  <2>1. /\ UNCHANGED storeVars /\ late' = late
        /\ ~ReleaseReverts(TxJobs(a)) /\ ApplyRelease(TxJobs(a))
    BY <1>18 DEF TxSucceeds
  <2> QED BY <1>1, <1>2, <2>1, ReleaseQuiet, ChainType, StoreOpsType
<1>19. CASE RemoveDropped(a)
  <2>1. /\ UNCHANGED chainVars /\ late' = late
        /\ Remove(cyc[a].drop) \/ UNCHANGED storeVars
    BY <1>19 DEF RemoveDropped
  <2>2. \A j \in cyc[a].drop : Settled(j)
    BY DEF CycleSafe
  <2> QED BY <1>1, <1>2, <1>3, <2>1, <2>2, ChainType, StoreOpsType, StoreQuiet
<1>20. CASE RemoveReleased(a)
  <2>1. /\ UNCHANGED chainVars /\ late' = late
        /\ Remove(cyc[a].batch) \/ UNCHANGED storeVars
    BY <1>20 DEF RemoveReleased
  <2>2. \A j \in cyc[a].batch : Settled(j)
    BY <1>20 DEF CycleSafe, RemoveReleased, At
  <2> QED BY <1>1, <1>2, <1>3, <2>1, <2>2, ChainType, StoreOpsType, StoreQuiet
<1>21. CASE RecordAttempt(a)
  <2>1. /\ UNCHANGED chainVars /\ late' = late
        /\ SetLastReleaseTs(cyc[a].now) \/ UNCHANGED storeVars
    BY <1>21 DEF RecordAttempt
  <2> QED BY <1>1, <1>2, <1>3, <2>1, ChainType, StoreOpsType, StoreQuiet
<1>22. CASE ApplyPauseBackoff(a)
  <2>1. /\ UNCHANGED chainVars /\ late' = late
        /\ SetNextAllowedAttempt(cyc[a].now + PausedCycleBackoff) \/ UNCHANGED storeVars
    BY <1>22 DEF ApplyPauseBackoff
  <2>2. cyc[a].now + PausedCycleBackoff \in Nat
    BY <1>2, ConfigAssumption
  <2> QED BY <1>1, <1>3, <2>1, <2>2, ChainType, StoreOpsType, StoreQuiet
<1>23. CASE FallbackRemove(a)
  <2>1. UNCHANGED chainVars /\ late' = late
    BY <1>23 DEF FallbackRemove
  <2>2. PICK j \in Jobs : IsFirst(j, cyc[a].todo) /\ (Remove({j}) \/ UNCHANGED storeVars)
    BY <1>23 DEF FallbackRemove
  <2>3. Settled(j)
    BY <1>23, <2>2 DEF CycleSafe, FallbackRemove, At
  <2>4. {j} \in SUBSET Jobs /\ \A k \in {j} : Settled(k)
    BY <2>3
  <2>5. CASE Remove({j})
    BY <1>1, <2>1, <2>4, <2>5, ChainType, StoreOpsType, StoreQuiet
  <2> QED BY <1>1, <1>3, <2>1, <2>2, <2>5
<1>24. CASE RecordPerJobFailure(a)
  <2>1. UNCHANGED chainVars /\ late' = late
    BY <1>24 DEF RecordPerJobFailure
  <2>2. PICK j \in Jobs : \/ RecordFailure(j, cyc[a].now + ComputeBackoff(cyc[a].fails + 1))
                          \/ UNCHANGED storeVars
    BY <1>24 DEF RecordPerJobFailure
  <2>3. cyc[a].now + ComputeBackoff(cyc[a].fails + 1) \in Nat
    BY <1>2, BackoffType
  <2> QED BY <1>1, <1>3, <2>1, <2>2, <2>3, ChainType, StoreOpsType, StoreQuiet
<1> QED BY <1>4, <1>5, <1>6, <1>7, <1>8, <1>9, <1>10, <1>11, <1>12, <1>13, <1>14,
           <1>15, <1>16, <1>17, <1>18, <1>19, <1>20, <1>21, <1>22, <1>23, <1>24
    DEF CycleStep

(* After its step a cycler still removes only settled jobs. *)
LEMMA CycleStaysSafe ==
  ASSUME TypeOK, NEW a \in Cyclers, CycleSafe(a), CycleHead(a) \/ CycleStep(a)
  PROVE  CycleSafe(a)' /\ \A b \in Cyclers : b # a => cyc'[b] = cyc[b]
<1>1. cyc \in [Cyclers -> CycleRec] /\ cyc[a] \in CycleRec
  BY DEF TypeOK, CycleTypeOK
<1>2. \A j \in Jobs : Settled(j) => Settled(j)'
  BY CycleQuiet DEF Quiet
<1>3. ASSUME NEW rec \in CycleRec, CycleBecomes(a, rec),
             \A j \in rec.drop : Settled(j),
             rec.pc \notin {"removeBatch", "fremove"}
      PROVE  CycleSafe(a)' /\ \A b \in Cyclers : b # a => cyc'[b] = cyc[b]
  BY <1>1, <1>2, <1>3 DEF CycleBecomes, CycleSafe, CycleRec
<1>4. ASSUME NEW pc \in CyclePC \ {"removeBatch", "fremove"}, Goto(a, pc)
      PROVE  CycleSafe(a)' /\ \A b \in Cyclers : b # a => cyc'[b] = cyc[b]
  BY <1>1, <1>2, <1>4 DEF Goto, CycleSafe, CycleRec
<1>5. IdleCycle \in CycleRec
  BY DEF CycleRec, IdleCycle, CyclePC, Err
<1>6. /\ {"idle", "gate", "collect", "partition", "send", "await", "fallback", "fsend",
          "fawait", "ffail", "frecord", "attempt", "pause"}
           \subseteq CyclePC \ {"removeBatch", "fremove"}
      /\ {"nil", "read", "tx", "revert", "estimatePaused"} \subseteq Err
  BY DEF CyclePC, Err
<1>7. \A j \in cyc[a].drop : Settled(j)
  BY DEF CycleSafe
<1>8. CASE CycleHead(a)
  <2> DEFINE rec == [cyc[a] EXCEPT !.pc = "gate", !.now = head]
  <2>1. rec \in CycleRec /\ rec.drop = cyc[a].drop /\ rec.pc = "gate"
    BY <1>1, <1>6 DEF CycleRec, TypeOK, ChainTypeOK
  <2>2. CycleBecomes(a, rec)
    BY <1>8 DEF CycleHead
  <2> QED BY <1>3, <1>7, <2>1, <2>2
<1>9. ASSUME Finish(a)
      PROVE  CycleSafe(a)' /\ \A b \in Cyclers : b # a => cyc'[b] = cyc[b]
  <2> DEFINE rec == [IdleCycle EXCEPT !.cache = IF a \in Tickers THEN cyc[a].cache ELSE 0]
  <2>1. rec \in CycleRec /\ rec.drop = {} /\ rec.pc = "idle"
    BY <1>1, <1>5 DEF CycleRec, IdleCycle
  <2>2. CycleBecomes(a, rec)
    BY <1>9 DEF Finish
  <2> QED BY <1>3, <2>1, <2>2
<1>10. CASE CycleGate(a) \/ CycleAbort(a) \/ RecordAttempt(a) \/ ApplyPauseBackoff(a)
  BY <1>4, <1>6, <1>9, <1>10 DEF CycleGate, CycleAbort, RecordAttempt, ApplyPauseBackoff
<1>11. CASE CycleCollect(a)
  <2>1. PICK w \in {window} \union ({cyc[a].cache} \ {0}) :
          CycleBecomes(a,
            IF ~Fires(a) THEN [IdleCycle EXCEPT !.cache = w]
            ELSE [cyc[a] EXCEPT
                   !.pc = IF CollectCandidates(cyc[a].now) = {} THEN "attempt" ELSE "partition",
                   !.win = w, !.cache = w, !.todo = CollectCandidates(cyc[a].now)])
    BY <1>11 DEF CycleCollect
  <2>2. w \in Nat /\ CollectCandidates(cyc[a].now) \in SUBSET Jobs
    BY <1>1 DEF CollectCandidates, Ready, CycleRec, TypeOK, ChainTypeOK, StoreTypeOK
  <2>3. CASE ~Fires(a)
    <3> DEFINE rec == [IdleCycle EXCEPT !.cache = w]
    <3>1. rec \in CycleRec /\ rec.drop = {} /\ rec.pc = "idle"
      BY <1>5, <2>2 DEF CycleRec, IdleCycle
    <3> QED BY <1>3, <2>1, <2>3, <3>1
  <2>4. CASE Fires(a)
    <3> DEFINE rec == [cyc[a] EXCEPT
                   !.pc = IF CollectCandidates(cyc[a].now) = {} THEN "attempt" ELSE "partition",
                   !.win = w, !.cache = w, !.todo = CollectCandidates(cyc[a].now)]
    <3>1. rec \in CycleRec /\ rec.drop = cyc[a].drop /\ rec.pc \in {"attempt", "partition"}
      BY <1>1, <1>6, <2>2 DEF CycleRec
    <3> QED BY <1>3, <1>7, <2>1, <2>4, <3>1
  <2> QED BY <2>3, <2>4
<1>12. CASE PartitionDefer(a)
  <2>1. PICK j \in Jobs : cyc' = [cyc EXCEPT ![a].todo = @ \ {j}]
    BY <1>12 DEF PartitionDefer
  <2>2. cyc[a].pc = "partition"
    BY <1>12 DEF PartitionDefer, At
  <2> QED BY <1>1, <1>2, <1>7, <2>1, <2>2 DEF CycleSafe, CycleRec
<1>13. CASE PartitionJob(a)
  <2>1. PICK j \in Jobs :
          CycleBecomes(a, [cyc[a] EXCEPT
            !.todo = @ \ {j},
            !.batch = IF Eligible(a, j) THEN @ \union {j} ELSE @,
            !.drop = IF Settled(j) THEN @ \union {j} ELSE @])
    BY <1>13 DEF PartitionJob
  <2> DEFINE rec == [cyc[a] EXCEPT
            !.todo = @ \ {j},
            !.batch = IF Eligible(a, j) THEN @ \union {j} ELSE @,
            !.drop = IF Settled(j) THEN @ \union {j} ELSE @]
  <2>2. /\ rec \in CycleRec /\ rec.pc = cyc[a].pc
        /\ rec.drop = IF Settled(j) THEN cyc[a].drop \union {j} ELSE cyc[a].drop
    BY <1>1 DEF CycleRec
  <2>3. cyc[a].pc = "partition"
    BY <1>13 DEF PartitionJob, At
  <2>4. \A k \in rec.drop : Settled(k)
    BY <1>7, <2>2
  <2> QED BY <1>3, <2>1, <2>2, <2>3, <2>4
<1>14. CASE RemoveDropped(a)
  <2> DEFINE rec == [cyc[a] EXCEPT !.pc = IF cyc[a].batch = {} THEN "attempt" ELSE "send",
                                   !.drop = {}]
  <2>1. rec \in CycleRec /\ rec.drop = {} /\ rec.pc \in {"attempt", "send"}
    BY <1>1, <1>6 DEF CycleRec
  <2>2. CycleBecomes(a, rec)
    BY <1>14 DEF RemoveDropped
  <2> QED BY <1>3, <2>1, <2>2
<1>15. \A e \in Err : /\ ReleaseFailed(a, e) \in CycleRec
                      /\ ReleaseFailed(a, e).drop = cyc[a].drop
                      /\ ReleaseFailed(a, e).pc \in {"fallback", "ffail"}
  BY <1>1, <1>6 DEF ReleaseFailed, CycleRec
<1>16. CASE EstimateRevert(a)
  <2>1. PICK e \in Err : CycleBecomes(a, ReleaseFailed(a, e))
    BY <1>6, <1>16 DEF EstimateRevert
  <2> QED BY <1>3, <1>7, <1>15, <2>1
<1>17. CASE SendError(a) \/ TxTimeout(a)
  <2>1. PICK e \in BOOLEAN : CycleBecomes(a, [ReleaseFailed(a, "tx") EXCEPT !.expired = e])
    BY <1>17 DEF SendError, TxTimeout
  <2> DEFINE f == ReleaseFailed(a, "tx")
             rec == [f EXCEPT !.expired = e]
  <2>2. f \in CycleRec /\ f.drop = cyc[a].drop /\ f.pc \in {"fallback", "ffail"}
    BY <1>6, <1>15
  <2> HIDE DEF f
  <2>3. rec \in CycleRec /\ rec.drop = f.drop /\ rec.pc = f.pc
    BY <2>2 DEF CycleRec
  <2> QED BY <1>3, <1>7, <2>1, <2>2, <2>3 DEF f
<1>18. CASE Broadcast(a)
  BY <1>4, <1>6, <1>18 DEF Broadcast
<1>19. CASE TxSucceeds(a)
  <2>1. \A j \in TxJobs(a) : Settled(j)'
    BY <1>1, <1>19, ReleaseQuiet DEF TxSucceeds, TxJobs, CycleRec
  <2>2. CASE cyc[a].pc = "await"
    <3>1. Goto(a, "removeBatch") /\ TxJobs(a) = cyc[a].batch
      BY <1>19, <2>2 DEF TxSucceeds, TxJobs, At
    <3> QED BY <1>1, <1>2, <1>7, <2>1, <3>1 DEF Goto, CycleSafe, CycleRec
  <2>3. CASE cyc[a].pc = "fawait"
    <3>1. Goto(a, "fremove") /\ TxJobs(a) = {j \in cyc[a].todo : IsFirst(j, cyc[a].todo)}
      BY <1>19, <2>3 DEF TxSucceeds, TxJobs, At
    <3>2. cyc'[a].todo = cyc[a].todo /\ cyc'[a].drop = cyc[a].drop /\ cyc'[a].pc = "fremove"
      BY <1>1, <3>1 DEF Goto, CycleRec
    <3>3. \A j \in Jobs : IsFirst(j, cyc[a].todo) => Settled(j)'
      BY <2>1, <3>1 DEF IsFirst
    <3>4. \A b \in Cyclers : b # a => cyc'[b] = cyc[b]
      BY <1>1, <3>1 DEF Goto
    <3>5. \A j \in cyc'[a].drop : Settled(j)'
      BY <1>1, <1>2, <1>7, <3>2 DEF CycleRec
    <3> QED BY <3>2, <3>3, <3>4, <3>5 DEF CycleSafe, IsFirst
  <2> QED BY <1>19, <2>2, <2>3 DEF TxSucceeds
<1>20. CASE TxReverts(a)
  BY <1>3, <1>4, <1>6, <1>7, <1>15, <1>20 DEF TxReverts
<1>21. CASE RemoveReleased(a)
  BY <1>4, <1>6, <1>21 DEF RemoveReleased
<1>22. CASE FallbackReadError(a)
  <2> DEFINE rec == [cyc[a] EXCEPT !.pc = "ffail", !.err = "read"]
  <2>1. rec \in CycleRec /\ rec.drop = cyc[a].drop /\ rec.pc = "ffail"
    BY <1>1, <1>6 DEF CycleRec
  <2>2. CycleBecomes(a, rec)
    BY <1>22 DEF FallbackReadError
  <2> QED BY <1>3, <1>7, <2>1, <2>2
<1>23. CASE FallbackJob(a)
  <2>1. PICK j \in Jobs :
          /\ IsFirst(j, cyc[a].todo)
          /\ CycleBecomes(a,
               IF Eligible(a, j) THEN [cyc[a] EXCEPT !.pc = "fsend"]
               ELSE IF state[j] \in {"Released", "TimedOut"} THEN [cyc[a] EXCEPT !.pc = "fremove"]
               ELSE [cyc[a] EXCEPT !.todo = @ \ {j}])
    BY <1>23 DEF FallbackJob
  <2>2. cyc[a].pc = "fallback"
    BY <1>23 DEF FallbackJob, At
  <2>3. CASE Eligible(a, j)
    <3> DEFINE rec == [cyc[a] EXCEPT !.pc = "fsend"]
    <3>1. rec \in CycleRec /\ rec.drop = cyc[a].drop /\ rec.pc = "fsend"
      BY <1>1, <1>6 DEF CycleRec
    <3> QED BY <1>3, <1>7, <2>1, <2>3, <3>1
  <2>4. CASE ~Eligible(a, j) /\ state[j] \in {"Released", "TimedOut"}
    <3>1. cyc' = [cyc EXCEPT ![a] = [cyc[a] EXCEPT !.pc = "fremove"]]
      BY <2>1, <2>4 DEF CycleBecomes
    <3>2. cyc'[a].todo = cyc[a].todo /\ cyc'[a].drop = cyc[a].drop /\ cyc'[a].pc = "fremove"
      BY <1>1, <3>1 DEF CycleRec
    <3>3. Settled(j)' /\ \A k \in Jobs : IsFirst(k, cyc[a].todo) => k = j
      BY <1>2, <2>1, <2>4, JobsAssumption DEF Settled, IsFirst
    <3>4. \A b \in Cyclers : b # a => cyc'[b] = cyc[b]
      BY <1>1, <3>1
    <3>5. \A k \in cyc'[a].drop : Settled(k)'
      BY <1>1, <1>2, <1>7, <3>2 DEF CycleRec
    <3> QED BY <3>2, <3>3, <3>4, <3>5 DEF CycleSafe, IsFirst
  <2>5. CASE ~Eligible(a, j) /\ state[j] \notin {"Released", "TimedOut"}
    <3> DEFINE rec == [cyc[a] EXCEPT !.todo = @ \ {j}]
    <3>1. rec \in CycleRec /\ rec.drop = cyc[a].drop /\ rec.pc = "fallback"
      BY <1>1, <2>2 DEF CycleRec
    <3> QED BY <1>3, <1>7, <2>1, <2>5, <3>1
  <2> QED BY <2>3, <2>4, <2>5
<1>24. CASE FallbackRemove(a)
  <2>1. PICK j \in Jobs : CycleBecomes(a, [cyc[a] EXCEPT !.pc = "fallback", !.todo = @ \ {j}])
    BY <1>24 DEF FallbackRemove
  <2> DEFINE rec == [cyc[a] EXCEPT !.pc = "fallback", !.todo = @ \ {j}]
  <2>2. rec \in CycleRec /\ rec.drop = cyc[a].drop /\ rec.pc = "fallback"
    BY <1>1, <1>6 DEF CycleRec
  <2> QED BY <1>3, <1>7, <2>1, <2>2
<1>25. CASE ReadFailCount(a)
  <2>1. PICK j \in Jobs :
          CycleBecomes(a, [cyc[a] EXCEPT !.pc = "frecord",
                                         !.fails = IF j \in pending THEN failCount[j] ELSE 0])
    BY <1>25 DEF ReadFailCount
  <2> DEFINE rec == [cyc[a] EXCEPT !.pc = "frecord",
                                   !.fails = IF j \in pending THEN failCount[j] ELSE 0]
  <2>2. rec \in CycleRec /\ rec.drop = cyc[a].drop /\ rec.pc = "frecord"
    BY <1>1, <1>6 DEF CycleRec, TypeOK, StoreTypeOK
  <2> QED BY <1>3, <1>7, <2>1, <2>2
<1>26. CASE RecordPerJobFailure(a)
  <2>1. PICK j \in Jobs :
          CycleBecomes(a, [cyc[a] EXCEPT !.pc = "fallback", !.todo = @ \ {j},
                                         !.fails = 0, !.err = "nil"])
    BY <1>26 DEF RecordPerJobFailure
  <2> DEFINE rec == [cyc[a] EXCEPT !.pc = "fallback", !.todo = @ \ {j},
                                   !.fails = 0, !.err = "nil"]
  <2>2. rec \in CycleRec /\ rec.drop = cyc[a].drop /\ rec.pc = "fallback"
    BY <1>1, <1>6 DEF CycleRec
  <2> QED BY <1>3, <1>7, <2>1, <2>2
<1> QED BY <1>8, <1>10, <1>11, <1>12, <1>13, <1>14, <1>16, <1>17, <1>18, <1>19, <1>20,
           <1>21, <1>22, <1>23, <1>24, <1>25, <1>26
    DEF CycleStep

----------------------------------------------------------------------------
(* What each process relies on survives the steps of the others. *)

(* The step moves completions only into unconfirmed blocks, un-settles     *)
(* nothing and loses track of nothing.                                     *)
Steady ==
  /\ head <= head'
  /\ \A j \in Jobs : Settled(j) => Settled(j)'
  /\ \A j \in Jobs : Tracked(j) => Tracked(j)'
  /\ \A j \in Jobs : \/ doneAt'[j] = doneAt[j]
                     \/ doneAt'[j] > Genesis /\ doneAt'[j] + Confirmations > head

(* A quiet step is steady, and leaves the chain's events and states alone. *)
LEMMA QuietSteady ==
  ASSUME TypeOK, EventsInv, StateInv, Quiet
  PROVE  Steady /\ EventsInv' /\ StateInv'
<1>1. Steady
  BY DEF Quiet, Steady, Tracked, TypeOK, ChainTypeOK
<1>2. EventsInv'
  BY DEF Quiet, EventsInv
<1>3. StateInv'
  BY DEF Quiet, StateInv
<1> QED BY <1>1, <1>2, <1>3

(* A cycler that does not move stays safe. *)
LEMMA SteadyCycle ==
  ASSUME TypeOK, Steady, NEW a \in Cyclers, CycleSafe(a), cyc'[a] = cyc[a]
  PROVE  CycleSafe(a)'
<1>1. /\ cyc[a].drop \in SUBSET Jobs /\ cyc[a].batch \in SUBSET Jobs
  BY DEF TypeOK, CycleTypeOK, CycleRec
<1>2. \A j \in Jobs : Settled(j) => Settled(j)'
  BY DEF Steady
<1> QED BY <1>1, <1>2 DEF CycleSafe, IsFirst

(* A scanner that does not move still has nothing behind it: a completion  *)
(* can only appear in blocks above its safe head.                          *)
LEMMA SteadyScan ==
  ASSUME TypeOK, ChainTypeOK', Steady, NEW r \in Scanners, ScanSafe(r), scan'[r] = scan[r]
  PROVE  ScanSafe(r)'
<1>1. scan[r] \in ScanRec /\ head \in Nat /\ head' \in Nat
  BY DEF TypeOK, ScanTypeOK, ChainTypeOK
<1>2. \A j \in Jobs : doneAt[j] \in Nat /\ doneAt'[j] \in Nat
  BY DEF TypeOK, ChainTypeOK
<1>3. \A j \in Jobs : /\ Tracked(j) => Tracked(j)'
                      /\ \/ doneAt'[j] = doneAt[j]
                         \/ doneAt'[j] > Genesis /\ doneAt'[j] + Confirmations > head
  BY DEF Steady
<1>4. head <= head'
  BY DEF Steady
<1>5. /\ scan[r].lo \in Nat /\ scan[r].hi \in Nat /\ scan[r].safe \in Nat
      /\ Confirmations \in Nat /\ Genesis \in Nat
  BY <1>1, ReconcilerAssumption, HeadAssumption DEF ScanRec
<1>6. scan[r].pc \in {"head", "filter", "events", "add"} =>
        /\ scan[r].lo <= Genesis + 1 \/ scan[r].lo + Confirmations <= head' + 1
        /\ \A j \in Jobs : doneAt'[j] # 0 /\ doneAt'[j] < scan[r].lo => Tracked(j)'
  BY <1>1, <1>2, <1>3, <1>4, <1>5 DEF ScanSafe
<1>7. scan[r].pc \in {"filter", "events", "add"} =>
        /\ scan[r].safe + Confirmations <= head'
        /\ scan[r].lo <= scan[r].safe
  BY <1>1, <1>4, <1>5 DEF ScanSafe
<1>8. scan[r].pc \in {"events", "add"} =>
        /\ scan[r].hi <= scan[r].safe
        /\ \A j \in Jobs : doneAt'[j] \in scan[r].lo..scan[r].hi =>
             \/ j \in scan[r].evs \/ j \in scan[r].job
             \/ Tracked(j)' \/ scan[r].failed
  <2> SUFFICES ASSUME scan[r].pc \in {"events", "add"}
               PROVE  /\ scan[r].hi <= scan[r].safe
                      /\ \A j \in Jobs : doneAt'[j] \in scan[r].lo..scan[r].hi =>
                           \/ j \in scan[r].evs \/ j \in scan[r].job
                           \/ Tracked(j)' \/ scan[r].failed
    OBVIOUS
  <2>1. scan[r].hi <= scan[r].safe /\ scan[r].safe + Confirmations <= head
    BY DEF ScanSafe
  <2>2. \A j \in Jobs : doneAt[j] \in scan[r].lo..scan[r].hi =>
          j \in scan[r].evs \/ j \in scan[r].job \/ Tracked(j) \/ scan[r].failed
    BY DEF ScanSafe
  <2>3. \A j \in Jobs : doneAt'[j] \in scan[r].lo..scan[r].hi => doneAt'[j] = doneAt[j]
    BY <1>1, <1>2, <1>3, <1>5, <2>1
  <2> QED BY <1>3, <2>1, <2>2, <2>3
<1>9. (scan[r].pc # "add" => scan[r].job = {}) /\ \A i, j \in scan[r].job : i = j
  BY DEF ScanSafe
<1> QED BY <1>6, <1>7, <1>8, <1>9 DEF ScanSafe

(* The cursor and the block of `register` stay right while they stay put. *)
LEMMA SteadyCursor ==
  ASSUME TypeOK, ChainTypeOK', CursorInv, NoFeeForgotten, SeedInv, Steady
  PROVE  /\ cursor' = cursor => CursorInv' /\ NoFeeForgotten'
         /\ seed' = seed => SeedInv'
<1>1. /\ head \in Nat /\ head' \in Nat /\ cursor \in Nat /\ seed.block \in Nat
      /\ Confirmations \in Nat /\ \A j \in Jobs : doneAt[j] \in Nat /\ doneAt'[j] \in Nat
  BY ReconcilerAssumption DEF TypeOK, ChainTypeOK, StoreTypeOK, SeedRec
<1>2. cursor' = cursor => CursorInv'
  BY <1>1 DEF CursorInv, Steady
<1>3. cursor' = cursor => NoFeeForgotten'
  <2> SUFFICES ASSUME cursor' = cursor, NEW j \in Jobs, doneAt'[j] # 0, doneAt'[j] <= cursor
               PROVE  Tracked(j)'
    BY DEF NoFeeForgotten, Tracked
  <2>1. doneAt'[j] = doneAt[j]
    BY <1>1 DEF CursorInv, Steady
  <2>2. Tracked(j)
    BY <2>1 DEF NoFeeForgotten, Tracked
  <2> QED BY <2>2 DEF Steady
<1>4. seed' = seed => SeedInv'
  BY <1>1 DEF SeedInv, Steady
<1> QED BY <1>2, <1>3, <1>4

----------------------------------------------------------------------------
(* Reconciler passes. *)

(* The chain and the store after a step of a scanner: the cursor moves     *)
(* only to the end of a chunk whose every event is tracked or settled.     *)
LEMMA ScanQuiet ==
  ASSUME IInv, NEW r \in Scanners, ScanCursor(r) \/ ScanStep(r)
  PROVE  /\ ChainTypeOK' /\ StoreTypeOK' /\ Quiet /\ pending \subseteq pending'
         /\ CursorInv' /\ NoFeeForgotten'
<1>1. TypeOK /\ ChainTypeOK /\ StoreTypeOK /\ scan[r] \in ScanRec /\ ScanSafe(r)
  BY DEF IInv, TypeOK, ScanTypeOK
<1>2. EventsInv /\ StateInv /\ CursorInv /\ NoFeeForgotten /\ SeedInv
  BY DEF IInv
<1>3. UNCHANGED chainVars
  BY DEF ScanCursor, ScanStep, ScanHead, ScanFilter, ScanEvent, ScanEventError, ScanAdd,
         ScanChunkFailed, ScanAdvance, ScanRefused, ScanAbort
<1>4. ChainTypeOK'
  BY <1>1, <1>3, ChainType
<1>5. CASE UNCHANGED storeVars
  <2>1. StoreTypeOK' /\ Quiet /\ cursor' = cursor /\ pending' = pending
    BY <1>1, <1>3, <1>5, StoreOpsType, StoreQuiet DEF storeVars
  <2> QED BY <1>1, <1>2, <1>4, <2>1, QuietSteady, SteadyCursor
<1>6. CASE ScanAdd(r)
  <2>1. PICK j \in Jobs : AddEligible(j)
    BY <1>1, <1>6 DEF ScanAdd, ScanRec
  <2>2. StoreTypeOK' /\ Quiet /\ cursor' = cursor /\ pending' = pending \union {j}
    BY <1>1, <1>3, <2>1, StoreOpsType, StoreQuiet
  <2> QED BY <1>1, <1>2, <1>4, <2>2, QuietSteady, SteadyCursor
<1>7. CASE ScanAdvance(r)
  <2>1. scan[r].pc = "events" /\ scan[r].evs = {} /\ ~scan[r].failed /\ SetReconcileBlock(scan[r].hi)
    BY <1>7 DEF ScanAdvance
  <2>2. /\ scan[r].lo \in Nat /\ scan[r].hi \in Nat /\ scan[r].safe \in Nat
        /\ Confirmations \in Nat /\ head \in Nat /\ \A j \in Jobs : doneAt[j] \in Nat
    BY <1>1, ReconcilerAssumption DEF ScanRec, ChainTypeOK
  <2>3. StoreTypeOK' /\ Quiet /\ pending' = pending /\ cursor' = scan[r].hi
    BY <1>1, <1>3, <2>1, <2>2, StoreOpsType, StoreQuiet
  <2>4. Steady /\ head' = head /\ doneAt' = doneAt
    BY <1>1, <1>2, <2>3, QuietSteady DEF Quiet
  <2>5. scan[r].hi <= scan[r].safe /\ scan[r].safe + Confirmations <= head
    BY <1>1, <2>1 DEF ScanSafe
  <2>6. CursorInv'
    BY <2>2, <2>3, <2>4, <2>5 DEF CursorInv
  <2>7. \A j \in Jobs : doneAt[j] # 0 /\ doneAt[j] <= scan[r].hi => Tracked(j)
    BY <1>1, <2>1, <2>2 DEF ScanSafe
  <2>8. NoFeeForgotten'
    BY <2>3, <2>4, <2>7 DEF NoFeeForgotten, Steady, Tracked
  <2> QED BY <1>4, <2>3, <2>6, <2>8
<1> QED BY <1>5, <1>6, <1>7
    DEF ScanCursor, ScanStep, ScanHead, ScanFilter, ScanEvent, ScanEventError,
        ScanChunkFailed, ScanRefused, ScanAbort

(* After its step a scanner still has left nothing behind. *)
LEMMA ScanStaysSafe ==
  ASSUME IInv, NEW r \in Scanners, ScanCursor(r) \/ ScanStep(r)
  PROVE  ScanTypeOK' /\ ScanSafe(r)' /\ \A q \in Scanners : q # r => scan'[q] = scan[q]
<1>1. TypeOK /\ scan \in [Scanners -> ScanRec] /\ scan[r] \in ScanRec /\ ScanSafe(r)
  BY DEF IInv, TypeOK, ScanTypeOK
<1>2. /\ scan[r].lo \in Nat /\ scan[r].hi \in Nat /\ scan[r].safe \in Nat
      /\ scan[r].evs \in SUBSET Jobs /\ scan[r].job \in SUBSET Jobs /\ scan[r].failed \in BOOLEAN
  BY <1>1 DEF ScanRec
<1>3. /\ Confirmations \in Nat /\ StartBlock \in Nat /\ StartBlock <= Genesis + 1
      /\ ChunkSize \in Nat \ {0} /\ Genesis \in Nat
      /\ head \in Nat /\ cursor \in Nat /\ \A j \in Jobs : doneAt[j] \in Nat
  BY <1>1, ReconcilerAssumption, HeadAssumption DEF TypeOK, ChainTypeOK, StoreTypeOK
<1>4. /\ head' = head /\ doneAt' = doneAt
      /\ \A j \in Jobs : Settled(j) => Settled(j)'
      /\ \A j \in Jobs : Tracked(j) => Tracked(j)'
  BY ScanQuiet, QuietSteady DEF IInv, Quiet, Steady
<1>5. /\ {"idle", "head", "filter", "events", "add", "done"} \subseteq ScanPC
      /\ IdleScan \in ScanRec
  BY DEF ScanPC, ScanRec, IdleScan
<1>6. ASSUME NEW rec \in ScanRec, ScanBecomes(r, rec)
      PROVE  ScanTypeOK' /\ scan'[r] = rec /\ \A q \in Scanners : q # r => scan'[q] = scan[q]
  BY <1>1, <1>6 DEF ScanBecomes, ScanTypeOK
<1>7. ASSUME NEW rec \in ScanRec, ScanBecomes(r, rec), rec.pc \in {"idle", "done"}, rec.job = {}
      PROVE  ScanTypeOK' /\ ScanSafe(r)' /\ \A q \in Scanners : q # r => scan'[q] = scan[q]
  BY <1>6, <1>7 DEF ScanSafe
<1>8. ASSUME ScanEnds(r)
      PROVE  ScanTypeOK' /\ ScanSafe(r)' /\ \A q \in Scanners : q # r => scan'[q] = scan[q]
  BY <1>5, <1>7, <1>8 DEF ScanEnds, IdleScan
<1>9. ASSUME ScanSucceeds(r)
      PROVE  ScanTypeOK' /\ ScanSafe(r)' /\ \A q \in Scanners : q # r => scan'[q] = scan[q]
  <2> DEFINE rec == [IdleScan EXCEPT !.pc = "done"]
  <2>1. rec \in ScanRec /\ rec.pc = "done" /\ rec.job = {}
    BY <1>5 DEF ScanRec, IdleScan
  <2> QED BY <1>7, <1>9, <2>1 DEF ScanSucceeds
<1>10. CASE ScanCursor(r)
  <2> DEFINE lo  == IF cursor = 0 /\ StartBlock > 0 THEN StartBlock ELSE cursor + 1
             rec == [IdleScan EXCEPT !.pc = "head", !.lo = lo]
  <2>1. ScanBecomes(r, rec)
    BY <1>10 DEF ScanCursor
  <2>2. lo \in Nat /\ (lo <= Genesis + 1 \/ lo + Confirmations <= head + 1)
    BY <1>3 DEF IInv, CursorInv, EventsInv
  <2>3. \A j \in Jobs : doneAt[j] # 0 /\ doneAt[j] < lo => Tracked(j)
    BY <1>3 DEF IInv, EventsInv, NoFeeForgotten, Tracked
  <2> HIDE DEF lo
  <2>4. rec \in ScanRec /\ rec.pc = "head" /\ rec.lo = lo /\ rec.job = {}
    BY <1>5, <2>2 DEF ScanRec, IdleScan
  <2> HIDE DEF rec
  <2> QED BY <1>4, <1>6, <2>1, <2>2, <2>3, <2>4 DEF ScanSafe
<1>11. CASE ScanHead(r)
  <2> DEFINE rec == [scan[r] EXCEPT !.pc = "filter", !.safe = head - Confirmations]
  <2>1. CASE head < Confirmations \/ scan[r].lo > head - Confirmations
    BY <1>9, <1>11, <2>1 DEF ScanHead
  <2>2. CASE ~(head < Confirmations \/ scan[r].lo > head - Confirmations)
    <3>1. head - Confirmations \in Nat /\ scan[r].lo <= head - Confirmations
      BY <1>2, <1>3, <2>2
    <3>2. /\ rec \in ScanRec /\ rec.pc = "filter" /\ rec.lo = scan[r].lo
          /\ rec.safe = head - Confirmations /\ rec.job = scan[r].job
      BY <1>1, <1>5, <3>1 DEF ScanRec
    <3>3. ScanBecomes(r, rec)
      BY <1>11, <2>2 DEF ScanHead
    <3>4. /\ (scan[r].lo <= Genesis + 1 \/ scan[r].lo + Confirmations <= head + 1)
          /\ \A j \in Jobs : doneAt[j] # 0 /\ doneAt[j] < scan[r].lo => Tracked(j)
          /\ scan[r].job = {}
      BY <1>1, <1>11 DEF ScanSafe, ScanHead
    <3> HIDE DEF rec
    <3> QED BY <1>3, <1>4, <1>6, <3>1, <3>2, <3>3, <3>4 DEF ScanSafe
  <2> QED BY <2>1, <2>2
<1>12. CASE ScanFilter(r)
  <2> DEFINE last == scan[r].lo + ChunkSize - 1
             hi   == IF last > scan[r].safe THEN scan[r].safe ELSE last
             evs  == {j \in Jobs : doneAt[j] \in scan[r].lo..hi}
             rec  == [scan[r] EXCEPT !.pc = "events", !.hi = hi, !.evs = evs]
  <2>1. hi \in Nat /\ hi <= scan[r].safe
    BY <1>2, <1>3
  <2>2. ScanBecomes(r, rec) /\ scan[r].pc = "filter"
    BY <1>12 DEF ScanFilter
  <2>3. \A j \in Jobs : doneAt[j] \in scan[r].lo..hi => j \in evs
    OBVIOUS
  <2>4. /\ (scan[r].lo <= Genesis + 1 \/ scan[r].lo + Confirmations <= head + 1)
        /\ \A j \in Jobs : doneAt[j] # 0 /\ doneAt[j] < scan[r].lo => Tracked(j)
        /\ scan[r].safe + Confirmations <= head /\ scan[r].lo <= scan[r].safe
        /\ scan[r].job = {}
    BY <1>1, <2>2 DEF ScanSafe
  <2>5. evs \in SUBSET Jobs
    OBVIOUS
  <2> HIDE DEF hi, evs
  <2>6. /\ rec \in ScanRec /\ rec.pc = "events" /\ rec.lo = scan[r].lo /\ rec.hi = hi
        /\ rec.safe = scan[r].safe /\ rec.job = scan[r].job /\ rec.evs = evs
    BY <1>1, <1>5, <2>1, <2>5 DEF ScanRec
  <2> HIDE DEF rec
  <2> QED BY <1>3, <1>4, <1>6, <2>1, <2>2, <2>3, <2>4, <2>6 DEF ScanSafe
<1>13. CASE ScanEvent(r) \/ ScanEventError(r)
  <2>1. /\ scan[r].pc = "events" /\ scan[r].job = {} /\ scan[r].hi <= scan[r].safe
        /\ (scan[r].lo <= Genesis + 1 \/ scan[r].lo + Confirmations <= head + 1)
        /\ \A j \in Jobs : doneAt[j] # 0 /\ doneAt[j] < scan[r].lo => Tracked(j)
        /\ scan[r].safe + Confirmations <= head /\ scan[r].lo <= scan[r].safe
        /\ \A j \in Jobs : doneAt[j] \in scan[r].lo..scan[r].hi =>
             j \in scan[r].evs \/ Tracked(j) \/ scan[r].failed
    BY <1>1, <1>13 DEF ScanSafe, ScanEvent, ScanEventError
  <2>2. PICK j \in scan[r].evs :
          \/ ScanBecomes(r, [scan[r] EXCEPT !.evs = @ \ {j},
                               !.pc = IF Settled(j) THEN "events" ELSE "add",
                               !.job = IF Settled(j) THEN {} ELSE {j}])
          \/ ScanBecomes(r, [scan[r] EXCEPT !.evs = @ \ {j}, !.failed = TRUE])
    BY <1>13 DEF ScanEvent, ScanEventError
  <2>3. j \in Jobs
    BY <1>2
  <2>4. CASE ScanBecomes(r, [scan[r] EXCEPT !.evs = @ \ {j},
                               !.pc = IF Settled(j) THEN "events" ELSE "add",
                               !.job = IF Settled(j) THEN {} ELSE {j}])
    <3> DEFINE rec == [scan[r] EXCEPT !.evs = @ \ {j},
                         !.pc = IF Settled(j) THEN "events" ELSE "add",
                         !.job = IF Settled(j) THEN {} ELSE {j}]
    <3>1. /\ rec \in ScanRec /\ rec.lo = scan[r].lo /\ rec.hi = scan[r].hi
          /\ rec.safe = scan[r].safe /\ rec.evs = scan[r].evs \ {j} /\ rec.failed = scan[r].failed
          /\ rec.pc = IF Settled(j) THEN "events" ELSE "add"
          /\ rec.job = IF Settled(j) THEN {} ELSE {j}
      BY <1>1, <1>5, <2>3 DEF ScanRec
    <3>2. scan'[r] = rec /\ ScanTypeOK' /\ \A q \in Scanners : q # r => scan'[q] = scan[q]
      BY <1>6, <2>4, <3>1
    <3> HIDE DEF rec
    <3>3. \A k \in Jobs : doneAt[k] \in rec.lo..rec.hi =>
            k \in rec.evs \/ k \in rec.job \/ Tracked(k) \/ rec.failed
      BY <2>1, <3>1 DEF Tracked
    <3> QED BY <1>4, <2>1, <3>1, <3>2, <3>3 DEF ScanSafe
  <2>5. CASE ScanBecomes(r, [scan[r] EXCEPT !.evs = @ \ {j}, !.failed = TRUE])
    <3> DEFINE rec == [scan[r] EXCEPT !.evs = @ \ {j}, !.failed = TRUE]
    <3>1. /\ rec \in ScanRec /\ rec.lo = scan[r].lo /\ rec.hi = scan[r].hi
          /\ rec.safe = scan[r].safe /\ rec.failed = TRUE /\ rec.pc = "events" /\ rec.job = {}
      BY <1>1, <2>1 DEF ScanRec
    <3>2. scan'[r] = rec /\ ScanTypeOK' /\ \A q \in Scanners : q # r => scan'[q] = scan[q]
      BY <1>6, <2>5, <3>1
    <3> HIDE DEF rec
    <3> QED BY <1>4, <2>1, <3>1, <3>2 DEF ScanSafe
  <2> QED BY <2>2, <2>4, <2>5
<1>14. CASE ScanAdd(r)
  <2>1. /\ scan[r].pc = "add" /\ scan[r].hi <= scan[r].safe
        /\ (scan[r].lo <= Genesis + 1 \/ scan[r].lo + Confirmations <= head + 1)
        /\ \A j \in Jobs : doneAt[j] # 0 /\ doneAt[j] < scan[r].lo => Tracked(j)
        /\ scan[r].safe + Confirmations <= head /\ scan[r].lo <= scan[r].safe
        /\ \A j \in Jobs : doneAt[j] \in scan[r].lo..scan[r].hi =>
             j \in scan[r].evs \/ j \in scan[r].job \/ Tracked(j) \/ scan[r].failed
        /\ \A i, j \in scan[r].job : i = j
    BY <1>1, <1>14 DEF ScanSafe, ScanAdd
  <2>2. PICK j \in scan[r].job : AddEligible(j)
    BY <1>14 DEF ScanAdd
  <2>3. j \in Jobs /\ j \in pending'
    BY <1>1, <1>2, <2>2 DEF AddEligible, storeVars, TypeOK, StoreTypeOK
  <2>4. \A k \in scan[r].job : Tracked(k)'
    BY <2>1, <2>2, <2>3 DEF Tracked
  <2> DEFINE rec == [scan[r] EXCEPT !.pc = "events", !.job = {}]
  <2>5. /\ rec \in ScanRec /\ rec.lo = scan[r].lo /\ rec.hi = scan[r].hi
        /\ rec.safe = scan[r].safe /\ rec.evs = scan[r].evs /\ rec.failed = scan[r].failed
        /\ rec.pc = "events" /\ rec.job = {}
    BY <1>1, <1>5 DEF ScanRec
  <2>6. ScanBecomes(r, rec)
    BY <1>14 DEF ScanAdd
  <2>7. scan'[r] = rec /\ ScanTypeOK' /\ \A q \in Scanners : q # r => scan'[q] = scan[q]
    BY <1>6, <2>5, <2>6
  <2> HIDE DEF rec
  <2>8. \A k \in Jobs : doneAt[k] \in rec.lo..rec.hi =>
          k \in rec.evs \/ k \in rec.job \/ Tracked(k)' \/ rec.failed
    BY <1>4, <2>1, <2>4, <2>5
  <2> QED BY <1>4, <2>1, <2>5, <2>7, <2>8 DEF ScanSafe
<1>15. CASE ScanAdvance(r)
  <2>1. CASE scan[r].hi = scan[r].safe
    BY <1>9, <1>15, <2>1 DEF ScanAdvance
  <2>2. CASE scan[r].hi # scan[r].safe
    <3>1. /\ scan[r].pc = "events" /\ scan[r].evs = {} /\ ~scan[r].failed /\ scan[r].job = {}
          /\ scan[r].hi <= scan[r].safe
          /\ \A j \in Jobs : doneAt[j] # 0 /\ doneAt[j] < scan[r].lo => Tracked(j)
          /\ scan[r].safe + Confirmations <= head
          /\ \A j \in Jobs : doneAt[j] \in scan[r].lo..scan[r].hi => Tracked(j)
      BY <1>1, <1>15 DEF ScanSafe, ScanAdvance
    <3> DEFINE lo  == scan[r].hi + 1
               rec == [scan[r] EXCEPT !.pc = "filter", !.lo = lo, !.hi = 0]
    <3>2. lo \in Nat
      BY <1>2
    <3> HIDE DEF lo
    <3>3. /\ rec \in ScanRec /\ rec.lo = lo /\ rec.safe = scan[r].safe
          /\ rec.pc = "filter" /\ rec.job = {}
      BY <1>1, <1>5, <3>1, <3>2 DEF ScanRec
    <3> USE DEF lo
    <3>4. ScanBecomes(r, rec)
      BY <1>15, <2>2 DEF ScanAdvance
    <3>5. scan'[r] = rec /\ ScanTypeOK' /\ \A q \in Scanners : q # r => scan'[q] = scan[q]
      BY <1>6, <3>3, <3>4
    <3> HIDE DEF rec
    <3>6. \A j \in Jobs : doneAt[j] # 0 /\ doneAt[j] < rec.lo => Tracked(j)
      BY <1>2, <1>3, <3>1, <3>3
    <3>7. (rec.lo <= Genesis + 1 \/ rec.lo + Confirmations <= head + 1) /\ rec.lo <= rec.safe
      BY <1>2, <1>3, <2>2, <3>1, <3>3
    <3> QED BY <1>4, <3>1, <3>3, <3>5, <3>6, <3>7 DEF ScanSafe
  <2> QED BY <2>1, <2>2
<1> QED BY <1>8, <1>10, <1>11, <1>12, <1>13, <1>14, <1>15
    DEF ScanStep, ScanChunkFailed, ScanRefused, ScanAbort

----------------------------------------------------------------------------
(* The chain and the operator. *)

(* Every transaction of others, every completion and every re-mined        *)
(* completion leaves what is settled settled, and lands in an unconfirmed  *)
(* block.                                                                  *)
LEMMA ChainSteady ==
  ASSUME IInv, UNCHANGED storeVars,
         \/ NewBlock \/ Deregister \/ Pause \/ Unpause \/ SetWindow \/ RegisterWorker
         \/ \E j \in Jobs : CompleteJob(j) \/ Reorg(j) \/ DisputeJob(j) \/ ResolveDispute(j)
  PROVE  ChainTypeOK' /\ Steady /\ EventsInv' /\ StateInv'
<1>1. /\ TypeOK /\ EventsInv /\ StateInv /\ ChainTypeOK /\ Genesis \in Nat
      /\ Confirmations \in Nat /\ ReorgDepth \in Nat /\ ReorgDepth <= Confirmations
  BY HeadAssumption, ReconcilerAssumption, ReorgAssumption DEF IInv, TypeOK
<1>2. pending' = pending
  BY DEF storeVars
<1>3. ChainTypeOK'
  BY <1>1, ChainType
<1>4. CASE Deregister \/ Pause \/ Unpause \/ SetWindow
  <2>1. head' = head /\ state' = state /\ doneAt' = doneAt /\ firstTx' = firstTx
    BY <1>4 DEF Deregister, Pause, Unpause, SetWindow
  <2>2. Quiet
    BY <1>1, <1>2, <2>1 DEF Quiet, Settled
  <2> QED BY <1>1, <1>3, <2>2, QuietSteady
<1>5. CASE NewBlock \/ RegisterWorker
  <2>1. /\ head' = head + 1 /\ state' = state /\ doneAt' = doneAt
        /\ firstTx' = firstTx \/ (firstTx = 0 /\ firstTx' = head + 1)
    BY <1>5 DEF NewBlock, RegisterWorker, Mine, FirstTx
  <2>2. Steady
    BY <1>1, <1>2, <2>1 DEF Steady, Settled, Tracked, ChainTypeOK
  <2>3. EventsInv' /\ StateInv'
    BY <1>1, <2>1 DEF EventsInv, StateInv, ChainTypeOK
  <2> QED BY <1>3, <2>2, <2>3
<1>6. ASSUME NEW j \in Jobs, CompleteJob(j)
      PROVE  Steady /\ EventsInv' /\ StateInv'
  <2>1. /\ head' = head + 1 /\ state' = [state EXCEPT ![j] = "Completed"]
        /\ doneAt' = [doneAt EXCEPT ![j] = head + 1]
        /\ firstTx' = (IF firstTx = 0 THEN head + 1 ELSE firstTx) /\ state[j] = "Acknowledged"
    BY <1>6 DEF CompleteJob, Mine, FirstTx
  <2>2. Steady
    BY <1>1, <1>2, <2>1 DEF EventsInv, Steady, Settled, Tracked, ChainTypeOK
  <2>3. StateInv'
    BY <1>1, <2>1 DEF StateInv, ChainTypeOK
  <2>4. EventsInv'
    BY <1>1, <2>1 DEF EventsInv, ChainTypeOK
  <2> QED BY <2>2, <2>3, <2>4
<1>7. ASSUME NEW j \in Jobs, Reorg(j)
      PROVE  Steady /\ EventsInv' /\ StateInv'
  <2>1. /\ head' = head + 1 /\ state' = state /\ state[j] = "Completed"
        /\ doneAt[j] + ReorgDepth > head
    BY <1>7 DEF Reorg, Mine
  <2>2. PICK b \in (Genesis + 1)..(head + 1) :
          b + ReorgDepth > head /\ doneAt' = [doneAt EXCEPT ![j] = b]
    BY <1>7 DEF Reorg
  <2>3. PICK i \in Jobs :
          /\ doneAt'[i] # 0
          /\ \A k \in Jobs : doneAt'[k] # 0 => doneAt'[i] <= doneAt'[k]
          /\ firstTx' = IF firstTx + ReorgDepth > head THEN doneAt'[i] ELSE firstTx
    BY <1>7 DEF Reorg
  <2>4. Steady
    BY <1>1, <1>2, <2>1, <2>2 DEF Steady, Settled, Tracked, ChainTypeOK
  <2>5. doneAt[j] # 0
    BY <1>1, <2>1 DEF StateInv
  <2>6. StateInv'
    BY <1>1, <2>1, <2>5, <2>2 DEF StateInv, ChainTypeOK
  <2>7. \A k \in Jobs : doneAt'[k] # 0 =>
          Genesis < doneAt'[k] /\ doneAt'[k] <= head' /\ firstTx # 0
    BY <1>1, <2>1, <2>5, <2>2 DEF EventsInv, ChainTypeOK
  <2>8. firstTx' # 0 /\ firstTx' <= head' /\ \A k \in Jobs : doneAt'[k] # 0 => firstTx' <= doneAt'[k]
    BY <1>1, <1>3, <2>1, <2>5, <2>2, <2>3, <2>7 DEF EventsInv, ChainTypeOK
  <2> QED BY <1>1, <2>1, <2>4, <2>6, <2>7, <2>8 DEF EventsInv, ChainTypeOK
<1>8. ASSUME NEW j \in Jobs, DisputeJob(j) \/ ResolveDispute(j)
      PROVE  Steady /\ EventsInv' /\ StateInv'
  <2>1. PICK v \in {"Disputed", "ResolvedPaid", "ResolvedZero"} :
          /\ state' = [state EXCEPT ![j] = v] /\ state[j] \in {"Completed", "Disputed"}
          /\ head' = head /\ doneAt' = doneAt /\ firstTx' = firstTx
    BY <1>8 DEF DisputeJob, ResolveDispute
  <2>2. Quiet
    BY <1>1, <1>2, <2>1 DEF Quiet, Settled, ChainTypeOK
  <2> QED BY <1>1, <2>2, QuietSteady
<1> QED BY <1>3, <1>4, <1>5, <1>6, <1>7, <1>8

(* All threads are safe where they stand after a step of something else. *)
LEMMA SteadyThreads ==
  ASSUME IInv, ChainTypeOK', Steady
  PROVE  /\ \A a \in Cyclers : cyc'[a] = cyc[a] => CycleSafe(a)'
         /\ \A r \in Scanners : scan'[r] = scan[r] => ScanSafe(r)'
         /\ cursor' = cursor => CursorInv' /\ NoFeeForgotten'
         /\ seed' = seed => SeedInv'
<1>1. TypeOK /\ CursorInv /\ NoFeeForgotten /\ SeedInv
  BY DEF IInv
<1>2. \A a \in Cyclers : CycleSafe(a)
  BY DEF IInv
<1>3. \A r \in Scanners : ScanSafe(r)
  BY DEF IInv
<1>4. \A a \in Cyclers : cyc'[a] = cyc[a] => CycleSafe(a)'
  BY <1>1, <1>2, SteadyCycle
<1>5. \A r \in Scanners : scan'[r] = scan[r] => ScanSafe(r)'
  BY <1>1, <1>3, SteadyScan
<1> QED BY <1>1, <1>4, <1>5, SteadyCursor

(* A thread that starts, or was killed, removes and skips nothing. *)
LEMMA IdleSafe ==
  /\ \A a \in Cyclers : cyc[a] = IdleCycle => CycleSafe(a)
  /\ \A r \in Scanners : scan[r] = IdleScan => ScanSafe(r)
<1>1. \A a \in Cyclers : cyc[a] = IdleCycle => CycleSafe(a)
  BY DEF CycleSafe, IdleCycle
<1>2. \A r \in Scanners : scan[r] = IdleScan => ScanSafe(r)
  BY DEF ScanSafe, IdleScan
<1> QED BY <1>1, <1>2

(* In the initial state there is no event to miss. *)
LEMMA InitIInv == Init => IInv
<1> SUFFICES ASSUME Init PROVE IInv
  OBVIOUS
<1>1. TypeOK
  BY InitType
<1>2. /\ head = Genesis /\ Genesis \in Nat /\ firstTx = 0 /\ cursor = 0 /\ seed.block = 0
      /\ \A j \in Jobs : doneAt[j] = 0 /\ state[j] = "Acknowledged"
  BY HeadAssumption DEF Init, ChainInit, EmptySnapshot, IdleSeed
<1>3. \A a \in Cyclers : CycleSafe(a)
  BY IdleSafe DEF Init, CycleInit
<1>4. \A r \in Scanners : ScanSafe(r)
  BY IdleSafe DEF Init, ScanInit
<1>5. EventsInv /\ StateInv /\ CursorInv /\ SeedInv /\ NoFeeForgotten
  BY <1>2 DEF EventsInv, StateInv, CursorInv, SeedInv, NoFeeForgotten
<1> QED BY <1>1, <1>3, <1>4, <1>5 DEF IInv

(* A step that leaves threads and cursor where they are keeps everything. *)
LEMMA FrameIInv ==
  ASSUME IInv, ChainTypeOK', StoreTypeOK', late' \in SUBSET SUBSET Jobs,
         Steady, EventsInv', StateInv',
         cursor' = cursor, cyc' = cyc, scan' = scan, seed' = seed, unmarked' \in SUBSET Jobs
  PROVE  IInv'
<1>1. TypeOK'
  BY DEF IInv, TypeOK, CycleTypeOK, ScanTypeOK
<1>2. /\ \A a \in Cyclers : CycleSafe(a)'
      /\ \A r \in Scanners : ScanSafe(r)'
      /\ CursorInv' /\ NoFeeForgotten' /\ SeedInv'
  BY SteadyThreads
<1> QED BY <1>1, <1>2 DEF IInv

(* A step of one cycler. *)
LEMMA CycleIInv ==
  ASSUME IInv, NEW a \in Cyclers, CycleHead(a) \/ CycleStep(a), UNCHANGED <<unmarked, seed>>,
         \A r \in Scanners : scan'[r] = scan[r] \/ scan'[r] = IdleScan, ScanTypeOK'
  PROVE  IInv'
<1>1. TypeOK /\ EventsInv /\ StateInv /\ CycleSafe(a)
  BY DEF IInv
<1>2. /\ ChainTypeOK' /\ StoreTypeOK' /\ late' \in SUBSET SUBSET Jobs /\ Quiet /\ cursor' = cursor
      /\ cyc' \in [Cyclers -> CycleRec]
      /\ CycleSafe(a)' /\ \A b \in Cyclers : b # a => cyc'[b] = cyc[b]
  BY <1>1, CycleQuiet, CycleType, CycleStaysSafe
<1>3. Steady /\ EventsInv' /\ StateInv'
  BY <1>1, <1>2, QuietSteady
<1>4. TypeOK'
  BY <1>1, <1>2 DEF TypeOK, CycleTypeOK
<1>5. \A b \in Cyclers : CycleSafe(b)'
  BY <1>2, <1>3, SteadyThreads
<1>6. \A r \in Scanners : ScanSafe(r)'
  <2> SUFFICES ASSUME NEW r \in Scanners PROVE ScanSafe(r)'
    OBVIOUS
  <2>1. CASE scan'[r] = IdleScan
    BY <2>1 DEF ScanSafe, IdleScan
  <2> QED BY <1>2, <1>3, <2>1, SteadyThreads
<1>7. CursorInv' /\ NoFeeForgotten' /\ SeedInv'
  BY <1>2, <1>3, SteadyThreads
<1> QED BY <1>3, <1>4, <1>5, <1>6, <1>7 DEF IInv

(* A step of one scanner. *)
LEMMA ScanIInv ==
  ASSUME IInv, NEW r \in Scanners, ScanCursor(r) \/ ScanStep(r),
         UNCHANGED <<cycleVars, unmarked, seed>>
  PROVE  IInv'
<1>1. TypeOK /\ EventsInv /\ StateInv
  BY DEF IInv
<1>2. /\ ChainTypeOK' /\ StoreTypeOK' /\ Quiet /\ CursorInv' /\ NoFeeForgotten' /\ ScanTypeOK'
      /\ ScanSafe(r)' /\ \A q \in Scanners : q # r => scan'[q] = scan[q]
  BY ScanQuiet, ScanStaysSafe
<1>3. cyc' = cyc /\ late' = late
  BY DEF cycleVars
<1>4. Steady /\ EventsInv' /\ StateInv'
  BY <1>1, <1>2, QuietSteady
<1>5. TypeOK'
  BY <1>1, <1>2, <1>3 DEF TypeOK, CycleTypeOK
<1>6. /\ \A a \in Cyclers : CycleSafe(a)'
      /\ \A q \in Scanners : ScanSafe(q)'
      /\ SeedInv'
  BY <1>2, <1>3, <1>4, SteadyThreads
<1> QED BY <1>2, <1>4, <1>5, <1>6 DEF IInv

(* The steps of the `register` command. *)
LEMMA RegisterIInv ==
  ASSUME IInv,
         RegisterCheck \/ RegisterHead \/ RegisterSend \/ RegisterStore \/ RegisterExit
  PROVE  IInv'
<1>1. /\ TypeOK /\ EventsInv /\ StateInv /\ CursorInv /\ NoFeeForgotten /\ SeedInv
      /\ ChainTypeOK /\ StoreTypeOK
      /\ late \in SUBSET SUBSET Jobs /\ seed \in SeedRec
  BY DEF IInv, TypeOK, CycleTypeOK
<1>2. cyc' = cyc /\ late' = late /\ scan' = scan /\ unmarked' = unmarked
  BY DEF RegisterCheck, RegisterHead, RegisterSend, RegisterStore, RegisterExit, cycleVars
<1>3. /\ seed.block \in Nat /\ head \in Nat /\ cursor \in Nat /\ firstTx \in Nat
      /\ Confirmations \in Nat /\ \A j \in Jobs : doneAt[j] \in Nat
  BY <1>1, ReconcilerAssumption DEF SeedRec, ChainTypeOK, StoreTypeOK
<1>4. ASSUME ChainTypeOK', StoreTypeOK', Steady, EventsInv', StateInv', CursorInv',
             NoFeeForgotten', SeedInv', seed' \in SeedRec
      PROVE  IInv'
  <2>1. TypeOK'
    BY <1>1, <1>2, <1>4 DEF TypeOK, CycleTypeOK, ScanTypeOK
  <2>2. (\A a \in Cyclers : CycleSafe(a)') /\ (\A r \in Scanners : ScanSafe(r)')
    BY <1>2, <1>4, SteadyThreads
  <2> QED BY <1>4, <2>1, <2>2 DEF IInv
<1>5. CASE RegisterCheck \/ RegisterHead \/ RegisterExit
  <2>1. UNCHANGED chainVars /\ UNCHANGED storeVars
    BY <1>5 DEF RegisterCheck, RegisterHead, RegisterExit
  <2>2. /\ ChainTypeOK' /\ StoreTypeOK' /\ Quiet /\ cursor' = cursor
        /\ head' = head /\ doneAt' = doneAt
    BY <1>1, <2>1, ChainType, StoreOpsType, StoreQuiet DEF chainVars
  <2>3. Steady /\ EventsInv' /\ StateInv'
    BY <1>1, <2>2, QuietSteady
  <2>4. CursorInv' /\ NoFeeForgotten'
    BY <1>1, <2>2, <2>3, SteadyCursor
  <2>5. seed' \in SeedRec /\ SeedInv'
    <3>1. CASE RegisterCheck \/ RegisterExit
      <4>1. seed' \in SeedRec /\ seed'.block = 0
        BY <3>1 DEF RegisterCheck, RegisterExit, SeedRec, IdleSeed
      <4> QED BY <4>1 DEF SeedInv
    <3>2. CASE RegisterHead
      <4> DEFINE safe  == head - Confirmations
                 fresh == head >= Confirmations /\ (firstTx = 0 \/ firstTx > safe)
      <4>1. PICK ok \in BOOLEAN :
              seed' = [pc |-> "register", block |-> IF fresh /\ ok THEN safe ELSE 0]
        BY <3>2 DEF RegisterHead
      <4>2. fresh => /\ safe \in Nat /\ safe + Confirmations <= head
                     /\ \A j \in Jobs : doneAt[j] # 0 => safe < doneAt[j]
        BY <1>1, <1>3 DEF EventsInv
      <4>3. /\ seed'.block = (IF fresh /\ ok THEN safe ELSE 0) /\ seed'.pc = "register"
            /\ seed' \in SeedRec
        BY <4>1, <4>2 DEF SeedRec
      <4> HIDE DEF fresh, safe
      <4> QED BY <2>2, <4>2, <4>3 DEF SeedInv
    <3> QED BY <1>5, <3>1, <3>2
  <2> QED BY <1>4, <2>2, <2>3, <2>4, <2>5
<1>6. CASE RegisterSend
  <2>1. UNCHANGED storeVars /\ (UNCHANGED chainVars \/ RegisterWorker)
    BY <1>6 DEF RegisterSend
  <2>2. StoreTypeOK' /\ cursor' = cursor
    BY <1>1, <2>1, StoreOpsType DEF storeVars
  <2>3. ChainTypeOK' /\ Steady /\ EventsInv' /\ StateInv'
    BY <1>1, <2>1, ChainSteady, ChainType, StoreQuiet, QuietSteady
  <2>4. seed' \in SeedRec /\ seed'.block = seed.block
    BY <1>1, <1>6 DEF RegisterSend, SeedRec
  <2>5. CursorInv' /\ NoFeeForgotten'
    BY <1>1, <2>2, <2>3, SteadyCursor
  <2>6. SeedInv'
    BY <1>1, <1>3, <2>3, <2>4 DEF SeedInv, Steady, ChainTypeOK
  <2> QED BY <1>4, <2>2, <2>3, <2>4, <2>5, <2>6
<1>7. CASE RegisterStore
  <2>1. /\ UNCHANGED chainVars
        /\ \/ seed.block # 0 /\ SeedReconcileBlock(seed.block)
           \/ UNCHANGED storeVars
    BY <1>7 DEF RegisterStore
  <2>2. seed' \in SeedRec /\ seed'.block = 0
    BY <1>7 DEF RegisterStore, SeedRec, IdleSeed
  <2>3. ChainTypeOK' /\ StoreTypeOK' /\ Quiet /\ pending' = pending
    BY <1>1, <1>3, <2>1, ChainType, StoreOpsType, StoreQuiet DEF storeVars
  <2>4. Steady /\ EventsInv' /\ StateInv' /\ head' = head /\ doneAt' = doneAt
    BY <1>1, <2>3, QuietSteady DEF Quiet
  <2>5. cursor' = cursor \/ (seed.block # 0 /\ cursor' = seed.block)
    BY <2>1 DEF SeedReconcileBlock, storeVars
  <2>6. CASE cursor' = cursor
    BY <1>1, <1>4, <2>2, <2>3, <2>4, <2>6, SteadyCursor DEF SeedInv
  <2>7. CASE seed.block # 0 /\ cursor' = seed.block
    <3>1. CursorInv' /\ NoFeeForgotten'
      BY <1>1, <1>3, <2>4, <2>7 DEF CursorInv, NoFeeForgotten, SeedInv
    <3> QED BY <1>4, <2>2, <2>3, <2>4, <3>1 DEF SeedInv
  <2> QED BY <2>5, <2>6, <2>7
<1> QED BY <1>5, <1>6, <1>7

(* SidecarCrash, CliExit and the operator's removal of the state file. *)
LEMMA StopIInv ==
  ASSUME IInv, SidecarCrash \/ (\E a \in OneShots : CliExit(a)) \/ WipeState
  PROVE  IInv'
<1>1. TypeOK /\ EventsInv /\ StateInv /\ ChainTypeOK /\ StoreTypeOK
  BY DEF IInv, TypeOK
<1>2. UNCHANGED chainVars /\ late' = late /\ seed' = seed
  BY DEF SidecarCrash, CliExit, WipeState, cycleVars
<1>3. ChainTypeOK' /\ head' = head /\ doneAt' = doneAt /\ state' = state /\ firstTx' = firstTx
  BY <1>1, <1>2, ChainType DEF chainVars
<1>4. IdleCycle \in CycleRec /\ IdleScan \in ScanRec
  BY DEF CycleRec, IdleCycle, CyclePC, Err, ScanRec, IdleScan, ScanPC
<1>5. CASE SidecarCrash \/ \E a \in OneShots : CliExit(a)
  <2>1. UNCHANGED storeVars /\ unmarked' \in SUBSET Jobs
    BY <1>1, <1>5 DEF SidecarCrash, CliExit, TypeOK
  <2>2. /\ cyc' \in [Cyclers -> CycleRec]
        /\ \A a \in Cyclers : cyc'[a] = cyc[a] \/ cyc'[a] = IdleCycle
    BY <1>1, <1>4, <1>5 DEF SidecarCrash, CliExit, TypeOK, CycleTypeOK
  <2>3. /\ scan' \in [Scanners -> ScanRec]
        /\ \A r \in Scanners : scan'[r] = scan[r] \/ scan'[r] = IdleScan
    BY <1>1, <1>4, <1>5 DEF SidecarCrash, CliExit, TypeOK, ScanTypeOK
  <2>4. StoreTypeOK' /\ Quiet /\ cursor' = cursor
    BY <1>1, <1>2, <2>1, StoreOpsType, StoreQuiet
  <2>5. Steady /\ EventsInv' /\ StateInv'
    BY <1>1, <2>4, QuietSteady
  <2>6. TypeOK'
    BY <1>1, <1>2, <1>3, <2>1, <2>2, <2>3, <2>4 DEF TypeOK, CycleTypeOK, ScanTypeOK
  <2>7. \A a \in Cyclers : CycleSafe(a)'
    <3> SUFFICES ASSUME NEW a \in Cyclers PROVE CycleSafe(a)'
      OBVIOUS
    <3>1. CASE cyc'[a] = IdleCycle
      BY <3>1 DEF CycleSafe, IdleCycle
    <3> QED BY <1>3, <2>2, <2>5, <3>1, SteadyThreads
  <2>8. \A r \in Scanners : ScanSafe(r)'
    <3> SUFFICES ASSUME NEW r \in Scanners PROVE ScanSafe(r)'
      OBVIOUS
    <3>1. CASE scan'[r] = IdleScan
      BY <3>1 DEF ScanSafe, IdleScan
    <3> QED BY <1>3, <2>3, <2>5, <3>1, SteadyThreads
  <2>9. CursorInv' /\ NoFeeForgotten' /\ SeedInv'
    BY <1>2, <1>3, <2>4, <2>5, SteadyThreads
  <2> QED BY <2>5, <2>6, <2>7, <2>8, <2>9 DEF IInv
<1>6. CASE WipeState
  <2>1. /\ NewSnapshot /\ cyc' = cyc /\ scan' = scan /\ unmarked' = unmarked
        /\ \A a \in Cyclers : cyc[a] = IdleCycle
        /\ \A r \in Scanners : scan[r] = IdleScan
        /\ seed.block = 0
    BY <1>6 DEF WipeState, cycleVars, IdleSeed
  <2>2. StoreTypeOK' /\ cursor' = 0
    BY <1>1, <2>1, StoreOpsType DEF NewSnapshot
  <2>3. TypeOK'
    BY <1>1, <1>2, <1>3, <2>1, <2>2 DEF TypeOK, CycleTypeOK, ScanTypeOK
  <2>4. EventsInv' /\ StateInv'
    BY <1>1, <1>3 DEF EventsInv, StateInv
  <2>5. \A a \in Cyclers : CycleSafe(a)'
    BY <2>1 DEF CycleSafe, IdleCycle
  <2>6. \A r \in Scanners : ScanSafe(r)'
    BY <2>1 DEF ScanSafe, IdleScan
  <2>7. CursorInv' /\ SeedInv'
    BY <1>2, <2>1, <2>2 DEF CursorInv, SeedInv
  <2>8. NoFeeForgotten'
    BY <1>1, <1>3, <2>2 DEF NoFeeForgotten, ChainTypeOK
  <2> QED BY <2>3, <2>4, <2>5, <2>6, <2>7, <2>8 DEF IInv
<1> QED BY <1>5, <1>6

(* Every step preserves the invariant. *)
LEMMA NextIInv == IInv /\ [Next]_vars => IInv'
<1> SUFFICES ASSUME IInv, [Next]_vars PROVE IInv'
  OBVIOUS
<1>1. /\ TypeOK /\ EventsInv /\ StateInv /\ ChainTypeOK /\ StoreTypeOK
      /\ late \in SUBSET SUBSET Jobs /\ unmarked \in SUBSET Jobs /\ ScanTypeOK
  BY DEF IInv, TypeOK, CycleTypeOK
<1>2. CASE ChainStep
  <2>1. /\ \/ NewBlock \/ Deregister \/ Pause \/ Unpause \/ SetWindow \/ RegisterWorker
           \/ \E j \in Jobs : CompleteJob(j) \/ Reorg(j) \/ DisputeJob(j) \/ ResolveDispute(j)
        /\ UNCHANGED storeVars
        /\ cyc' = cyc /\ late' = late /\ scan' = scan /\ unmarked' = unmarked /\ seed' = seed
    BY <1>2 DEF ChainStep, cycleVars
  <2>2. ChainTypeOK' /\ Steady /\ EventsInv' /\ StateInv'
    BY <2>1, ChainSteady
  <2>3. StoreTypeOK' /\ cursor' = cursor
    BY <1>1, <2>1, StoreOpsType DEF storeVars
  <2> QED BY <1>1, <2>1, <2>2, <2>3, FrameIInv
<1>3. CASE MempoolStep
  <2>1. PICK S \in late : LateTx(S)
    BY <1>3 DEF MempoolStep
  <2>2. /\ UNCHANGED storeVars /\ late' \in SUBSET SUBSET Jobs /\ S \in SUBSET Jobs
        /\ cyc' = cyc /\ scan' = scan /\ unmarked' = unmarked /\ seed' = seed
        /\ (~ReleaseReverts(S) /\ ApplyRelease(S)) \/ UNCHANGED chainVars
    BY <1>1, <1>3, <2>1 DEF MempoolStep, LateTx
  <2>3. ChainTypeOK' /\ StoreTypeOK'
    BY <1>1, <2>2, ChainType, StoreOpsType
  <2>4. Quiet /\ cursor' = cursor
    BY <1>1, <2>2, ReleaseQuiet, StoreQuiet
  <2> QED BY <1>1, <2>2, <2>3, <2>4, QuietSteady, FrameIInv
<1>4. ASSUME NEW j \in Jobs, PipelineComplete(j)
      PROVE  IInv'
  <2>1. /\ CompleteJob(j) /\ UNCHANGED storeVars /\ unmarked' \in SUBSET Jobs
        /\ cyc' = cyc /\ late' = late /\ scan' = scan /\ seed' = seed
    BY <1>1, <1>4 DEF PipelineComplete, cycleVars
  <2>2. ChainTypeOK' /\ Steady /\ EventsInv' /\ StateInv'
    BY <2>1, ChainSteady
  <2>3. StoreTypeOK' /\ cursor' = cursor
    BY <1>1, <2>1, StoreOpsType DEF storeVars
  <2> QED BY <1>1, <2>1, <2>2, <2>3, FrameIInv
<1>5. ASSUME NEW j \in Jobs, MarkEligible(j)
      PROVE  IInv'
  <2>1. /\ UNCHANGED chainVars /\ unmarked' \in SUBSET Jobs
        /\ cyc' = cyc /\ late' = late /\ scan' = scan /\ seed' = seed
        /\ AddEligible(j) \/ UNCHANGED storeVars
    BY <1>1, <1>5 DEF MarkEligible, cycleVars
  <2>2. ChainTypeOK' /\ StoreTypeOK' /\ Quiet /\ cursor' = cursor
    BY <1>1, <2>1, ChainType, StoreOpsType, StoreQuiet
  <2> QED BY <1>1, <2>1, <2>2, QuietSteady, FrameIInv
<1>6. ASSUME NEW a \in Tickers, TickerStep(a)
      PROVE  IInv'
  <2>1. a \in Cyclers /\ (CycleHead(a) \/ CycleStep(a)) /\ UNCHANGED <<unmarked, seed>> /\ scan' = scan
    BY <1>6 DEF TickerStep, Cyclers
  <2>2. ScanTypeOK'
    BY <1>1, <2>1 DEF ScanTypeOK
  <2> QED BY <2>1, <2>2, CycleIInv
<1>7. ASSUME NEW r \in SidecarScanners, ScannerStep(r)
      PROVE  IInv'
  BY <1>7, ScanIInv DEF ScannerStep, SidecarScanners
<1>8. ASSUME NEW a \in OneShots, ReleaseScan(a)
      PROVE  IInv'
  BY <1>8, ScanIInv, SettlementAssumption DEF ReleaseScan
<1>9. ASSUME NEW a \in OneShots, ReleaseCycle(a) \/ ReleaseStep(a)
      PROVE  IInv'
  <2>1. a \in Cyclers /\ (CycleHead(a) \/ CycleStep(a)) /\ UNCHANGED <<unmarked, seed>>
    BY <1>9 DEF ReleaseCycle, ReleaseStep, Cyclers
  <2>2. scan' = scan \/ scan' = [scan EXCEPT ![a] = IdleScan]
    BY <1>9 DEF ReleaseCycle, ReleaseStep
  <2>3. IdleScan \in ScanRec
    BY DEF IdleScan, ScanRec, ScanPC
  <2>4. ScanTypeOK' /\ \A r \in Scanners : scan'[r] = scan[r] \/ scan'[r] = IdleScan
    BY <1>1, <2>2, <2>3 DEF ScanTypeOK
  <2> QED BY <2>1, <2>4, CycleIInv
<1>10. CASE SidecarCrash \/ (\E a \in OneShots : CliExit(a)) \/ WipeState
  BY <1>10, StopIInv
<1>11. CASE RegisterCheck \/ RegisterHead \/ RegisterSend \/ RegisterStore \/ RegisterExit
  BY <1>11, RegisterIInv
<1>12. CASE UNCHANGED vars
  <2>1. /\ UNCHANGED chainVars /\ UNCHANGED storeVars /\ cyc' = cyc /\ late' = late
        /\ scan' = scan /\ unmarked' = unmarked /\ seed' = seed
    BY <1>12 DEF vars, cycleVars
  <2>2. ChainTypeOK' /\ StoreTypeOK' /\ Quiet /\ cursor' = cursor
    BY <1>1, <2>1, ChainType, StoreOpsType, StoreQuiet
  <2> QED BY <1>1, <2>1, <2>2, QuietSteady, FrameIInv
<1> QED BY <1>2, <1>3, <1>4, <1>5, <1>6, <1>7, <1>8, <1>9, <1>10, <1>11, <1>12 DEF Next

----------------------------------------------------------------------------
(* The invariant holds in every reachable state. *)
THEOREM Invariance == Spec => []IInv
  BY InitIInv, NextIInv, PTL DEF Spec

(* Every variable keeps its type: no counter underflows, no local of a     *)
(* cycle or a pass leaves its range.                                       *)
THEOREM TypeCorrect == Spec => []TypeOK
<1>1. IInv => TypeOK
  BY DEF IInv
<1> QED BY <1>1, Invariance, PTL

(* The worker never forgets a fee: a completion behind the reconcile       *)
(* cursor (SetReconcileBlock, SeedReconcileBlock) is in the pending set or *)
(* settled, whatever the other threads, the chain and crashes do.          *)
THEOREM FeesRemembered == Spec => []NoFeeForgotten
<1>1. IInv => NoFeeForgotten
  BY DEF IInv
<1> QED BY <1>1, Invariance, PTL

----------------------------------------------------------------------------
(* Action properties and refinement. *)

(* A release cycle either settles fees on the chain or shrinks the pending *)
(* set, never both in one step, and never extends the set.                 *)
LEMMA CycleShrinks ==
  ASSUME TypeOK, NEW a \in Cyclers, CycleHead(a) \/ CycleStep(a)
  PROVE  pending' = pending \/ (UNCHANGED chainVars /\ pending' \subseteq pending)
<1>1. CASE TxSucceeds(a)
  BY <1>1 DEF TxSucceeds, storeVars
<1>2. CASE \/ CycleHead(a) \/ CycleGate(a) \/ CycleAbort(a) \/ CycleCollect(a)
           \/ PartitionDefer(a) \/ PartitionJob(a) \/ EstimateRevert(a) \/ Broadcast(a)
           \/ SendError(a) \/ TxTimeout(a) \/ TxReverts(a) \/ FallbackReadError(a)
           \/ FallbackJob(a) \/ ReadFailCount(a)
  BY <1>2 DEF CycleHead, CycleGate, CycleAbort, CycleCollect, PartitionDefer, PartitionJob,
              EstimateRevert, Broadcast, SendError, TxTimeout, TxReverts, FallbackReadError,
              FallbackJob, ReadFailCount, storeVars
<1>3. CASE RemoveDropped(a) \/ RemoveReleased(a) \/ FallbackRemove(a)
  BY <1>3 DEF RemoveDropped, RemoveReleased, FallbackRemove, Remove, storeVars
<1>4. CASE RecordAttempt(a) \/ ApplyPauseBackoff(a) \/ RecordPerJobFailure(a)
  BY <1>4 DEF RecordAttempt, ApplyPauseBackoff, RecordPerJobFailure, SetLastReleaseTs,
              SetNextAllowedAttempt, RecordFailure, storeVars
<1> QED BY <1>1, <1>2, <1>3, <1>4 DEF CycleStep

(* A quiet step that changes one side only is a step of the ledger. *)
LEMMA QuietLedger ==
  ASSUME IInv, Quiet, cursor' = cursor,
         \/ pending' = pending
         \/ UNCHANGED chainVars /\ pending' \subseteq pending
         \/ UNCHANGED chainVars /\ \E j \in Jobs : pending' = pending \union {j}
  PROVE  [Ledger!LedgerNext]_(Ledger!ledgerVars)
<1>1. Passed' = Passed
  BY DEF Quiet, Passed
<1>2. Owed' \subseteq Owed /\ Owed' = Owed \ (Owed \ Owed')
  BY DEF Quiet, Owed
<1>3. CASE pending' = pending
  <2>1. Ledger!Settle
    BY <1>1, <1>2, <1>3 DEF Ledger!Settle
  <2> QED BY <2>1 DEF Ledger!LedgerNext
<1>4. ASSUME UNCHANGED chainVars
      PROVE  Owed' = Owed
  BY <1>4 DEF Owed, Settled, chainVars
<1>5. CASE UNCHANGED chainVars /\ pending' \subseteq pending
  <2>1. \A j \in pending \ pending' : Settled(j)
    BY DEF Quiet
  <2>2. (pending \ pending') \intersect Owed = {}
    BY <2>1 DEF Owed
  <2>3. pending' = pending \ (pending \ pending')
    BY <1>5
  <2>4. Ledger!Forget
    BY <1>1, <1>4, <1>5, <2>2, <2>3 DEF Ledger!Forget
  <2> QED BY <2>4 DEF Ledger!LedgerNext
<1>6. CASE UNCHANGED chainVars /\ \E j \in Jobs : pending' = pending \union {j}
  <2>1. Ledger!Learn
    BY <1>1, <1>4, <1>6 DEF Ledger!Learn
  <2> QED BY <2>1 DEF Ledger!LedgerNext
<1> QED BY <1>3, <1>5, <1>6

(* Moving the cursor forward passes events that are tracked or settled. *)
LEMMA CursorLedger ==
  ASSUME IInv, NoFeeForgotten', UNCHANGED chainVars, pending' = pending,
         cursor' \in Nat, cursor <= cursor'
  PROVE  [Ledger!LedgerNext]_(Ledger!ledgerVars)
<1>1. /\ cursor \in Nat /\ \A j \in Jobs : doneAt[j] \in Nat
      /\ doneAt' = doneAt /\ state' = state
  BY DEF IInv, TypeOK, StoreTypeOK, ChainTypeOK, chainVars
<1>2. Owed' = Owed
  BY <1>1 DEF Owed, Settled
<1>3. Passed' = Passed \union Passed' /\ Passed' \in SUBSET Jobs
  BY <1>1 DEF Passed
<1>4. Passed' \intersect Owed \subseteq pending
  BY <1>1 DEF Passed, Owed, NoFeeForgotten, Settled
<1>5. Ledger!Pass
  BY <1>2, <1>3, <1>4 DEF Ledger!Pass
<1> QED BY <1>5 DEF Ledger!LedgerNext

(* The chain's own steps: completions earn, lost disputes settle, and a    *)
(* re-mined completion was never passed.                                   *)
LEMMA ChainLedger ==
  ASSUME IInv, UNCHANGED storeVars,
         \/ NewBlock \/ Deregister \/ Pause \/ Unpause \/ SetWindow \/ RegisterWorker
         \/ \E j \in Jobs : CompleteJob(j) \/ Reorg(j) \/ DisputeJob(j) \/ ResolveDispute(j)
  PROVE  [Ledger!LedgerNext]_(Ledger!ledgerVars)
<1>1. /\ head \in Nat /\ cursor \in Nat /\ state \in [Jobs -> JobState] /\ doneAt \in [Jobs -> Nat]
      /\ Genesis \in Nat /\ Confirmations \in Nat /\ ReorgDepth \in Nat /\ ReorgDepth <= Confirmations
  BY HeadAssumption, ReconcilerAssumption, ReorgAssumption
  DEF IInv, TypeOK, ChainTypeOK, StoreTypeOK
<1>2. cursor = 0 \/ cursor + Confirmations <= head
  BY DEF IInv, CursorInv
<1>3. pending' = pending /\ cursor' = cursor
  BY DEF storeVars
<1>4. CASE NewBlock \/ Deregister \/ Pause \/ Unpause \/ SetWindow \/ RegisterWorker
  <2>1. state' = state /\ doneAt' = doneAt
    BY <1>4 DEF NewBlock, Deregister, Pause, Unpause, SetWindow, RegisterWorker
  <2>2. Owed' = Owed /\ Passed' = Passed
    BY <1>3, <2>1 DEF Owed, Passed, Settled
  <2> QED BY <1>3, <2>2 DEF Ledger!ledgerVars
<1>5. ASSUME NEW j \in Jobs, CompleteJob(j)
      PROVE  [Ledger!LedgerNext]_(Ledger!ledgerVars)
  <2>1. /\ state' = [state EXCEPT ![j] = "Completed"]
        /\ doneAt' = [doneAt EXCEPT ![j] = head + 1] /\ state[j] = "Acknowledged"
    BY <1>5 DEF CompleteJob
  <2>2. doneAt[j] = 0
    BY <2>1 DEF IInv, StateInv
  <2>3. Owed' = Owed \union {j}
    BY <1>1, <2>1, <2>2 DEF Owed, Settled
  <2>4. Passed' = Passed /\ j \notin Passed
    BY <1>1, <1>2, <1>3, <2>1, <2>2 DEF Passed
  <2>5. Ledger!Earn
    BY <1>3, <2>3, <2>4 DEF Ledger!Earn
  <2> QED BY <2>5 DEF Ledger!LedgerNext
<1>6. ASSUME NEW j \in Jobs, Reorg(j)
      PROVE  [Ledger!LedgerNext]_(Ledger!ledgerVars)
  <2>1. /\ state' = state /\ state[j] = "Completed" /\ doneAt[j] + ReorgDepth > head
    BY <1>6 DEF Reorg
  <2>2. PICK b \in (Genesis + 1)..(head + 1) :
          b + ReorgDepth > head /\ doneAt' = [doneAt EXCEPT ![j] = b]
    BY <1>6 DEF Reorg
  <2>3. doneAt[j] # 0
    BY <2>1 DEF IInv, StateInv
  <2>4. Owed' = Owed
    BY <1>1, <2>1, <2>3, <2>2 DEF Owed, Settled
  <2>5. Passed' = Passed
    BY <1>1, <1>2, <1>3, <2>1, <2>3, <2>2 DEF Passed
  <2> QED BY <1>3, <2>4, <2>5 DEF Ledger!ledgerVars
<1>7. ASSUME NEW j \in Jobs, DisputeJob(j) \/ ResolveDispute(j)
      PROVE  [Ledger!LedgerNext]_(Ledger!ledgerVars)
  <2>1. PICK v \in {"Disputed", "ResolvedPaid", "ResolvedZero"} :
          /\ state' = [state EXCEPT ![j] = v] /\ state[j] \in {"Completed", "Disputed"}
          /\ head' = head /\ doneAt' = doneAt /\ firstTx' = firstTx
    BY <1>7 DEF DisputeJob, ResolveDispute
  <2>2. Quiet
    BY <1>1, <1>3, <2>1 DEF Quiet, Settled
  <2> QED BY <1>3, <2>2, QuietLedger
<1> QED BY <1>4, <1>5, <1>6, <1>7

(* Every step of the loop is a step of the ledger, or leaves it unchanged, *)
(* and removes only settled jobs unless it removes the whole state file.   *)
LEMMA NextLedger ==
  IInv /\ IInv' /\ [Next]_vars =>
    /\ [Ledger!LedgerNext]_(Ledger!ledgerVars)
    /\ \A j \in pending \ pending' : Settled(j) \/ WipeState
<1> SUFFICES ASSUME IInv, IInv', [Next]_vars
             PROVE  /\ [Ledger!LedgerNext]_(Ledger!ledgerVars)
                    /\ \A j \in pending \ pending' : Settled(j) \/ WipeState
  OBVIOUS
<1>1. TypeOK /\ ChainTypeOK /\ StoreTypeOK /\ late \in SUBSET SUBSET Jobs
  BY DEF IInv, TypeOK, CycleTypeOK
<1>2. NoFeeForgotten' /\ cursor \in Nat /\ cursor' \in Nat
  BY DEF IInv, TypeOK, StoreTypeOK
<1>3. ASSUME UNCHANGED storeVars,
             \/ NewBlock \/ Deregister \/ Pause \/ Unpause \/ SetWindow \/ RegisterWorker
             \/ \E j \in Jobs : CompleteJob(j) \/ Reorg(j) \/ DisputeJob(j) \/ ResolveDispute(j)
      PROVE  /\ [Ledger!LedgerNext]_(Ledger!ledgerVars)
             /\ \A j \in pending \ pending' : Settled(j) \/ WipeState
  BY <1>3, ChainLedger DEF storeVars
<1>4. ASSUME UNCHANGED chainVars, UNCHANGED storeVars
      PROVE  /\ [Ledger!LedgerNext]_(Ledger!ledgerVars)
             /\ \A j \in pending \ pending' : Settled(j) \/ WipeState
  <2>1. Quiet /\ cursor' = cursor /\ pending' = pending
    BY <1>1, <1>4, StoreQuiet DEF storeVars
  <2> QED BY <2>1, QuietLedger
<1>5. CASE ChainStep
  BY <1>3, <1>5 DEF ChainStep
<1>6. CASE MempoolStep
  <2>1. PICK S \in late : LateTx(S)
    BY <1>6 DEF MempoolStep
  <2>2. /\ UNCHANGED storeVars /\ S \in SUBSET Jobs
        /\ (~ReleaseReverts(S) /\ ApplyRelease(S)) \/ UNCHANGED chainVars
    BY <1>1, <2>1 DEF LateTx
  <2>3. Quiet /\ cursor' = cursor /\ pending' = pending
    BY <1>1, <2>2, ReleaseQuiet, StoreQuiet DEF storeVars
  <2> QED BY <2>3, QuietLedger
<1>7. ASSUME NEW j \in Jobs, PipelineComplete(j) \/ MarkEligible(j)
      PROVE  /\ [Ledger!LedgerNext]_(Ledger!ledgerVars)
             /\ \A k \in pending \ pending' : Settled(k) \/ WipeState
  <2>1. CASE PipelineComplete(j)
    BY <1>3, <2>1 DEF PipelineComplete
  <2>2. CASE MarkEligible(j) /\ UNCHANGED storeVars
    BY <1>4, <2>2 DEF MarkEligible
  <2>3. CASE MarkEligible(j) /\ AddEligible(j)
    <3>1. UNCHANGED chainVars
      BY <2>3 DEF MarkEligible
    <3>2. Quiet /\ cursor' = cursor /\ pending' = pending \union {j}
      BY <1>1, <2>3, <3>1, StoreQuiet
    <3> QED BY <3>1, <3>2, QuietLedger
  <2> QED BY <1>7, <2>1, <2>2, <2>3 DEF MarkEligible
<1>8. ASSUME NEW a \in Cyclers, CycleHead(a) \/ CycleStep(a)
      PROVE  /\ [Ledger!LedgerNext]_(Ledger!ledgerVars)
             /\ \A j \in pending \ pending' : Settled(j) \/ WipeState
  <2>1. Quiet /\ cursor' = cursor
    BY <1>1, <1>8, CycleQuiet DEF IInv
  <2>2. pending' = pending \/ (UNCHANGED chainVars /\ pending' \subseteq pending)
    BY <1>1, <1>8, CycleShrinks
  <2> QED BY <2>1, <2>2, QuietLedger DEF Quiet
<1>9. ASSUME NEW r \in Scanners, ScanCursor(r) \/ ScanStep(r)
      PROVE  /\ [Ledger!LedgerNext]_(Ledger!ledgerVars)
             /\ \A j \in pending \ pending' : Settled(j) \/ WipeState
  <2>1. CASE UNCHANGED chainVars /\ UNCHANGED storeVars
    BY <1>4, <2>1
  <2>2. CASE ScanAdd(r)
    <3>1. PICK j \in Jobs : AddEligible(j)
      BY <1>1, <2>2 DEF ScanAdd, TypeOK, ScanTypeOK, ScanRec
    <3>2. UNCHANGED chainVars
      BY <2>2 DEF ScanAdd
    <3>3. Quiet /\ cursor' = cursor /\ pending' = pending \union {j}
      BY <1>1, <3>1, <3>2, StoreQuiet
    <3> QED BY <3>2, <3>3, QuietLedger
  <2>3. CASE ScanAdvance(r)
    <3>1. UNCHANGED chainVars /\ pending' = pending /\ cursor <= cursor'
      BY <2>3 DEF ScanAdvance, SetReconcileBlock
    <3> QED BY <1>2, <3>1, CursorLedger
  <2> QED BY <1>9, <2>1, <2>2, <2>3
      DEF ScanCursor, ScanStep, ScanHead, ScanFilter, ScanEvent, ScanEventError,
          ScanChunkFailed, ScanRefused, ScanAbort
<1>10. ASSUME NEW a \in Tickers, TickerStep(a)
       PROVE  /\ [Ledger!LedgerNext]_(Ledger!ledgerVars)
              /\ \A j \in pending \ pending' : Settled(j) \/ WipeState
  BY <1>8, <1>10 DEF TickerStep, Cyclers
<1>11. ASSUME NEW r \in SidecarScanners, ScannerStep(r)
       PROVE  /\ [Ledger!LedgerNext]_(Ledger!ledgerVars)
              /\ \A j \in pending \ pending' : Settled(j) \/ WipeState
  BY <1>9, <1>11 DEF ScannerStep, SidecarScanners
<1>12. ASSUME NEW a \in OneShots, ReleaseScan(a) \/ ReleaseCycle(a) \/ ReleaseStep(a)
       PROVE  /\ [Ledger!LedgerNext]_(Ledger!ledgerVars)
              /\ \A j \in pending \ pending' : Settled(j) \/ WipeState
  BY <1>8, <1>9, <1>12, SettlementAssumption DEF ReleaseScan, ReleaseCycle, ReleaseStep, Cyclers
<1>13. CASE \/ SidecarCrash \/ (\E a \in OneShots : CliExit(a))
            \/ RegisterCheck \/ RegisterHead \/ RegisterExit
  BY <1>4, <1>13 DEF SidecarCrash, CliExit, RegisterCheck, RegisterHead, RegisterExit
<1>14. CASE RegisterSend
  BY <1>3, <1>4, <1>14 DEF RegisterSend
<1>15. CASE RegisterStore
  <2>1. UNCHANGED chainVars /\ (SeedReconcileBlock(seed.block) \/ UNCHANGED storeVars)
    BY <1>15 DEF RegisterStore
  <2>2. CASE SeedReconcileBlock(seed.block)
    <3>1. pending' = pending /\ cursor <= cursor'
      BY <1>2, <2>2 DEF SeedReconcileBlock
    <3> QED BY <1>2, <2>1, <3>1, CursorLedger
  <2> QED BY <1>4, <2>1, <2>2
<1>16. CASE WipeState
  <2>1. pending' = {} /\ cursor' = 0 /\ UNCHANGED chainVars
    BY <1>16 DEF WipeState, NewSnapshot
  <2>2. Owed' = Owed /\ Passed' = {}
    BY <1>1, <2>1 DEF Owed, Passed, Settled, chainVars, ChainTypeOK
  <2>3. Ledger!Restart
    BY <2>1, <2>2 DEF Ledger!Restart
  <2> QED BY <1>16, <2>1, <2>3 DEF Ledger!LedgerNext
<1>17. CASE UNCHANGED vars
  BY <1>4, <1>17 DEF vars
<1> QED BY <1>5, <1>6, <1>7, <1>10, <1>11, <1>12, <1>13, <1>14, <1>15, <1>16, <1>17 DEF Next

(* Nothing leaves the pending set before the contract has settled it: the  *)
(* drop list, the batch and the fallback's job are still settled when      *)
(* Store.Remove runs, several steps after they were read.                  *)
THEOREM OnlySettledDropped == Spec => DropsOnlySettled
<1>1. IInv /\ IInv' /\ [Next]_vars => [\A j \in pending \ pending' : Settled(j) \/ WipeState]_vars
  BY NextLedger
<1> QED BY <1>1, Invariance, PTL DEF Spec, DropsOnlySettled

(* The loop of scheduler, reconciler, store and CLI implements the ledger. *)
THEOREM Refinement == Spec => ImplementsLedger
<1>1. Init => Ledger!LedgerInit
  <2> SUFFICES ASSUME Init PROVE Ledger!LedgerInit
    OBVIOUS
  <2>1. pending = {} /\ \A j \in Jobs : doneAt[j] = 0
    BY DEF Init, ChainInit, EmptySnapshot
  <2> QED BY <2>1 DEF Ledger!LedgerInit, Owed, Passed
<1>2. IInv /\ IInv' /\ [Next]_vars => [Ledger!LedgerNext]_(Ledger!ledgerVars)
  BY NextLedger
<1> QED BY <1>1, <1>2, Invariance, PTL DEF Spec, ImplementsLedger, Ledger!LedgerSpec

----------------------------------------------------------------------------
(* The gates of a cycle, while one cycler uses the store. *)

(* A cycle past a gate may rely on what it read there: nothing but the     *)
(* cycle itself moves the chain time of the pause or of a job's backoff    *)
(* forward while it runs.                                                  *)
GateSafe(a) ==
  /\ cyc[a].pc \notin {"idle", "gate"} => nextAllowed <= cyc[a].now
  /\ cyc[a].pc \notin {"idle", "gate", "collect"} =>
       \A j \in cyc[a].todo : backoffUntil[j] <= cyc[a].now
  /\ cyc[a].pc \in {"partition", "send", "await"} =>
       \A j \in cyc[a].batch : backoffUntil[j] <= cyc[a].now
  /\ cyc[a].pc \in {"idle", "gate", "collect"} => cyc[a].batch = {}

GateInv == \A a \in Cyclers : GateSafe(a)

(* The step closes no gate. *)
Eases ==
  /\ nextAllowed' <= nextAllowed
  /\ \A j \in Jobs : backoffUntil'[j] <= backoffUntil[j]

(* Only RecordFailure and SetNextAllowedAttempt close a gate: an entry     *)
(* that is added or removed has no backoff.                                *)
LEMMA StoreEases ==
  ASSUME StoreTypeOK
  PROVE  /\ UNCHANGED storeVars => Eases
         /\ \A j \in Jobs : AddEligible(j) => Eases
         /\ \A S \in SUBSET Jobs : Remove(S) => Eases
         /\ \A b \in Nat : SetReconcileBlock(b) => Eases
         /\ \A b \in Nat : SeedReconcileBlock(b) => Eases
         /\ \A t \in Nat : SetLastReleaseTs(t) => Eases
         /\ NewSnapshot => Eases
<1> USE DEF StoreTypeOK, Eases
<1>1. UNCHANGED storeVars => Eases
  BY DEF storeVars
<1>2. \A j \in Jobs : AddEligible(j) => Eases
  BY DEF AddEligible, storeVars
<1>3. \A S \in SUBSET Jobs : Remove(S) => Eases
  BY DEF Remove
<1>4. \A b \in Nat : SetReconcileBlock(b) => Eases
  BY DEF SetReconcileBlock
<1>5. \A b \in Nat : SeedReconcileBlock(b) => Eases
  BY DEF SeedReconcileBlock
<1>6. \A t \in Nat : SetLastReleaseTs(t) => Eases
  BY DEF SetLastReleaseTs
<1>7. NewSnapshot => Eases
  BY DEF NewSnapshot
<1> QED BY <1>1, <1>2, <1>3, <1>4, <1>5, <1>6, <1>7

(* A cycle that stands still, or is reset, stays past its gates.           *)
LEMMA EasedSafe ==
  ASSUME TypeOK, Eases, NEW a \in Cyclers, GateSafe(a), StoreTypeOK',
         cyc'[a] = cyc[a] \/ cyc'[a] = IdleCycle
  PROVE  GateSafe(a)'
<1>1. CASE cyc'[a] = IdleCycle
  BY <1>1 DEF GateSafe, IdleCycle
<1>2. CASE cyc'[a] = cyc[a]
  <2>1. /\ cyc[a].now \in Nat /\ cyc[a].todo \in SUBSET Jobs /\ cyc[a].batch \in SUBSET Jobs
        /\ nextAllowed \in Nat /\ nextAllowed' \in Nat
        /\ \A j \in Jobs : backoffUntil[j] \in Nat /\ backoffUntil'[j] \in Nat
    BY DEF TypeOK, StoreTypeOK, CycleTypeOK, CycleRec
  <2>2. nextAllowed <= cyc[a].now => nextAllowed' <= cyc[a].now
    BY <2>1 DEF Eases
  <2>3. \A j \in Jobs : backoffUntil[j] <= cyc[a].now => backoffUntil'[j] <= cyc[a].now
    BY <2>1 DEF Eases
  <2> QED BY <1>2, <2>1, <2>2, <2>3, Zenon DEF GateSafe
<1> QED BY <1>1, <1>2

(* A step of the cycle itself: the gate and the filter of                  *)
(* collectCandidates are passed with the time of the cycle's own head, and *)
(* a gate the cycle closes is one it does not pass again: the pause ends   *)
(* the cycle, and a job whose failure is recorded leaves the fallback.     *)
LEMMA CycleGates ==
  ASSUME TypeOK, StoreTypeOK', NEW a \in Cyclers, GateSafe(a), CycleHead(a) \/ CycleStep(a)
  PROVE  GateSafe(a)'
<1> DEFINE c == cyc[a]
           d == cyc'[a]
           Early == {"idle", "gate", "collect"}
<1>1. /\ c \in CycleRec /\ cyc \in [Cyclers -> CycleRec]
      /\ c.now \in Nat /\ c.todo \in SUBSET Jobs /\ c.batch \in SUBSET Jobs
      /\ StoreTypeOK
  BY DEF TypeOK, CycleTypeOK, CycleRec
<1>2. /\ nextAllowed \in Nat /\ nextAllowed' \in Nat /\ head \in Nat
      /\ \A j \in Jobs : backoffUntil[j] \in Nat /\ backoffUntil'[j] \in Nat
  BY DEF TypeOK, StoreTypeOK, ChainTypeOK
<1>3. ASSUME NEW rec, CycleBecomes(a, rec)
      PROVE  d = rec
  BY <1>1, <1>3 DEF CycleBecomes
<1>4. ASSUME NEW pc, Goto(a, pc)
      PROVE  d = [c EXCEPT !.pc = pc]
  BY <1>1, <1>4 DEF Goto
<1>5. Finish(a) => GateSafe(a)'
  <2> SUFFICES ASSUME Finish(a) PROVE GateSafe(a)'
    OBVIOUS
  <2>1. PICK w : d = [IdleCycle EXCEPT !.cache = w]
    BY <1>1 DEF Finish, CycleBecomes
  <2>2. d.pc = "idle" /\ d.batch = {}
    BY <2>1 DEF IdleCycle
  <2> QED BY <2>2 DEF GateSafe
<1>6. ASSUME Eases, d.now = c.now, c.pc \notin Early, d.pc \notin Early,
             d.todo \subseteq c.todo \/ (c.pc \in {"send", "await"} /\ d.todo = c.batch),
             d.pc \in {"partition", "send", "await"} =>
               /\ c.pc \in {"partition", "send", "await"}
               /\ d.batch \subseteq c.batch \union c.todo
      PROVE  GateSafe(a)'
  <2>1. nextAllowed' <= c.now
    BY <1>1, <1>2, <1>6 DEF Eases, GateSafe
  <2>2. \A j \in c.todo : backoffUntil'[j] <= c.now
    BY <1>1, <1>2, <1>6 DEF Eases, GateSafe
  <2>3. c.pc \in {"partition", "send", "await"} => \A j \in c.batch : backoffUntil'[j] <= c.now
    BY <1>1, <1>2, <1>6 DEF Eases, GateSafe
  <2>4. \A j \in d.todo : backoffUntil'[j] <= d.now
    BY <1>6, <2>2, <2>3
  <2>5. d.pc \in {"partition", "send", "await"} => \A j \in d.batch : backoffUntil'[j] <= d.now
    BY <1>6, <2>2, <2>3
  <2> QED BY <1>6, <2>1, <2>4, <2>5 DEF GateSafe
<1>7. UNCHANGED storeVars => Eases
  BY <1>1, StoreEases
<1>8. ASSUME NEW e, d = ReleaseFailed(a, e) \/ (\E x : d = [ReleaseFailed(a, e) EXCEPT !.expired = x]),
             c.pc \in {"send", "await", "fsend", "fawait"}, Eases
      PROVE  GateSafe(a)'
  <2>1. /\ d.now = c.now /\ d.pc \in {"fallback", "ffail"}
        /\ d.todo = c.todo \/ (c.pc \in {"send", "await"} /\ d.todo = c.batch)
    BY <1>1, <1>8 DEF ReleaseFailed, CycleRec
  <2> QED BY <1>6, <1>8, <2>1
<1>9. ASSUME NEW pc \in {"await", "removeBatch", "fawait", "fremove", "attempt", "pause"},
             Goto(a, pc), Eases, c.pc \notin Early, pc = "await" => c.pc = "send"
      PROVE  GateSafe(a)'
  <2>1. d = [c EXCEPT !.pc = pc]
    BY <1>4, <1>9
  <2>2. d.pc = pc /\ d.now = c.now /\ d.todo = c.todo /\ d.batch = c.batch
    BY <1>1, <2>1 DEF CycleRec
  <2> QED BY <1>6, <1>9, <2>2
<1>10. CASE CycleHead(a)
  <2>1. CycleBecomes(a, [c EXCEPT !.pc = "gate", !.now = head]) /\ c.pc = "idle"
    BY <1>10 DEF CycleHead, At
  <2>2. d = [c EXCEPT !.pc = "gate", !.now = head]
    BY <1>3, <2>1
  <2>3. d.pc = "gate" /\ d.batch = c.batch
    BY <1>1, <2>2 DEF CycleRec
  <2> QED BY <2>1, <2>3 DEF GateSafe
<1>11. CASE CycleGate(a)
  <2>1. c.pc = "gate" /\ UNCHANGED storeVars
    BY <1>11 DEF CycleGate, At
  <2>2. CASE c.now < nextAllowed
    BY <1>5, <1>11, <2>2 DEF CycleGate
  <2>3. CASE ~(c.now < nextAllowed)
    <3>1. d = [c EXCEPT !.pc = "collect"]
      BY <1>4, <1>11, <2>3 DEF CycleGate
    <3>2. d.pc = "collect" /\ d.batch = c.batch /\ d.now = c.now
      BY <1>1, <3>1 DEF CycleRec
    <3>3. nextAllowed' <= d.now
      BY <1>1, <1>2, <2>1, <2>3, <3>2 DEF storeVars
    <3> QED BY <2>1, <3>2, <3>3 DEF GateSafe
  <2> QED BY <2>2, <2>3
<1>12. CASE CycleAbort(a)
  BY <1>5, <1>12 DEF CycleAbort
<1>13. CASE CycleCollect(a)
  <2>1. c.pc = "collect" /\ UNCHANGED storeVars
    BY <1>13 DEF CycleCollect, At
  <2>2. PICK w \in {window} \union ({c.cache} \ {0}) :
          CycleBecomes(a,
            IF ~Fires(a) THEN [IdleCycle EXCEPT !.cache = w]
            ELSE [c EXCEPT
                   !.pc = IF CollectCandidates(c.now) = {} THEN "attempt" ELSE "partition",
                   !.win = w, !.cache = w, !.todo = CollectCandidates(c.now)])
    BY <1>13 DEF CycleCollect
  <2>3. CASE ~Fires(a)
    <3>1. d = [IdleCycle EXCEPT !.cache = w]
      BY <1>3, <2>2, <2>3
    <3>2. d.pc = "idle" /\ d.batch = {}
      BY <3>1 DEF IdleCycle
    <3> QED BY <3>2 DEF GateSafe
  <2>4. CASE Fires(a)
    <3>1. d = [c EXCEPT
                 !.pc = IF CollectCandidates(c.now) = {} THEN "attempt" ELSE "partition",
                 !.win = w, !.cache = w, !.todo = CollectCandidates(c.now)]
      BY <1>3, <2>2, <2>4
    <3>2. /\ d.pc \in {"attempt", "partition"} /\ d.now = c.now /\ d.batch = c.batch
          /\ d.todo = CollectCandidates(c.now)
      BY <1>1, <3>1 DEF CycleRec
    <3>3. \A j \in CollectCandidates(c.now) : backoffUntil[j] <= c.now
      BY DEF CollectCandidates, Ready
    <3>4. nextAllowed <= c.now /\ c.batch = {}
      BY <2>1 DEF GateSafe
    <3>5. nextAllowed' = nextAllowed /\ backoffUntil' = backoffUntil
      BY <2>1 DEF storeVars
    <3> QED BY <3>2, <3>3, <3>4, <3>5 DEF GateSafe
  <2> QED BY <2>3, <2>4
<1>14. CASE PartitionDefer(a)
  <2>1. c.pc = "partition" /\ UNCHANGED storeVars
    BY <1>14 DEF PartitionDefer, At
  <2>2. PICK j \in Jobs : cyc' = [cyc EXCEPT ![a].todo = @ \ {j}]
    BY <1>14 DEF PartitionDefer
  <2>3. d.pc = c.pc /\ d.now = c.now /\ d.todo = c.todo \ {j} /\ d.batch = c.batch
    BY <1>1, <2>2 DEF CycleRec
  <2> QED BY <1>6, <1>7, <2>1, <2>3
<1>15. CASE PartitionJob(a)
  <2>1. c.pc = "partition" /\ UNCHANGED storeVars
    BY <1>15 DEF PartitionJob, At
  <2>2. PICK j \in Jobs :
          /\ IsFirst(j, c.todo)
          /\ CycleBecomes(a, [c EXCEPT
               !.todo = @ \ {j},
               !.batch = IF Eligible(a, j) THEN @ \union {j} ELSE @,
               !.drop = IF Settled(j) THEN @ \union {j} ELSE @])
    BY <1>15 DEF PartitionJob
  <2>3. d = [c EXCEPT !.todo = @ \ {j},
                      !.batch = IF Eligible(a, j) THEN @ \union {j} ELSE @,
                      !.drop = IF Settled(j) THEN @ \union {j} ELSE @]
    BY <1>3, <2>2
  <2>4. /\ d.pc = c.pc /\ d.now = c.now /\ d.todo = c.todo \ {j}
        /\ d.batch \subseteq c.batch \union {j}
    BY <1>1, <2>3 DEF CycleRec
  <2> QED BY <1>6, <1>7, <2>1, <2>2, <2>4 DEF IsFirst
<1>16. CASE RemoveDropped(a)
  <2>1. c.pc = "partition" /\ (Remove(c.drop) \/ UNCHANGED storeVars)
    BY <1>16 DEF RemoveDropped, At
  <2>2. c.drop \in SUBSET Jobs
    BY <1>1 DEF CycleRec
  <2>3. d = [c EXCEPT !.pc = IF c.batch = {} THEN "attempt" ELSE "send", !.drop = {}]
    BY <1>3, <1>16 DEF RemoveDropped
  <2>4. d.pc \in {"attempt", "send"} /\ d.now = c.now /\ d.todo = c.todo /\ d.batch = c.batch
    BY <1>1, <2>3 DEF CycleRec
  <2>5. Eases
    BY <1>1, <2>1, <2>2, StoreEases
  <2> QED BY <1>6, <2>1, <2>4, <2>5
<1>17. CASE EstimateRevert(a)
  <2>1. c.pc \in {"send", "fsend"} /\ UNCHANGED storeVars
    BY <1>17 DEF EstimateRevert
  <2>2. d = ReleaseFailed(a, IF paused THEN "estimatePaused" ELSE "revert")
    BY <1>3, <1>17 DEF EstimateRevert
  <2> QED BY <1>7, <1>8, <2>1, <2>2
<1>18. CASE Broadcast(a)
  <2>1. c.pc \in {"send", "fsend"} /\ UNCHANGED storeVars
    BY <1>18 DEF Broadcast
  <2>2. Goto(a, IF c.pc = "send" THEN "await" ELSE "fawait")
    BY <1>18 DEF Broadcast, At
  <2> QED BY <1>7, <1>9, <2>1, <2>2
<1>19. CASE SendError(a)
  <2>1. c.pc \in {"send", "fsend"} /\ UNCHANGED storeVars
    BY <1>19 DEF SendError
  <2>2. PICK x \in BOOLEAN : CycleBecomes(a, [ReleaseFailed(a, "tx") EXCEPT !.expired = x])
    BY <1>19 DEF SendError
  <2>3. d = [ReleaseFailed(a, "tx") EXCEPT !.expired = x]
    BY <1>3, <2>2
  <2> QED BY <1>7, <1>8, <2>1, <2>3
<1>20. CASE TxTimeout(a)
  <2>1. c.pc \in {"await", "fawait"} /\ UNCHANGED storeVars
    BY <1>20 DEF TxTimeout
  <2>2. d = [ReleaseFailed(a, "tx") EXCEPT !.expired = TRUE]
    BY <1>3, <1>20 DEF TxTimeout
  <2> QED BY <1>7, <1>8, <2>1, <2>2
<1>21. CASE TxSucceeds(a)
  <2>1. c.pc \in {"await", "fawait"} /\ UNCHANGED storeVars
    BY <1>21 DEF TxSucceeds
  <2>2. Goto(a, IF c.pc = "await" THEN "removeBatch" ELSE "fremove")
    BY <1>21 DEF TxSucceeds, At
  <2> QED BY <1>7, <1>9, <2>1, <2>2
<1>22. CASE TxReverts(a)
  <2>1. c.pc \in {"await", "fawait"} /\ UNCHANGED storeVars
    BY <1>22 DEF TxReverts
  <2>2. CASE Goto(a, "pause")
    BY <1>7, <1>9, <2>1, <2>2
  <2>3. CASE CycleBecomes(a, ReleaseFailed(a, "revert"))
    <3>1. d = ReleaseFailed(a, "revert")
      BY <1>3, <2>3
    <3> QED BY <1>7, <1>8, <2>1, <3>1
  <2> QED BY <1>22, <2>2, <2>3 DEF TxReverts
<1>23. CASE RemoveReleased(a)
  <2>1. c.pc = "removeBatch" /\ (Remove(c.batch) \/ UNCHANGED storeVars) /\ Goto(a, "attempt")
    BY <1>23 DEF RemoveReleased, At
  <2>2. Eases
    BY <1>1, <2>1, StoreEases
  <2> QED BY <1>9, <2>1, <2>2
<1>24. CASE RecordAttempt(a) \/ ApplyPauseBackoff(a)
  BY <1>5, <1>24 DEF RecordAttempt, ApplyPauseBackoff
<1>25. CASE FallbackReadError(a)
  <2>1. c.pc = "fallback" /\ UNCHANGED storeVars
    BY <1>25 DEF FallbackReadError, At
  <2>2. d = [c EXCEPT !.pc = "ffail", !.err = "read"]
    BY <1>3, <1>25 DEF FallbackReadError
  <2>3. d.pc = "ffail" /\ d.now = c.now /\ d.todo = c.todo
    BY <1>1, <2>2 DEF CycleRec
  <2> QED BY <1>6, <1>7, <2>1, <2>3
<1>26. CASE FallbackJob(a)
  <2>1. c.pc = "fallback" /\ UNCHANGED storeVars
    BY <1>26 DEF FallbackJob, At
  <2>2. PICK j \in Jobs :
          CycleBecomes(a,
            IF Eligible(a, j) THEN [c EXCEPT !.pc = "fsend"]
            ELSE IF state[j] \in {"Released", "TimedOut"} THEN [c EXCEPT !.pc = "fremove"]
            ELSE [c EXCEPT !.todo = @ \ {j}])
    BY <1>26 DEF FallbackJob
  <2>3. \/ d = [c EXCEPT !.pc = "fsend"]
        \/ d = [c EXCEPT !.pc = "fremove"]
        \/ d = [c EXCEPT !.todo = @ \ {j}]
    BY <1>3, <2>2
  <2>4. d.pc \in {"fsend", "fremove", "fallback"} /\ d.now = c.now /\ d.todo \subseteq c.todo
    BY <1>1, <2>1, <2>3 DEF CycleRec
  <2> QED BY <1>6, <1>7, <2>1, <2>4
<1>27. CASE FallbackRemove(a)
  <2>1. c.pc = "fremove"
    BY <1>27 DEF FallbackRemove, At
  <2>2. PICK j \in Jobs :
          /\ Remove({j}) \/ UNCHANGED storeVars
          /\ CycleBecomes(a, [c EXCEPT !.pc = "fallback", !.todo = @ \ {j}])
    BY <1>27 DEF FallbackRemove
  <2>3. d = [c EXCEPT !.pc = "fallback", !.todo = @ \ {j}]
    BY <1>3, <2>2
  <2>4. d.pc = "fallback" /\ d.now = c.now /\ d.todo = c.todo \ {j}
    BY <1>1, <2>3 DEF CycleRec
  <2>5. Eases
    <3>1. {j} \in SUBSET Jobs
      OBVIOUS
    <3> QED BY <1>1, <2>2, <3>1, StoreEases
  <2> QED BY <1>6, <2>1, <2>4, <2>5
<1>28. CASE ReadFailCount(a)
  <2>1. c.pc = "ffail" /\ UNCHANGED storeVars
    BY <1>28 DEF ReadFailCount, At
  <2>2. PICK j \in Jobs :
          CycleBecomes(a, [c EXCEPT !.pc = "frecord",
                                    !.fails = IF j \in pending THEN failCount[j] ELSE 0])
    BY <1>28 DEF ReadFailCount
  <2>3. d = [c EXCEPT !.pc = "frecord", !.fails = IF j \in pending THEN failCount[j] ELSE 0]
    BY <1>3, <2>2
  <2>4. d.pc = "frecord" /\ d.now = c.now /\ d.todo = c.todo
    BY <1>1, <2>3 DEF CycleRec
  <2> QED BY <1>6, <1>7, <2>1, <2>4
<1>29. CASE RecordPerJobFailure(a)
  <2>1. c.pc = "frecord"
    BY <1>29 DEF RecordPerJobFailure, At
  <2>2. PICK j \in Jobs :
          /\ \/ RecordFailure(j, c.now + ComputeBackoff(c.fails + 1))
             \/ UNCHANGED storeVars
          /\ CycleBecomes(a, [c EXCEPT !.pc = "fallback", !.todo = @ \ {j},
                                       !.fails = 0, !.err = "nil"])
    BY <1>29 DEF RecordPerJobFailure
  <2>3. d = [c EXCEPT !.pc = "fallback", !.todo = @ \ {j}, !.fails = 0, !.err = "nil"]
    BY <1>3, <2>2
  <2>4. d.pc = "fallback" /\ d.now = c.now /\ d.todo = c.todo \ {j}
    BY <1>1, <2>3 DEF CycleRec
  <2>5. nextAllowed' = nextAllowed /\ \A k \in Jobs : k # j => backoffUntil'[k] = backoffUntil[k]
    BY <1>1, <2>2 DEF RecordFailure, storeVars, StoreTypeOK
  <2>6. nextAllowed <= c.now /\ \A k \in c.todo : backoffUntil[k] <= c.now
    BY <2>1 DEF GateSafe
  <2>7. nextAllowed' <= d.now /\ \A k \in d.todo : backoffUntil'[k] <= d.now
    BY <1>1, <2>4, <2>5, <2>6
  <2> QED BY <2>4, <2>7 DEF GateSafe
<1> QED BY <1>10, <1>11, <1>12, <1>13, <1>14, <1>15, <1>16, <1>17, <1>18, <1>19, <1>20, <1>21,
           <1>22, <1>23, <1>24, <1>25, <1>26, <1>27, <1>28, <1>29 DEF CycleStep

(* Who else writes the store, the tracker, a scanner, `register` and the   *)
(* operator's removal of the file, eases it.                               *)
LEMMA OthersEase ==
  ASSUME IInv, [Next]_vars,
         ~\E a \in Cyclers : CycleHead(a) \/ CycleStep(a)
  PROVE  Eases /\ \A a \in Cyclers : cyc'[a] = cyc[a] \/ cyc'[a] = IdleCycle
<1>1. /\ StoreTypeOK /\ cyc \in [Cyclers -> CycleRec] /\ scan \in [Scanners -> ScanRec]
      /\ seed \in SeedRec
  BY DEF IInv, TypeOK, CycleTypeOK, ScanTypeOK
<1>2. UNCHANGED storeVars => Eases
  BY <1>1, StoreEases
<1>3. CASE ChainStep
  BY <1>2, <1>3 DEF ChainStep, cycleVars
<1>4. CASE MempoolStep
  BY <1>2, <1>4 DEF MempoolStep, LateTx
<1>5. ASSUME NEW j \in Jobs, PipelineComplete(j) \/ MarkEligible(j)
      PROVE  Eases /\ cyc' = cyc
  BY <1>1, <1>2, <1>5, StoreEases DEF PipelineComplete, MarkEligible, cycleVars
<1>6. ASSUME NEW r \in Scanners, ScanCursor(r) \/ ScanStep(r)
      PROVE  Eases
  <2>1. CASE ScanAdd(r)
    <3>1. PICK j \in scan[r].job : AddEligible(j)
      BY <2>1 DEF ScanAdd
    <3>2. j \in Jobs
      BY <1>1, <3>1 DEF ScanRec
    <3> QED BY <1>1, <3>1, <3>2, StoreEases
  <2>2. CASE ScanAdvance(r)
    <3>1. SetReconcileBlock(scan[r].hi) /\ scan[r].hi \in Nat
      BY <1>1, <2>2 DEF ScanAdvance, ScanRec
    <3> QED BY <1>1, <3>1, StoreEases
  <2> QED BY <1>2, <1>6, <2>1, <2>2
      DEF ScanCursor, ScanStep, ScanHead, ScanFilter, ScanEvent, ScanEventError,
          ScanChunkFailed, ScanRefused, ScanAbort
<1>7. ASSUME NEW a \in Tickers, TickerStep(a)
      PROVE  FALSE
  BY <1>7 DEF TickerStep, Cyclers
<1>8. ASSUME NEW r \in SidecarScanners, ScannerStep(r)
      PROVE  Eases /\ cyc' = cyc
  BY <1>6, <1>8 DEF ScannerStep, SidecarScanners, cycleVars
<1>9. CASE SidecarCrash
  <2>1. \A a \in Cyclers : cyc'[a] = cyc[a] \/ cyc'[a] = IdleCycle
    BY <1>9 DEF SidecarCrash
  <2> QED BY <1>2, <1>9, <2>1 DEF SidecarCrash
<1>10. ASSUME NEW a \in OneShots, ReleaseScan(a)
       PROVE  Eases /\ cyc' = cyc
  BY <1>6, <1>10, SettlementAssumption DEF ReleaseScan, cycleVars
<1>11. ASSUME NEW a \in OneShots, ReleaseCycle(a) \/ ReleaseStep(a)
       PROVE  FALSE
  BY <1>11 DEF ReleaseCycle, ReleaseStep, Cyclers
<1>12. ASSUME NEW a \in OneShots, CliExit(a)
       PROVE  Eases /\ \A b \in Cyclers : cyc'[b] = cyc[b] \/ cyc'[b] = IdleCycle
  <2>1. cyc' = [cyc EXCEPT ![a] = IdleCycle] /\ UNCHANGED storeVars
    BY <1>12 DEF CliExit
  <2> QED BY <1>1, <1>2, <2>1
<1>13. CASE RegisterCheck \/ RegisterHead \/ RegisterSend \/ RegisterExit
  BY <1>2, <1>13 DEF RegisterCheck, RegisterHead, RegisterSend, RegisterExit, cycleVars
<1>14. CASE RegisterStore
  <2>1. seed.block \in Nat
    BY <1>1 DEF SeedRec
  <2> QED BY <1>1, <1>2, <1>14, <2>1, StoreEases DEF RegisterStore, cycleVars
<1>15. CASE WipeState
  BY <1>1, <1>15, StoreEases DEF WipeState, cycleVars
<1>16. CASE UNCHANGED vars
  BY <1>2, <1>16 DEF vars, cycleVars
<1> QED BY <1>3, <1>4, <1>5, <1>7, <1>8, <1>9, <1>10, <1>11, <1>12, <1>13, <1>14, <1>15, <1>16
    DEF Next

(* The invariant of the gates is inductive when no second cycler writes    *)
(* the store between a cycle's gate and its transactions.                  *)
LEMMA GatesHold ==
  ASSUME \A a, b \in Cyclers : a = b
  PROVE  Spec => []GateInv
<1>1. Init => GateInv
  BY DEF Init, CycleInit, IdleCycle, GateInv, GateSafe
<1>2. IInv /\ IInv' /\ GateInv /\ [Next]_vars => GateInv'
  <2> SUFFICES ASSUME IInv, IInv', GateInv, [Next]_vars, NEW b \in Cyclers
               PROVE  GateSafe(b)'
    BY DEF GateInv
  <2>1. TypeOK /\ StoreTypeOK' /\ GateSafe(b)
    BY DEF IInv, TypeOK, GateInv
  <2>2. CASE \E a \in Cyclers : CycleHead(a) \/ CycleStep(a)
    <3>1. CycleHead(b) \/ CycleStep(b)
      BY <2>2
    <3> QED BY <2>1, <3>1, CycleGates
  <2>3. CASE ~\E a \in Cyclers : CycleHead(a) \/ CycleStep(a)
    BY <2>1, <2>3, OthersEase, EasedSafe
  <2> QED BY <2>2, <2>3
<1> QED BY <1>1, <1>2, Invariance, PTL DEF Spec

(* A paused contract is left alone: while one cycler uses the store, a     *)
(* cycle that gets as far as building a transaction runs at a chain time   *)
(* not before the one applyPauseBackoff stored, whatever trigger fired it  *)
(* and whether the process restarted in between.                           *)
THEOREM PauseIsRespected ==
  ASSUME \A a, b \in Cyclers : a = b
  PROVE  Spec => []PauseGateHonoured
<1>1. GateInv => PauseGateHonoured
  BY DEF GateInv, GateSafe, PauseGateHonoured
<1> QED BY <1>1, GatesHold, PTL

(* Under the same condition a job whose release failed is in no            *)
(* transaction before the time recordPerJobFailure stored for it, neither  *)
(* in a batch nor in the fallback, although the store is read once, when   *)
(* the candidates are collected.                                           *)
THEOREM BackoffIsRespected ==
  ASSUME \A a, b \in Cyclers : a = b
  PROVE  Spec => []JobBackoffHonoured
<1>1. GateInv => JobBackoffHonoured
  BY DEF GateInv, GateSafe, JobBackoffHonoured, TxJobs
<1> QED BY <1>1, GatesHold, PTL
==============================================================================
