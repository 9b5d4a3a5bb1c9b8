----------------------------- MODULE Reconciler -----------------------------
(***************************************************************************)
(* release.Reconciler: passes over the JobCompleted events of the worker,  *)
(* chunk by chunk, that add the jobs the tracker missed to the pending set *)
(* and then advance the reconcile cursor.  A scanner is a thread that runs *)
(* passes: the sidecar (once at startup, then periodically) and the worker *)
(* CLI.  Its local variables are scan[r].                                  *)
(***************************************************************************)
EXTENDS ReleaseStore

CONSTANTS
  Scanners,            \* threads that run Reconciler.Run
  StartBlock,          \* RELEASE_RECONCILE_START_BLOCK, 0 for none
  ChunkSize, Confirmations

(* The operator sets StartBlock to the deployment block or an earlier one, *)
(* and Confirmations to the depth at which blocks are final.               *)
ASSUME ReconcilerAssumption ==
  /\ StartBlock \in Nat
  /\ StartBlock <= Genesis + 1
  /\ ChunkSize \in Nat \ {0}
  /\ Confirmations \in Nat
  /\ ReorgDepth <= Confirmations

VARIABLE scan          \* local state of each scanner

ScanPC == {"idle", "head", "filter", "events", "add", "done"}

ScanRec == [pc : ScanPC,
            lo : Nat, hi : Nat,          \* the chunk
            safe : Nat,                  \* safeHead of this pass
            evs : SUBSET Jobs,           \* events of the chunk still to handle
            job : SUBSET Jobs,           \* the event being added, if any
            failed : BOOLEAN]            \* firstStateErr # nil

IdleScan == [pc |-> "idle", lo |-> 0, hi |-> 0, safe |-> 0,
             evs |-> {}, job |-> {}, failed |-> FALSE]

ScanTypeOK == scan \in [Scanners -> ScanRec]

ScanInit == scan = [r \in Scanners |-> IdleScan]

ScanBecomes(r, rec) == scan' = [scan EXCEPT ![r] = rec]

ScanEnds(r) == ScanBecomes(r, IdleScan)
ScanSucceeds(r) == ScanBecomes(r, [IdleScan EXCEPT !.pc = "done"])

----------------------------------------------------------------------------
ScanCursor(r) ==
  /\ scan[r].pc \in {"idle", "done"}
  /\ ScanBecomes(r, [IdleScan EXCEPT !.pc = "head",
       !.lo = IF cursor = 0 /\ StartBlock > 0 THEN StartBlock ELSE cursor + 1])
  /\ UNCHANGED <<chainVars, storeVars>>

(* Faulty variants of ScanHead: without the underflow guard, and reading   *)
(* up to the unconfirmed head.                                             *)
ScanHeadUnguarded(r) ==
  /\ scan[r].pc = "head"
  /\ ScanBecomes(r, [scan[r] EXCEPT !.pc = "filter", !.safe = head - Confirmations])
  /\ UNCHANGED <<chainVars, storeVars>>

ScanHeadUnconfirmed(r) ==
  /\ scan[r].pc = "head"
  /\ IF scan[r].lo > head
       THEN ScanSucceeds(r)
       ELSE ScanBecomes(r, [scan[r] EXCEPT !.pc = "filter", !.safe = head])
  /\ UNCHANGED <<chainVars, storeVars>>

(* The pass ends at once below the confirmation depth or when the cursor   *)
(* has caught up with the safe head.                                       *)
ScanHead(r) ==
  /\ scan[r].pc = "head"
  /\ IF head < Confirmations \/ scan[r].lo > head - Confirmations
       THEN ScanSucceeds(r)
       ELSE ScanBecomes(r, [scan[r] EXCEPT !.pc = "filter", !.safe = head - Confirmations])
  /\ UNCHANGED <<chainVars, storeVars>>

(* One FilterJobCompleted call for the chunk lo..hi. *)
ScanFilter(r) ==
  /\ scan[r].pc = "filter"
  /\ LET last == scan[r].lo + ChunkSize - 1
         hi   == IF last > scan[r].safe THEN scan[r].safe ELSE last
     IN ScanBecomes(r, [scan[r] EXCEPT !.pc = "events", !.hi = hi,
                                   !.evs = {j \in Jobs : doneAt[j] \in scan[r].lo..hi}])
  /\ UNCHANGED <<chainVars, storeVars>>

(* GetJobState for one event: settled jobs are skipped, the others added. *)
ScanEvent(r) ==
  /\ scan[r].pc = "events"
  /\ \E j \in scan[r].evs :
       ScanBecomes(r, [scan[r] EXCEPT !.evs = @ \ {j},
                                !.pc = IF Settled(j) THEN "events" ELSE "add",
                                !.job = IF Settled(j) THEN {} ELSE {j}])
  /\ UNCHANGED <<chainVars, storeVars>>

(* Faulty variant: the failed read is logged and not remembered. *)
ScanEventErrorIgnored(r) ==
  /\ scan[r].pc = "events"
  /\ Faulty
  /\ \E j \in scan[r].evs : ScanBecomes(r, [scan[r] EXCEPT !.evs = @ \ {j}])
  /\ UNCHANGED <<chainVars, storeVars>>

(* A failed GetJobState is remembered; the other events are still handled. *)
ScanEventError(r) ==
  /\ scan[r].pc = "events"
  /\ Faulty
  /\ \E j \in scan[r].evs :
       ScanBecomes(r, [scan[r] EXCEPT !.evs = @ \ {j}, !.failed = TRUE])
  /\ UNCHANGED <<chainVars, storeVars>>

ScanAdd(r) ==
  /\ scan[r].pc = "add"
  /\ \E j \in scan[r].job : AddEligible(j)
  /\ ScanBecomes(r, [scan[r] EXCEPT !.pc = "events", !.job = {}])
  /\ UNCHANGED chainVars

(* All events handled, one read failed: a later pass retries the chunk. *)
ScanChunkFailed(r) ==
  /\ scan[r].pc = "events"
  /\ scan[r].evs = {}
  /\ scan[r].failed
  /\ ScanEnds(r)
  /\ UNCHANGED <<chainVars, storeVars>>

(* All events handled: the cursor moves to the end of the chunk. *)
ScanAdvance(r) ==
  /\ scan[r].pc = "events"
  /\ scan[r].evs = {}
  /\ ~scan[r].failed
  /\ SetReconcileBlock(scan[r].hi)
  /\ IF scan[r].hi = scan[r].safe THEN ScanSucceeds(r)
     ELSE ScanBecomes(r, [scan[r] EXCEPT !.pc = "filter", !.lo = scan[r].hi + 1, !.hi = 0])
  /\ UNCHANGED chainVars

(* Another pass has moved the cursor further: the store refuses. *)
ScanRefused(r) ==
  /\ scan[r].pc = "events"
  /\ scan[r].evs = {}
  /\ ~scan[r].failed
  /\ scan[r].hi < cursor
  /\ ScanEnds(r)
  /\ UNCHANGED <<chainVars, storeVars>>

(* Any failing chain or store call ends the pass with an error. *)
ScanAbort(r) ==
  /\ Faulty
  /\ \/ scan[r].pc \in {"head", "filter", "add"}
     \/ scan[r].pc = "events" /\ scan[r].evs = {}
  /\ ScanEnds(r)
  /\ UNCHANGED <<chainVars, storeVars>>

ScanStep(r) ==
  \/ ScanHead(r) \/ ScanFilter(r) \/ ScanEvent(r) \/ ScanEventError(r)
  \/ ScanAdd(r) \/ ScanChunkFailed(r) \/ ScanAdvance(r) \/ ScanRefused(r) \/ ScanAbort(r)
=============================================================================
