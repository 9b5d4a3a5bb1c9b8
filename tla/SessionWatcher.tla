--------------------------- MODULE SessionWatcher ---------------------------
(***************************************************************************)
(* SessionWatcher.RunOnce: look behind the cursor once per process, scan   *)
(* the new blocks for requests, then evaluate every pending request and    *)
(* claim the ones this worker is eligible for.  The pending set is in      *)
(* memory, the cursor on disk.  One step of the model is one chunk or one  *)
(* request.                                                                *)
(***************************************************************************)
EXTENDS SessionManager

CONSTANTS ReseedMaxAttempts, MaxConcurrent

ASSUME SessionWatcherAssumption ==
  ReseedMaxAttempts \in Nat \ {0} /\ MaxConcurrent \in Nat \ {0}

VARIABLES sCursor,     \* the file cursor-session-requested
          pending,     \* reqID -> required capabilities, here a set
          seeded, reseedTries,
          sPass,       \* the running pass
          claimTried   \* requests a claim was sent for

swVars == <<sCursor, pending, seeded, reseedTries, sPass, claimTried>>

NoPass == [pc |-> "idle", lo |-> 0, safe |-> 0, todo |-> {}]

SessionWatcherTypeOK ==
  /\ sCursor \in [stored : BOOLEAN, block : Blocks]
  /\ pending \subseteq Requests /\ claimTried \subseteq Requests
  /\ seeded \in BOOLEAN /\ reseedTries \in 0..ReseedMaxAttempts
  /\ sPass \in [pc : {"idle", "reseed", "discover", "evaluate"}, lo : 0..MaxHead + ChunkSize,
                safe : Blocks, todo : SUBSET Requests]

SessionWatcherInit ==
  /\ sCursor = Unset
  /\ pending = {} /\ claimTried = {}
  /\ seeded = FALSE /\ reseedTries = 0
  /\ sPass = NoPass

ChunkEnd(lo, safe) == IF lo + ChunkSize - 1 > safe THEN safe ELSE lo + ChunkSize - 1

----------------------------------------------------------------------------
(* Discovery goes on from lo; behind the safe head the pending requests    *)
(* are evaluated.                                                          *)
ScanFrom(lo, safe, reqs) ==
  IF lo <= safe THEN [pc |-> "discover", lo |-> lo, safe |-> safe, todo |-> {}]
  ELSE IF reqs = {} THEN NoPass
  ELSE [NoPass EXCEPT !.pc = "evaluate", !.todo = reqs]

StartSessionPass ==
  /\ sPass.pc = "idle"
  /\ sCursor' = GetOrSeed(sCursor, safeHead, Lookback)
  /\ seeded' = (seeded \/ Fresh(sCursor, safeHead, Lookback))
  /\ sPass' = IF seeded' THEN ScanFrom(sCursor'.block + 1, safeHead, pending)
              ELSE [pc |-> "reseed", lo |-> sCursor'.block + 1, safe |-> safeHead, todo |-> {}]
  /\ UNCHANGED <<head, req, job, faults, pending, reseedTries, claimTried>>

(* The look-back window, up to and including the cursor. *)
WindowBeforeCursor ==
  IF Lookback = 0 THEN {}
  ELSE SessionsIn(IF sPass.lo - 1 > Lookback THEN sPass.lo - Lookback ELSE 1, sPass.lo - 2)

LookbackWindow ==
  IF Lookback = 0 THEN {}
  ELSE SessionsIn(IF sPass.lo - 1 > Lookback THEN sPass.lo - Lookback ELSE 1, sPass.lo - 1)

Reseed ==
  /\ sPass.pc = "reseed"
  /\ \/ /\ pending' = pending \union LookbackWindow
        /\ seeded' = TRUE
        /\ UNCHANGED <<reseedTries, faults>>
     \/ /\ Lookback # 0 /\ sPass.lo > 1 /\ RpcFails
        /\ \E part \in SUBSET LookbackWindow : pending' = pending \union part
        /\ reseedTries' = reseedTries + 1
        /\ seeded' = (reseedTries' >= ReseedMaxAttempts)
  /\ sPass' = ScanFrom(sPass.lo, sPass.safe, pending')
  /\ UNCHANGED <<head, req, job, sCursor, claimTried>>

Discover ==
  /\ sPass.pc = "discover"
  /\ \/ LET hi == ChunkEnd(sPass.lo, sPass.safe)
        IN /\ pending' = pending \union SessionsIn(sPass.lo, hi)
           /\ sCursor' = Set(hi)
           /\ sPass' = ScanFrom(sPass.lo + ChunkSize, sPass.safe, pending')
           /\ UNCHANGED faults
     \/ /\ RpcFails
        /\ sPass' = NoPass
        /\ UNCHANGED <<pending, sCursor>>
  /\ UNCHANGED <<head, req, job, seeded, reseedTries, claimTried>>

----------------------------------------------------------------------------
Evaluated(r) ==
  sPass' = IF sPass.todo = {r} THEN NoPass ELSE [sPass EXCEPT !.todo = @ \ {r}]

Drop(r) == Evaluated(r) /\ pending' = pending \ {r} /\ UNCHANGED claimTried
Keep(r) == Evaluated(r) /\ UNCHANGED <<pending, claimTried>>

(* A claim that fails drops the request too, also when it has landed and   *)
(* only its receipt was lost.                                              *)
ClaimSession(r) ==
  /\ Evaluated(r)
  /\ pending' = pending \ {r} /\ claimTried' = claimTried \union {r}
  /\ \/ req' = Claimed(r) /\ UNCHANGED faults
     \/ RpcFails /\ req' \in {req, Claimed(r)}

(* The capability check lets r through: when the mask cannot be read the   *)
(* request counts as unconstrained.                                        *)
Admitted(r) == IF req[r].covered THEN UNCHANGED faults ELSE RpcFails

(* counter is what the job counter shows. *)
Evaluate(r, counter) ==
  /\ sPass.pc = "evaluate" /\ r \in sPass.todo
  /\ \/ Keep(r) /\ RpcFails /\ UNCHANGED req
     \/ /\ req[r].status # "open" \/ ~req[r].covered
        /\ Drop(r) /\ UNCHANGED <<req, faults>>
     \/ /\ req[r].status = "open" /\ Admitted(r)
        /\ counter >= MaxConcurrent
        /\ sPass' = NoPass /\ UNCHANGED <<pending, req, claimTried>>
     \/ /\ req[r].status = "open" /\ Admitted(r) /\ counter < MaxConcurrent
        /\ ~Claimable(r)
        /\ IF EligibleNow(r) THEN Drop(r) ELSE Keep(r)
        /\ UNCHANGED req
     \/ /\ Claimable(r) /\ counter < MaxConcurrent
        /\ ClaimSession(r)
  /\ UNCHANGED <<head, job, sCursor, seeded, reseedTries>>

SessionPass(counter) ==
  \/ StartSessionPass \/ Reseed \/ Discover
  \/ \E r \in Requests : Evaluate(r, counter)

SessionWatcherCrash ==
  /\ pending' = {}
  /\ seeded' = FALSE /\ reseedTries' = 0
  /\ sPass' = NoPass
  /\ UNCHANGED <<sCursor, claimTried>>
=============================================================================
