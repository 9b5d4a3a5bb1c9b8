------------------------------- MODULE Intake -------------------------------
(***************************************************************************)
(* Sortition mode: the session watcher claims sessions, the job watcher    *)
(* serves their jobs.  The watchers run on tickers of their own; they share *)
(* the job counter, the cursor directory and the chain client.             *)
(***************************************************************************)
EXTENDS JobWatcher

VARIABLE floor     \* requests up to this block may be forgotten by a restart

vars == <<head, req, job, faults, swVars, jwVars, floor>>

TypeOK ==
  /\ ChainTypeOK /\ SessionWatcherTypeOK /\ JobWatcherTypeOK
  /\ floor \in Blocks

Init ==
  /\ ChainInit /\ SessionWatcherInit /\ JobWatcherInit
  /\ floor = 0

(* What the look-back of this pass does not reach, or has given up on. *)
Forgets ==
  IF sPass.pc = "reseed" /\ seeded'
  THEN IF reseedTries' >= ReseedMaxAttempts THEN sPass.lo - 1
       ELSE IF sPass.lo - 1 > Lookback THEN sPass.lo - 1 - Lookback ELSE 0
  ELSE IF sPass.pc = "idle" /\ ~sCursor.stored THEN sCursor'.block ELSE 0

RunSessionWatcher ==
  /\ SessionPass(Counter)
  /\ floor' = IF Forgets > floor THEN Forgets ELSE floor
  /\ UNCHANGED jwVars

RunJobWatcher == JobPass /\ UNCHANGED <<swVars, floor>>

RunJobs == (\E j \in Jobs : BeginJob(j) \/ EndJob(j)) /\ UNCHANGED <<swVars, floor>>

Chain ==
  /\ \/ NextBlock
     \/ \E r \in Requests : RequestSession(r) \/ LoseRequest(r) \/ SwitchSession(r)
     \/ \E j \in Jobs : SubmitJob(j)
  /\ UNCHANGED <<swVars, jwVars, floor>>

Crash ==
  /\ faults < MaxFaults /\ faults' = faults + 1
  /\ SessionWatcherCrash /\ JobWatcherCrash
  /\ UNCHANGED <<head, req, job, floor>>

Next == RunSessionWatcher \/ RunJobWatcher \/ RunJobs \/ Chain \/ Crash

Spec == Init /\ [][Next]_vars

(* The tickers fire, goroutines are scheduled, jobs end (every stage has a *)
(* timeout) and the chain grows.                                           *)
FairSpec ==
  /\ Spec
  /\ WF_vars(RunSessionWatcher) /\ WF_vars(RunJobWatcher)
  /\ WF_vars(RunJobs)
  /\ WF_vars(NextBlock /\ UNCHANGED <<swVars, jwVars, floor>>)

----------------------------------------------------------------------------
(* JobWatcher.runOnce and stopAndRetry: the cursor on disk never passes a  *)
(* job of this worker that was not handed to the pipeline, however the     *)
(* pass ends (capacity, an RPC error, an inactive session, a crash),       *)
(* except the jobs it gave up on and those before a fresh worker's start.  *)
NoJobSkipped ==
  \A j \in Jobs :
    job[j].block # 0 /\ Mine(j) /\ job[j].block <= jCursor.block /\ job[j].block > jStart =>
      j \in handed \union refused

(* SessionWatcher.reseed and RunOnce: a request that is still open and     *)
(* behind the cursor is in the pending set, also after a restart, unless a *)
(* claim was tried, it asks for capabilities we lack, or the look-back did *)
(* not reach it.                                                           *)
RequestsKept ==
  seeded =>
    \A r \in Requests :
      req[r].status = "open" /\ req[r].covered /\ req[r].block \in floor + 1..sCursor.block =>
        r \in pending \union claimTried

(* SessionRetryLimit: "one session that never returns to Active cannot     *)
(* wedge the watcher and starve every job behind it": every job of ours is *)
(* handed on or given up on.                                               *)
EveryJobTaken ==
  \A j \in Jobs :
    (job[j].block # 0 /\ Mine(j)) ~> (j \in handed \union refused \/ job[j].block <= jStart)

(* SessionWatcher.RunOnce: a request whose capabilities we have is claimed  *)
(* once the threshold admits us, unless somebody else or its expiry ends   *)
(* it: the pass that finds no free slot or no eligibility comes back.      *)
EveryRequestTried ==
  \A r \in Requests :
    req[r].status = "open" /\ req[r].covered ~>
      req[r].status # "open" \/ r \in claimTried \/ req[r].block <= floor
=============================================================================
