----------------------------- MODULE JobWatcher -----------------------------
(***************************************************************************)
(* JobWatcher.runOnce: scan the new blocks for jobs of this worker and     *)
(* hand each to HandleJobPayload in a goroutine.  The goroutine raises the *)
(* job counter itself, so a job that is started is not counted at once.    *)
(* One step of the model is one event; the reads of an event are one step. *)
(***************************************************************************)
EXTENDS SessionWatcher, FiniteSetsExt, Functions

CONSTANT SessionRetryLimit

ASSUME JobWatcherAssumption == SessionRetryLimit \in Nat \ {0}

VARIABLES jCursor,            \* the file cursor-job-submitted
          notActiveRetries,
          jPass,              \* the running pass
          started,            \* goroutines that have not reached the counter
          running,            \* calls of HandleJobPayload per job
          handed,             \* jobs that were ever handed to the pipeline
          refused,            \* jobs the watcher has passed over for good
          jStart              \* the block a fresh worker starts after

jwVars == <<jCursor, notActiveRetries, jPass, started, running, handed, refused, jStart>>

NoJobPass == [pc |-> "idle", lo |-> 0, hi |-> 0, safe |-> 0, todo |-> {}]

JobWatcherTypeOK ==
  /\ jCursor \in [stored : BOOLEAN, block : Blocks]
  /\ notActiveRetries \in [Jobs -> 0..SessionRetryLimit - 1]
  /\ jPass \in [pc : {"idle", "events"}, lo : 0..MaxHead + ChunkSize,
                hi : Blocks, safe : Blocks, todo : SUBSET Jobs]
  /\ started \subseteq Jobs
  /\ running \in [Jobs -> Nat]
  /\ handed \subseteq Jobs /\ refused \subseteq Jobs
  /\ jStart \in Blocks

JobWatcherInit ==
  /\ jCursor = Unset
  /\ notActiveRetries = [j \in Jobs |-> 0]
  /\ jPass = NoJobPass
  /\ started = {} /\ running = [j \in Jobs |-> 0]
  /\ handed = {} /\ refused = {}
  /\ jStart = 0

(* jobCounter *)
Counter == SumFunction(running)

chainOf == <<head, req, job>>

----------------------------------------------------------------------------
(* FilterJobSubmitted for the chunk at lo, or the end of the pass.  An RPC *)
(* error ends the pass where the cursor stands.                            *)
ScanChunk(lo, safe) ==
  IF lo > safe THEN jPass' = NoJobPass /\ UNCHANGED faults
  ELSE \/ LET hi == ChunkEnd(lo, safe)
          IN jPass' = [pc |-> "events", lo |-> lo, hi |-> hi, safe |-> safe, todo |-> JobsIn(lo, hi)]
             /\ UNCHANGED faults
       \/ RpcFails /\ jPass' = NoJobPass

(* The ticker leaves the goroutines of the last pass time to start. *)
StartJobPass ==
  /\ jPass.pc = "idle" /\ started = {}
  /\ jCursor' = GetOrSeed(jCursor, safeHead, Lookback)
  /\ jStart' = IF Fresh(jCursor, safeHead, Lookback) THEN jCursor'.block ELSE jStart
  /\ ScanChunk(jCursor'.block + 1, safeHead)
  /\ UNCHANGED <<chainOf, notActiveRetries, started, running, handed, refused>>

EndChunk ==
  /\ jPass.pc = "events" /\ jPass.todo = {}
  /\ jCursor' = Set(jPass.hi)
  /\ ScanChunk(jPass.lo + ChunkSize, jPass.safe)
  /\ UNCHANGED <<chainOf, notActiveRetries, started, running, handed, refused, jStart>>

----------------------------------------------------------------------------
NextEvent(j) == jPass.pc = "events" /\ j \in jPass.todo /\ \A i \in jPass.todo : j <= i
PastEvent(j) == jPass' = [jPass EXCEPT !.todo = @ \ {j}]

(* The pass ends and the next one resumes behind the block of j. *)
StopAtEvent(j) == jCursor' = Set(job[j].block) /\ jPass' = NoJobPass

StopAndRetry(j) == jCursor' = Set(job[j].block - 1) /\ jPass' = NoJobPass

SkipForeign(j) ==
  /\ NextEvent(j) /\ ~Mine(j)
  /\ PastEvent(j)
  /\ UNCHANGED <<chainOf, faults, jCursor, notActiveRetries, started, running, handed, refused, jStart>>

AtCapacity(j) ==
  /\ NextEvent(j) /\ Mine(j) /\ Counter >= MaxConcurrent
  /\ StopAndRetry(j)
  /\ UNCHANGED <<chainOf, faults, notActiveRetries, started, running, handed, refused, jStart>>

Taken(j) == NextEvent(j) /\ Mine(j) /\ Counter < MaxConcurrent

(* GetSessionEncWorkerKey, GetJobBlobInfo or GetSessionInfo fails. *)
ReadFails(j) ==
  /\ Taken(j) /\ RpcFails
  /\ StopAndRetry(j)
  /\ notActiveRetries' \in {notActiveRetries,
                            IF req[job[j].session].active THEN [notActiveRetries EXCEPT ![j] = 0]
                            ELSE notActiveRetries}
  /\ UNCHANGED <<chainOf, started, running, handed, refused, jStart>>

(* The session may come back to us by failover: a bounded number of        *)
(* passes waits for it.                                                    *)
RetryForever(j) ==
  /\ Taken(j) /\ ~req[job[j].session].active
  /\ StopAndRetry(j) /\ UNCHANGED <<notActiveRetries, refused>>
  /\ UNCHANGED <<chainOf, faults, started, running, handed, jStart>>

SessionNotActive(j) ==
  /\ Taken(j) /\ ~req[job[j].session].active
  /\ IF notActiveRetries[j] + 1 < SessionRetryLimit
     THEN /\ notActiveRetries' = [notActiveRetries EXCEPT ![j] = @ + 1]
          /\ StopAndRetry(j) /\ UNCHANGED refused
     ELSE /\ notActiveRetries' = [notActiveRetries EXCEPT ![j] = 0]
          /\ PastEvent(j) /\ refused' = refused \union {j} /\ UNCHANGED jCursor
  /\ UNCHANGED <<chainOf, faults, started, running, handed, jStart>>

KeyUndecryptable(j) ==
  /\ Taken(j) /\ req[job[j].session].active /\ ~req[job[j].session].ours
  /\ notActiveRetries' = [notActiveRetries EXCEPT ![j] = 0]
  /\ PastEvent(j) /\ refused' = refused \union {j}
  /\ UNCHANGED <<chainOf, faults, jCursor, started, running, handed, jStart>>

ServeJob(j) ==
  /\ Taken(j) /\ req[job[j].session].active /\ req[job[j].session].ours
  /\ notActiveRetries' = [notActiveRetries EXCEPT ![j] = 0]
  /\ PastEvent(j)
  /\ started' = started \union {j}
  /\ handed' = handed \union {j}
  /\ UNCHANGED <<chainOf, faults, jCursor, running, refused, jStart>>

JobPass ==
  \/ StartJobPass \/ EndChunk
  \/ \E j \in Jobs : \/ SkipForeign(j) \/ AtCapacity(j) \/ ReadFails(j) \/ SessionNotActive(j)
                     \/ KeyUndecryptable(j) \/ ServeJob(j)

----------------------------------------------------------------------------
(* The goroutine enters HandleJobPayload, and leaves it. *)
BeginJob(j) ==
  /\ j \in started
  /\ started' = started \ {j}
  /\ running' = [running EXCEPT ![j] = @ + 1]
  /\ UNCHANGED <<chainOf, faults, jCursor, notActiveRetries, jPass, handed, refused, jStart>>

EndJob(j) ==
  /\ running[j] > 0
  /\ running' = [running EXCEPT ![j] = @ - 1]
  /\ UNCHANGED <<chainOf, faults, jCursor, notActiveRetries, jPass, started, handed, refused, jStart>>

JobWatcherCrash ==
  /\ notActiveRetries' = [j \in Jobs |-> 0]
  /\ jPass' = NoJobPass
  /\ started' = {} /\ running' = [j \in Jobs |-> 0]
  /\ UNCHANGED <<jCursor, handed, refused, jStart>>
=============================================================================
