------------------------------ MODULE Lifecycle ------------------------------
(***************************************************************************)
(* The worker process: start, the three intakes, the shutdown that follows *)
(* a signal, crash and restart.  Jobs are followed through stages 3 and 4  *)
(* (SessionKeys), because the session keys are what a shutdown takes away  *)
(* from them; the rest of a job is the stage "work".                       *)
(***************************************************************************)
EXTENDS SessionKeys, Presence

CONSTANTS Modes,          \* subset of {"direct", "gateway", "sortition"}
          MaxConcurrent   \* MAX_CONCURRENT_JOBS

ASSUME LifecycleAssumption ==
  /\ Modes \subseteq {"direct", "gateway", "sortition"} /\ Modes # {}
  /\ MaxConcurrent \in Nat \ {0} /\ MaxDrains \in Nat

VARIABLES mode,
          proc,      \* where the process is
          intake,    \* the intake still takes jobs
          timedOut,  \* a wait for the jobs gave up
          closedBy,  \* direct mode: whose call of asynq's Shutdown was the first
          conn,      \* the job stream of gateway mode: "down", "up", "broken"
          open       \* the jobs the gateway sees open on this connection

procVars == <<mode, proc, intake, timedOut, closedBy>>
connVars == <<conn, open>>
jobVars == <<sessionKeyVars, keyStoreVars>>
vars == <<procVars, connVars, jobVars, presenceVars>>

Procs == {"down", "up", "signalled", "drained", "cancelling", "waited", "zeroed", "stopped"}

Init ==
  /\ SessionKeysInit /\ KeyStoreInit /\ PresenceInit
  /\ mode \in Modes
  /\ proc = "down"
  /\ intake = FALSE /\ timedOut = FALSE /\ closedBy = "nobody"
  /\ conn = "down" /\ open = {}

----------------------------------------------------------------------------
(* New and Run: the key store opens and, with Redis, a first heartbeat is  *)
(* written, or the process does not start.  Sortition has a profile with   *)
(* Redis and one with the gateway.                                         *)
Start ==
  /\ proc = "down"
  /\ OpenKeyStore
  /\ \/ mode # "gateway" /\ Emit
     \/ mode # "direct" /\ UNCHANGED presenceVars
  /\ proc' = "up"
  /\ intake' = TRUE /\ timedOut' = FALSE /\ closedBy' = "nobody"
  /\ UNCHANGED <<mode, connVars, sessionKeyVars>>

(* Monitor.Start and gatewayHeartbeatLoop.  In direct mode the monitor     *)
(* runs until shutdown stops it, in the others until the signal.           *)
BeatOnce == FALSE
Beating == proc = "up" \/ (mode = "direct" /\ proc \notin {"down", "stopped"})

Heartbeat ==
  /\ Beating
  /\ Emit
  /\ UNCHANGED <<procVars, connVars, jobVars>>

(* A job reaches its handler: asynq with its Concurrency, the JobWatcher   *)
(* with its counter, or a message on the job stream, which the gateway     *)
(* sends while it sees a free slot.                                        *)
MayDeliver(j) ==
  IF mode = "gateway" THEN conn = "up" /\ j \notin open /\ Cardinality(open) < MaxConcurrent
  ELSE Cardinality(Running) < MaxConcurrent

Deliver(j) ==
  /\ proc # "down" /\ intake
  /\ prompt[j] # NoKey /\ stage[j] \in {"idle", "undecryptable"}
  /\ MayDeliver(j)
  /\ Goto(j, "lookup")
  /\ open' = IF mode = "gateway" THEN open \union {j} ELSE open
  /\ UNCHANGED <<chainKey, prompt, jobKey, flight, keyStoreVars, procVars, conn, presenceVars>>

JobStep(j) ==
  /\ proc # "down"
  /\ KeyStep(j)
  /\ open' = {i \in open : stage'[i] \notin {"idle", "undecryptable"}}
  /\ UNCHANGED <<procVars, conn, presenceVars>>

(* The rest of the pipeline, to an end or an error.  A job that ended can  *)
(* be delivered again.                                                     *)
Work(j) ==
  /\ proc # "down" /\ stage[j] = "work"
  /\ Goto(j, "idle")
  /\ open' = open \ {j}
  /\ UNCHANGED <<chainKey, prompt, jobKey, flight, keyStoreVars, procVars, conn, presenceVars>>

----------------------------------------------------------------------------
(* StreamJobs and streamOnce: a connection that breaks is replaced once    *)
(* the handlers that were started on it have returned.                     *)
NoWait == TRUE
HandlersReturned == Running = {}

Connect ==
  /\ mode = "gateway" /\ proc = "up" /\ conn = "down"
  /\ conn' = "up" /\ open' = {}
  /\ UNCHANGED <<procVars, jobVars, presenceVars>>

Disconnect ==
  /\ conn = "up"
  /\ conn' = "broken" /\ open' = {}
  /\ UNCHANGED <<procVars, jobVars, presenceVars>>

CloseConn ==
  /\ conn = "broken" /\ HandlersReturned
  /\ conn' = "down"
  /\ UNCHANGED <<open, procVars, jobVars, presenceVars>>

----------------------------------------------------------------------------
(* The signal, or the end of the asynq server. *)
Signal ==
  /\ proc = "up"
  /\ proc' = "signalled"
  /\ UNCHANGED <<mode, intake, timedOut, closedBy, connVars, jobVars, presenceVars>>

(* A pass of the watcher, or a read from the stream, can outlast the       *)
(* signal; then the intake is closed.                                      *)
CloseIntake ==
  /\ proc \notin {"up", "down"} /\ intake
  /\ intake' = FALSE
  /\ UNCHANGED <<mode, proc, timedOut, closedBy, connVars, jobVars, presenceVars>>

MarkDrainOnShutdown ==
  /\ proc = "signalled"
  /\ MarkDraining
  /\ proc' = "drained"
  /\ UNCHANGED <<mode, intake, timedOut, closedBy, connVars, jobVars>>

(* asynq's Server.Run traps the signal too: it stops its processor and     *)
(* calls Shutdown itself, before shutdown does or after.                   *)
AsynqShutdown ==
  /\ mode = "direct" /\ proc \notin {"up", "down"} /\ ~intake
  /\ closedBy = "nobody"
  /\ closedBy' = "asynq"
  /\ UNCHANGED <<mode, proc, intake, timedOut, connVars, jobVars, presenceVars>>

ShutdownAsynq ==
  /\ mode = "direct" /\ proc = "drained"
  /\ closedBy = "nobody"
  /\ closedBy' = "service"
  /\ UNCHANGED <<mode, proc, intake, timedOut, connVars, jobVars, presenceVars>>

(* runSortitionMode waits for the JobWatcher, shutdown for asynq: only the *)
(* first call of Shutdown waits for asynq's handlers, a second one returns *)
(* at once.  Nothing waits for the handlers of the job stream.             *)
IntakeClosed == ~intake
Returned == ~intake /\ Running = {}

JobsReturned ==
  \/ mode = "gateway"
  \/ mode = "sortition" /\ Returned
  \/ mode = "direct" /\ (closedBy = "asynq" \/ (closedBy = "service" /\ Returned))

AwaitJobs ==
  /\ proc \in {"drained", "cancelling"} /\ JobsReturned
  /\ proc' = "waited"
  /\ UNCHANGED <<mode, intake, timedOut, closedBy, connVars, jobVars, presenceVars>>

(* SHUTDOWN_TIMEOUT and then jobCancelGrace run out; asynq has one timeout *)
(* of its own, after which it leaves its handlers behind.                  *)
WaitForever == FALSE
GivesUp == mode = "sortition" \/ closedBy = "service"

TimeoutJobs ==
  /\ GivesUp
  /\ \/ proc = "drained" /\ proc' = IF mode = "sortition" THEN "cancelling" ELSE "waited"
     \/ proc = "cancelling" /\ proc' = "waited"
  /\ timedOut' = TRUE
  /\ UNCHANGED <<mode, intake, closedBy, connVars, jobVars, presenceVars>>

ZeroAll ==
  /\ proc = "waited"
  /\ ZeroKeys
  /\ proc' = "zeroed"
  /\ UNCHANGED <<mode, intake, timedOut, closedBy, connVars, sessionKeyVars,
                 presenceVars>>

(* The monitor and the release subsystem stop; the chain client and Redis  *)
(* are closed.                                                             *)
StopMonitor ==
  /\ proc = "zeroed"
  /\ proc' = "stopped"
  /\ UNCHANGED <<mode, intake, timedOut, closedBy, connVars, jobVars, presenceVars>>

End ==
  /\ proc' = "down" /\ intake' = FALSE
  /\ conn' = "down" /\ open' = {}
  /\ DropJobs /\ ForgetKeys
  /\ UNCHANGED <<mode, timedOut, closedBy, presenceVars>>

Exit == proc = "stopped" /\ End
Crash == proc # "down" /\ End

----------------------------------------------------------------------------
(* The operator, the clock and the consumer. *)
Around ==
  /\ Drain \/ Undrain \/ HeartbeatExpires
  /\ UNCHANGED <<procVars, connVars, jobVars>>

DrainEnds == MarkerExpires /\ UNCHANGED <<procVars, connVars, jobVars>>

Consumer ==
  /\ Rotate \/ \E j \in Jobs : Submit(j)
  /\ UNCHANGED <<procVars, connVars, presenceVars>>

ShutdownStep ==
  \/ CloseIntake \/ MarkDrainOnShutdown \/ ShutdownAsynq \/ AwaitJobs \/ TimeoutJobs
  \/ ZeroAll \/ StopMonitor \/ Exit

Next ==
  \/ Start \/ Heartbeat
  \/ \E j \in Jobs : Deliver(j) \/ JobStep(j) \/ Work(j)
  \/ Connect \/ Disconnect \/ CloseConn
  \/ Signal \/ AsynqShutdown \/ ShutdownStep \/ Crash
  \/ Around \/ DrainEnds \/ Consumer

Spec == Init /\ [][Next]_vars

(* The shutdown goroutine goes on, its timers fire, the heartbeat ticker   *)
(* ticks, the marker expires.  Nothing is assumed of the jobs.             *)
FairSpec ==
  /\ Spec
  /\ WF_vars(ShutdownStep) /\ WF_vars(Heartbeat) /\ WF_vars(DrainEnds)

----------------------------------------------------------------------------
(* The type of every variable. *)
TypeOK ==
  /\ KeyStoreTypeOK /\ SessionKeysTypeOK /\ PresenceTypeOK
  /\ mode \in Modes /\ proc \in Procs
  /\ intake \in BOOLEAN /\ timedOut \in BOOLEAN /\ closedBy \in {"nobody", "asynq", "service"}
  /\ conn \in {"down", "up", "broken"} /\ open \subseteq Jobs
  /\ flight # NoLeader => stage[flight] \in {"fetch", "store"}

(* A shutdown that waited for its jobs takes nothing from under them: when *)
(* the session keys are zeroed no handler runs, no key comes back into     *)
(* memory, and the file still opens with the passphrase.  It does not wait *)
(* in gateway mode, nor in direct mode when asynq's own Shutdown came      *)
(* first.                                                                  *)
CleanShutdown ==
  (mode # "gateway" /\ closedBy # "asynq" /\ ~timedOut) =>
    /\ CanOpen
    /\ proc \in {"zeroed", "stopped"} => keys = NoKey /\ Running = {}

(* A stale cache, or a slow flight that writes an old key over a new one,  *)
(* never costs a job its prompt: the refresh reads the chain, so only a    *)
(* rotation after the submission does.                                     *)
RotationOnly == \A j \in Jobs : stage[j] = "undecryptable" => prompt[j] # chainKey

(* While a connection is up the gateway knows every handler that runs: the *)
(* jobs of the old connection have returned before a new one offers        *)
(* MAX_CONCURRENT_JOBS slots, so neither is the capacity doubled nor a     *)
(* lost job sent again to the worker that still runs it.                   *)
SlotsTrue == (mode = "gateway" /\ conn = "up") => open = Running

(* A shutdown ends although jobs hang. *)
ShutdownEnds == proc = "signalled" ~> proc = "down"

(* A worker that is up is offered sessions again, whatever marker the last *)
(* shutdown or the operator left.                                          *)
ComesBack == proc = "up" ~> (Routable \/ proc # "up")
==============================================================================
