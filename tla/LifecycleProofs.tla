--------------------------- MODULE LifecycleProofs ---------------------------
(***************************************************************************)
(* What a shutdown, a lost connection and a rotated key may do to the jobs *)
(* of a worker, for any number of jobs, slots and key versions, and in     *)
(* each of the three modes.                                                *)
(***************************************************************************)
EXTENDS Lifecycle, TLAPS

----------------------------------------------------------------------------
(* Types. *)

(* The versions of the key. *)
LEMMA VersionsType == NoKey \in Versions /\ 1..MaxKeys \subseteq Versions /\ NoFile.key \in Versions
BY KeysAssumption DEF Versions, NoKey, NoFile

(* The file after it was written, or not. *)
LEMMA PersistType ==
  ASSUME KeyStoreTypeOK, NEW k \in Versions, NEW f \in {"pass", "zero"}, Persist(k, f)
  PROVE  file' \in [under : {"pass", "zero", "nothing"}, key : Versions]
<1>1. f \in {"pass", "zero", "nothing"}
  OBVIOUS
<1>2. [under |-> f, key |-> k] \in [under : {"pass", "zero", "nothing"}, key : Versions]
  BY <1>1, Zenon
<1> QED  BY <1>2, Zenon DEF KeyStoreTypeOK, Persist

(* The key store keeps its types. *)
LEMMA KeyStoreType ==
  ASSUME KeyStoreTypeOK
  PROVE  /\ OpenKeyStore => KeyStoreTypeOK'
         /\ \A k \in Versions : StoreKey(k) => KeyStoreTypeOK'
         /\ ZeroKeys => KeyStoreTypeOK'
         /\ ForgetKeys => KeyStoreTypeOK'
<1>1. ASSUME OpenKeyStore PROVE KeyStoreTypeOK'
  <2>1. file.key \in Versions
    BY DEF KeyStoreTypeOK
  <2> QED  BY <1>1, <2>1 DEF KeyStoreTypeOK, OpenKeyStore
<1>2. ASSUME NEW k \in Versions, StoreKey(k) PROVE KeyStoreTypeOK'
  BY <1>2, PersistType DEF KeyStoreTypeOK, StoreKey
<1>3. ASSUME ZeroKeys PROVE KeyStoreTypeOK'
  BY <1>3, PersistType, VersionsType DEF KeyStoreTypeOK, ZeroKeys
<1>4. ASSUME ForgetKeys PROVE KeyStoreTypeOK'
  BY <1>4, VersionsType DEF KeyStoreTypeOK, ForgetKeys
<1> QED  BY <1>1, <1>2, <1>3, <1>4

(* The leader of the flight is at work on it. *)
LeaderWorks == flight # NoLeader => stage[flight] \in {"fetch", "store"}

(* What a job does with keys keeps the types. *)
LEMMA KeyStepType ==
  ASSUME SessionKeysTypeOK, KeyStoreTypeOK, LeaderWorks, NEW j \in Jobs, KeyStep(j)
  PROVE  SessionKeysTypeOK' /\ KeyStoreTypeOK' /\ LeaderWorks'
<1> USE VersionsType DEF SessionKeysTypeOK, LeaderWorks, Stages, Goto, Hold
<1>0. jobKey[j] \in Versions /\ chainKey \in Versions /\ (keys # NoKey => keys \in Versions)
  BY DEF KeyStoreTypeOK
<1>1. CASE LookUp(j)
  BY <1>0, <1>1 DEF LookUp, keyStoreVars, KeyStoreTypeOK
<1>2. CASE EnterFlight(j)
  BY <1>0, <1>2 DEF EnterFlight, keyStoreVars, KeyStoreTypeOK
<1>3. CASE FetchKey(j)
  BY <1>0, <1>3 DEF FetchKey, keyStoreVars, KeyStoreTypeOK
<1>4. CASE RefetchKey(j)
  BY <1>0, <1>4 DEF RefetchKey, RefreshKey, keyStoreVars, KeyStoreTypeOK
<1>5. CASE FetchFails(j)
  BY <1>5 DEF FetchFails, FlightAfter, Followers, keyStoreVars, KeyStoreTypeOK
<1>6. CASE StoreFetched(j)
  <2>1. KeyStoreTypeOK'
    BY <1>0, <1>6, KeyStoreType DEF StoreFetched
  <2> QED  BY <1>0, <1>6, <2>1 DEF StoreFetched, Followers
<1>7. CASE StoreRefreshed(j)
  <2>1. KeyStoreTypeOK'
    BY <1>0, <1>7, KeyStoreType DEF StoreRefreshed
  <2> QED  BY <1>7, <2>1 DEF StoreRefreshed
<1>8. CASE Decrypt(j)
  BY <1>8 DEF Decrypt, keyStoreVars, KeyStoreTypeOK
<1>9. CASE DecryptAgain(j)
  BY <1>9 DEF DecryptAgain, keyStoreVars, KeyStoreTypeOK
<1> QED  BY <1>1, <1>2, <1>3, <1>4, <1>5, <1>6, <1>7, <1>8, <1>9 DEF KeyStep

(* The process starts with the right types. *)
LEMMA InitType == Init => TypeOK
<1> SUFFICES ASSUME Init PROVE TypeOK
  OBVIOUS
<1>1. KeyStoreTypeOK
  BY VersionsType DEF Init, KeyStoreInit, KeyStoreTypeOK, NoFile
<1>2. SessionKeysTypeOK /\ flight = NoLeader
  BY VersionsType, KeysAssumption DEF Init, SessionKeysInit, SessionKeysTypeOK, Stages
<1>3. drains \in 0..MaxDrains
  BY LifecycleAssumption DEF Init, PresenceInit
<1>4. /\ heartbeat \in BOOLEAN /\ marker \in BOOLEAN
      /\ intake \in BOOLEAN /\ timedOut \in BOOLEAN /\ closedBy \in {"nobody", "asynq", "service"}
  BY Zenon DEF Init, PresenceInit
<1>5. mode \in Modes /\ proc \in Procs /\ conn \in {"down", "up", "broken"} /\ open \subseteq Jobs
  BY DEF Init, Procs
<1> QED  BY <1>1, <1>2, <1>3, <1>4, <1>5 DEF TypeOK, PresenceTypeOK

(* Every step keeps the types. *)
LEMMA NextType == TypeOK /\ [Next]_vars => TypeOK'
<1> SUFFICES ASSUME TypeOK, [Next]_vars PROVE TypeOK'
  OBVIOUS
<1> USE DEF TypeOK, procVars, connVars, jobVars, presenceVars, sessionKeyVars, keyStoreVars, Procs
<1>t. ASSUME UNCHANGED jobVars
      PROVE  KeyStoreTypeOK' /\ SessionKeysTypeOK' /\ LeaderWorks'
  BY <1>t DEF KeyStoreTypeOK, SessionKeysTypeOK, LeaderWorks
<1>p. UNCHANGED presenceVars => PresenceTypeOK'
  BY DEF PresenceTypeOK
<1>1. CASE Start
  <2>1. KeyStoreTypeOK'
    BY <1>1, KeyStoreType DEF Start
  <2>2. SessionKeysTypeOK' /\ LeaderWorks'
    BY <1>1 DEF Start, SessionKeysTypeOK, LeaderWorks
  <2>3. PresenceTypeOK'
    BY <1>1 DEF Start, Emit, PresenceTypeOK
  <2> QED  BY <1>1, <2>1, <2>2, <2>3 DEF Start, LeaderWorks
<1>2. CASE Heartbeat
  <2>1. PresenceTypeOK'
    BY <1>2 DEF Heartbeat, Emit, PresenceTypeOK
  <2> QED  BY <1>2, <1>t, <2>1 DEF Heartbeat, LeaderWorks
<1>3. ASSUME NEW j \in Jobs, Deliver(j) PROVE TypeOK'
  <2>1. KeyStoreTypeOK' /\ SessionKeysTypeOK' /\ LeaderWorks'
    BY <1>3 DEF Deliver, Goto, KeyStoreTypeOK, SessionKeysTypeOK, Stages, LeaderWorks
  <2> QED  BY <1>3, <1>p, <2>1 DEF Deliver, LeaderWorks
<1>4. ASSUME NEW j \in Jobs, JobStep(j) PROVE TypeOK'
  <2>1. KeyStoreTypeOK' /\ SessionKeysTypeOK' /\ LeaderWorks'
    BY <1>4, KeyStepType DEF JobStep, LeaderWorks
  <2> QED  BY <1>4, <1>p, <2>1 DEF JobStep, LeaderWorks
<1>5. ASSUME NEW j \in Jobs, Work(j) PROVE TypeOK'
  <2>1. KeyStoreTypeOK' /\ SessionKeysTypeOK' /\ LeaderWorks'
    BY <1>5 DEF Work, Goto, KeyStoreTypeOK, SessionKeysTypeOK, Stages, LeaderWorks
  <2> QED  BY <1>5, <1>p, <2>1 DEF Work, LeaderWorks
<1>6. CASE Connect \/ Disconnect \/ CloseConn
  BY <1>6, <1>t, <1>p DEF Connect, Disconnect, CloseConn, LeaderWorks
<1>7. CASE \/ Signal \/ CloseIntake \/ AsynqShutdown \/ ShutdownAsynq \/ AwaitJobs \/ TimeoutJobs
           \/ StopMonitor
  BY <1>7, <1>t, <1>p DEF Signal, CloseIntake, AsynqShutdown, ShutdownAsynq, AwaitJobs, TimeoutJobs,
                          StopMonitor, LeaderWorks
<1>8. CASE MarkDrainOnShutdown
  <2>1. PresenceTypeOK'
    BY <1>8 DEF MarkDrainOnShutdown, MarkDraining, PresenceTypeOK
  <2> QED  BY <1>8, <1>t, <2>1 DEF MarkDrainOnShutdown, LeaderWorks
<1>9. CASE ZeroAll
  <2>1. KeyStoreTypeOK'
    BY <1>9, KeyStoreType DEF ZeroAll
  <2>2. SessionKeysTypeOK' /\ LeaderWorks'
    BY <1>9 DEF ZeroAll, SessionKeysTypeOK, LeaderWorks
  <2> QED  BY <1>9, <1>p, <2>1, <2>2 DEF ZeroAll, LeaderWorks
<1>10. CASE Exit \/ Crash
  <2>1. End
    BY <1>10 DEF Exit, Crash
  <2>2. KeyStoreTypeOK'
    BY <2>1, KeyStoreType DEF End
  <2>3. SessionKeysTypeOK' /\ LeaderWorks'
    BY <2>1, VersionsType DEF End, DropJobs, SessionKeysTypeOK, Stages, LeaderWorks
  <2> QED  BY <2>1, <1>p, <2>2, <2>3 DEF End, LeaderWorks
<1>11. CASE Around \/ DrainEnds
  <2>1. drains' \in 0..MaxDrains
    BY <1>11, LifecycleAssumption
       DEF Around, DrainEnds, Drain, Undrain, HeartbeatExpires, MarkerExpires, PresenceTypeOK
  <2>2. heartbeat' \in BOOLEAN /\ marker' \in BOOLEAN
    BY <1>11, Zenon
       DEF Around, DrainEnds, Drain, Undrain, HeartbeatExpires, MarkerExpires, PresenceTypeOK
  <2> QED  BY <1>11, <1>t, <2>1, <2>2 DEF Around, DrainEnds, LeaderWorks, PresenceTypeOK
<1>12. CASE Consumer
  <2>1. KeyStoreTypeOK' /\ LeaderWorks'
    BY <1>12 DEF Consumer, Rotate, Submit, KeyStoreTypeOK, LeaderWorks
  <2>2. SessionKeysTypeOK'
    BY <1>12, KeysAssumption, VersionsType DEF Consumer, Rotate, Submit, SessionKeysTypeOK
  <2> QED  BY <1>12, <1>p, <2>1, <2>2 DEF Consumer, LeaderWorks
<1>13. CASE UNCHANGED vars
  BY <1>13, <1>t, <1>p DEF vars, LeaderWorks
<1> QED
  BY <1>1, <1>2, <1>3, <1>4, <1>5, <1>6, <1>7, <1>8, <1>9, <1>10, <1>11, <1>12, <1>13
     DEF Next, ShutdownStep

(* Every variable of the process keeps its type, and the leader of a       *)
(* flight (keyFetchGroup) is at work on it.                                *)
THEOREM TypeCorrect == Spec => []TypeOK
BY InitType, NextType, PTL DEF Spec

----------------------------------------------------------------------------
(* What the steps of a job do. *)

(* A job that runs; jobs that do not are left alone. *)
LEMMA KeyStepEffect ==
  ASSUME TypeOK, NEW j \in Jobs, KeyStep(j)
  PROVE  /\ j \in Running /\ Running' \subseteq Running
         /\ \A i \in Jobs : i \notin Running => stage'[i] = stage[i]
         /\ UNCHANGED <<chainKey, prompt, fileKey>>
         /\ file' = file \/ file'.under = fileKey
<1>0. stage \in [Jobs -> Stages]
  BY DEF TypeOK, SessionKeysTypeOK
<1> USE <1>0 DEF KeyStep, LookUp, EnterFlight, FetchKey, RefetchKey, FetchFails, StoreFetched,
                 StoreRefreshed, Decrypt, DecryptAgain, Goto, Followers, StoreKey, keyStoreVars
<1>1. j \in Running
  BY DEF Running
<1>2. ASSUME NEW i \in Jobs, i \notin Running PROVE stage'[i] = stage[i]
  BY <1>2 DEF Running
<1>3. UNCHANGED <<chainKey, prompt, fileKey>>
  OBVIOUS
<1>4. file' = file \/ file'.under = fileKey
  BY DEF Persist
<1>5. Running' \subseteq Running
  BY <1>2 DEF Running
<1> QED  BY <1>1, <1>2, <1>3, <1>4, <1>5

(* The delivery of a job, and its end. *)
LEMMA DeliverEffect ==
  ASSUME TypeOK, NEW j \in Jobs
  PROVE  /\ Deliver(j) => Running' = Running \union {j}
         /\ Work(j) => j \in Running /\ Running' = Running \ {j}
BY DEF TypeOK, SessionKeysTypeOK, Deliver, Work, Goto, Running, Stages

(* A process that ends leaves no job behind. *)
LEMMA EndEffect == TypeOK /\ End => Running' = {}
BY DEF TypeOK, SessionKeysTypeOK, End, DropJobs, Running

----------------------------------------------------------------------------
(* The shutdown. *)

(* Until the keys are zeroed the file key is the passphrase's, and they    *)
(* are zeroed behind a closed intake and a wait for every handler, unless  *)
(* asynq has closed itself; after shutdown's own call it no longer can.    *)
CleanInv ==
  mode # "gateway" /\ closedBy # "asynq" /\ ~timedOut =>
    /\ CanOpen
    /\ proc \notin {"zeroed", "stopped"} => fileKey = "pass"
    /\ proc \in {"waited", "zeroed", "stopped"} => ~intake /\ Running = {}
    /\ proc \in {"zeroed", "stopped"} => keys = NoKey

(* A shutdown that waited for its jobs never writes the key file under the *)
(* zeroed key (ZeroAll, persist) and takes no key from a running handler:  *)
(* in sortition mode, and in direct mode when its call of asynq's Shutdown *)
(* is the first.                                                           *)
THEOREM ShutdownIsClean == Spec => []CleanShutdown
<1>1. Init => CleanInv
  BY DEF Init, CleanInv, KeyStoreInit, NoFile, CanOpen
<1>2. TypeOK /\ CleanInv /\ [Next]_vars => CleanInv'
  <2> SUFFICES ASSUME TypeOK, CleanInv, [Next]_vars PROVE CleanInv'
    OBVIOUS
  <2> USE DEF CleanInv, procVars, connVars, jobVars, sessionKeyVars, keyStoreVars
  <2>s. ASSUME UNCHANGED <<mode, timedOut, closedBy, proc, intake, jobVars>> PROVE CleanInv'
    <3>1. Running' = Running /\ CanOpen' = CanOpen
      BY <2>s DEF Running, CanOpen
    <3> QED  BY <2>s, <3>1
  <2>j. UNCHANGED jobVars => Running' = Running /\ CanOpen' = CanOpen
    BY DEF Running, CanOpen
  <2>1. CASE Start
    BY <2>1 DEF Start, OpenKeyStore, CanOpen
  <2>2. CASE Heartbeat \/ Connect \/ Disconnect \/ CloseConn \/ Around \/ DrainEnds \/ UNCHANGED vars
    BY <2>2, <2>s DEF Heartbeat, Connect, Disconnect, CloseConn, Around, DrainEnds, vars
  <2>3. ASSUME NEW j \in Jobs, Deliver(j) PROVE CleanInv'
    BY <2>3 DEF Deliver, CanOpen
  <2>4. ASSUME NEW j \in Jobs, JobStep(j) PROVE CleanInv'
    <3>1. j \in Running /\ Running' \subseteq Running /\ UNCHANGED <<mode, timedOut, closedBy, proc, intake, fileKey>>
      BY <2>4, KeyStepEffect DEF JobStep
    <3>2. file' = file \/ file'.under = fileKey
      BY <2>4, KeyStepEffect DEF JobStep
    <3> QED  BY <3>1, <3>2 DEF CanOpen
  <2>5. ASSUME NEW j \in Jobs, Work(j) PROVE CleanInv'
    <3>1. j \in Running
      BY <2>5, DeliverEffect
    <3> QED  BY <2>5, <3>1 DEF Work, CanOpen
  <2>6. CASE Signal
    BY <2>6, <2>j DEF Signal
  <2>7. CASE CloseIntake
    BY <2>7, <2>j DEF CloseIntake
  <2>8. CASE MarkDrainOnShutdown
    BY <2>8, <2>j DEF MarkDrainOnShutdown
  <2>9. CASE AwaitJobs
    <3>1. mode \in {"direct", "gateway", "sortition"}
      BY LifecycleAssumption DEF TypeOK
    <3> QED  BY <2>9, <2>j, <3>1 DEF AwaitJobs, JobsReturned, Returned
  <2>10. CASE TimeoutJobs
    BY <2>10 DEF TimeoutJobs
  <2>11. CASE ZeroAll
    <3>1. Running' = Running
      BY <2>11 DEF ZeroAll, Running
    <3> QED  BY <2>11, <3>1 DEF ZeroAll, ZeroKeys, Persist, CanOpen
  <2>12. CASE StopMonitor
    BY <2>12, <2>j DEF StopMonitor
  <2>13. CASE Exit \/ Crash
    BY <2>13 DEF Exit, Crash, End, ForgetKeys, CanOpen
  <2>14. CASE Consumer
    <3>1. Running' = Running
      BY <2>14 DEF Consumer, Rotate, Submit, Running
    <3> QED  BY <2>14, <3>1 DEF Consumer, Rotate, Submit, CanOpen
  <2>15. CASE AsynqShutdown \/ ShutdownAsynq
    BY <2>15, <2>j DEF AsynqShutdown, ShutdownAsynq
  <2> QED
    BY <2>1, <2>2, <2>3, <2>4, <2>5, <2>6, <2>7, <2>8, <2>9, <2>10, <2>11, <2>12, <2>13, <2>14, <2>15
       DEF Next, ShutdownStep
<1>3. CleanInv => CleanShutdown
  BY DEF CleanInv, CleanShutdown
<1> QED  BY <1>1, <1>2, <1>3, TypeCorrect, PTL DEF Spec

----------------------------------------------------------------------------
(* The slots of the gateway. *)

(* No handler outlives its connection into the next one. *)
SlotsInv ==
  mode = "gateway" =>
    /\ conn = "down" => Running = {}
    /\ conn = "up" => open = Running

(* streamOnce: while a connection is up the gateway counts every handler   *)
(* that runs, so it never sends more than MAX_CONCURRENT_JOBS.             *)
THEOREM GatewayCountsSlots == Spec => []SlotsTrue
<1>1. Init => SlotsInv
  BY DEF Init, SlotsInv, SessionKeysInit, Running
<1>2. TypeOK /\ SlotsInv /\ [Next]_vars => SlotsInv'
  <2> SUFFICES ASSUME TypeOK, SlotsInv, [Next]_vars PROVE SlotsInv'
    OBVIOUS
  <2> USE DEF SlotsInv, procVars, connVars, jobVars, sessionKeyVars, keyStoreVars
  <2>s. ASSUME UNCHANGED <<mode, conn, open, stage>> PROVE SlotsInv'
    <3>1. Running' = Running
      BY <2>s DEF Running
    <3> QED  BY <2>s, <3>1
  <2>1. CASE Start \/ Heartbeat \/ Around \/ DrainEnds \/ UNCHANGED vars
    BY <2>1, <2>s DEF Start, Heartbeat, Around, DrainEnds, vars
  <2>2. CASE Consumer
    BY <2>2, <2>s DEF Consumer, Rotate, Submit
  <2>3. ASSUME NEW j \in Jobs, Deliver(j) PROVE SlotsInv'
    <3>1. Running' = Running \union {j}
      BY <2>3, DeliverEffect
    <3> QED  BY <2>3, <3>1 DEF Deliver, MayDeliver
  <2>4. ASSUME NEW j \in Jobs, JobStep(j) PROVE SlotsInv'
    <3>1. j \in Running /\ Running' \subseteq Running
      BY <2>4, KeyStepEffect DEF JobStep
    <3>2. open = Running => open' = Running'
      BY <2>4, <3>1 DEF JobStep, Running
    <3> QED  BY <2>4, <3>1, <3>2 DEF JobStep
  <2>5. ASSUME NEW j \in Jobs, Work(j) PROVE SlotsInv'
    <3>1. j \in Running /\ Running' = Running \ {j}
      BY <2>5, DeliverEffect
    <3> QED  BY <2>5, <3>1 DEF Work
  <2>6. CASE Connect \/ Disconnect \/ CloseConn
    <3>1. Running' = Running
      BY <2>6 DEF Connect, Disconnect, CloseConn, Running
    <3> QED  BY <2>6, <3>1 DEF Connect, Disconnect, CloseConn, HandlersReturned
  <2>7. CASE \/ Signal \/ CloseIntake \/ MarkDrainOnShutdown \/ AsynqShutdown \/ ShutdownAsynq
             \/ AwaitJobs \/ TimeoutJobs \/ StopMonitor
    BY <2>7, <2>s DEF Signal, CloseIntake, MarkDrainOnShutdown, AsynqShutdown, ShutdownAsynq,
                      AwaitJobs, TimeoutJobs, StopMonitor
  <2>8. CASE ZeroAll
    BY <2>8, <2>s DEF ZeroAll
  <2>9. CASE Exit \/ Crash
    BY <2>9, EndEffect DEF Exit, Crash, End
  <2> QED
    BY <2>1, <2>2, <2>3, <2>4, <2>5, <2>6, <2>7, <2>8, <2>9 DEF Next, ShutdownStep
<1>3. SlotsInv => SlotsTrue
  BY DEF SlotsInv, SlotsTrue
<1> QED  BY <1>1, <1>2, <1>3, TypeCorrect, PTL DEF Spec

----------------------------------------------------------------------------
(* The session key of a job. *)

(* What a job tries after the refresh is at least as new as its prompt. *)
KeyFollows(j) ==
  /\ prompt[j] <= chainKey
  /\ stage[j] # "idle" => prompt[j] # NoKey
  /\ stage[j] \in {"restore", "check"} => prompt[j] <= jobKey[j] /\ jobKey[j] <= chainKey
  /\ stage[j] = "undecryptable" => prompt[j] < chainKey

RotationInv == \A j \in Jobs : KeyFollows(j)

(* A job's own steps. *)
LEMMA KeyStepFollows ==
  ASSUME TypeOK, RotationInv, NEW j \in Jobs, KeyStep(j)
  PROVE  RotationInv'
<1>0. /\ stage \in [Jobs -> Stages] /\ jobKey \in [Jobs -> Versions] /\ prompt \in [Jobs -> Versions]
      /\ chainKey \in 1..MaxKeys /\ MaxKeys \in Nat
  BY KeysAssumption DEF TypeOK, SessionKeysTypeOK
<1> SUFFICES ASSUME NEW i \in Jobs PROVE KeyFollows(i)'
  BY DEF RotationInv
<1>1. KeyFollows(i) /\ KeyFollows(j)
  BY DEF RotationInv
<1>2. UNCHANGED <<chainKey, prompt>>
  BY KeyStepEffect
<1> USE <1>0, <1>1, <1>2 DEF KeyFollows, Goto, Hold, Versions
<1>3. CASE LookUp(j)
  BY <1>3 DEF LookUp
<1>4. CASE EnterFlight(j)
  BY <1>4 DEF EnterFlight
<1>5. CASE FetchKey(j)
  BY <1>5 DEF FetchKey
<1>6. CASE RefetchKey(j)
  BY <1>6 DEF RefetchKey, RefreshKey
<1>7. CASE FetchFails(j)
  BY <1>7 DEF FetchFails, Followers
<1>8. CASE StoreFetched(j)
  BY <1>8 DEF StoreFetched, Followers
<1>9. CASE StoreRefreshed(j)
  BY <1>9 DEF StoreRefreshed
<1>10. CASE Decrypt(j)
  BY <1>10 DEF Decrypt
<1>11. CASE DecryptAgain(j)
  BY <1>11 DEF DecryptAgain
<1> QED  BY <1>3, <1>4, <1>5, <1>6, <1>7, <1>8, <1>9, <1>10, <1>11 DEF KeyStep

(* refreshSessionKey reads the chain: only a rotation after the submission *)
(* leaves a job with a prompt it cannot open.                              *)
THEOREM OnlyRotationLosesPrompts == Spec => []RotationOnly
<1>1. Init => RotationInv
  BY DEF Init, SessionKeysInit, RotationInv, KeyFollows, NoKey
<1>2. TypeOK /\ RotationInv /\ [Next]_vars => RotationInv'
  <2> SUFFICES ASSUME TypeOK, RotationInv, [Next]_vars PROVE RotationInv'
    OBVIOUS
  <2>0. /\ stage \in [Jobs -> Stages] /\ jobKey \in [Jobs -> Versions] /\ prompt \in [Jobs -> Versions]
        /\ chainKey \in 1..MaxKeys /\ MaxKeys \in Nat
    BY KeysAssumption DEF TypeOK, SessionKeysTypeOK
  <2> USE DEF procVars, connVars, jobVars, sessionKeyVars, keyStoreVars
  <2>s. UNCHANGED sessionKeyVars => RotationInv'
    BY DEF RotationInv, KeyFollows
  <2>1. CASE Start \/ Heartbeat \/ Connect \/ Disconnect \/ CloseConn \/ Signal \/ Around \/ DrainEnds
    BY <2>1, <2>s DEF Start, Heartbeat, Connect, Disconnect, CloseConn, Signal, Around, DrainEnds
  <2>2. CASE \/ CloseIntake \/ MarkDrainOnShutdown \/ AsynqShutdown \/ ShutdownAsynq \/ AwaitJobs
             \/ TimeoutJobs \/ ZeroAll \/ StopMonitor \/ UNCHANGED vars
    BY <2>2, <2>s DEF CloseIntake, MarkDrainOnShutdown, AsynqShutdown, ShutdownAsynq, AwaitJobs,
                      TimeoutJobs, ZeroAll, StopMonitor, vars
  <2>3. ASSUME NEW j \in Jobs, Deliver(j) PROVE RotationInv'
    BY <2>0, <2>3 DEF Deliver, Goto, RotationInv, KeyFollows
  <2>4. ASSUME NEW j \in Jobs, JobStep(j) PROVE RotationInv'
    BY <2>4, KeyStepFollows DEF JobStep
  <2>5. ASSUME NEW j \in Jobs, Work(j) PROVE RotationInv'
    BY <2>0, <2>5 DEF Work, Goto, RotationInv, KeyFollows
  <2>6. CASE Exit \/ Crash
    BY <2>0, <2>6 DEF Exit, Crash, End, DropJobs, Running, RotationInv, KeyFollows
  <2>7. CASE Consumer
    <3>1. ASSUME Rotate PROVE RotationInv'
      BY <2>0, <3>1 DEF Rotate, RotationInv, KeyFollows, Versions
    <3>2. ASSUME NEW j \in Jobs, Submit(j) PROVE RotationInv'
      BY <2>0, <3>2 DEF Submit, RotationInv, KeyFollows, Versions, NoKey
    <3> QED  BY <2>7, <3>1, <3>2 DEF Consumer
  <2> QED
    BY <2>1, <2>2, <2>3, <2>4, <2>5, <2>6, <2>7 DEF Next, ShutdownStep
<1>3. TypeOK /\ RotationInv => RotationOnly
  BY KeysAssumption DEF RotationInv, KeyFollows, RotationOnly, TypeOK, SessionKeysTypeOK, Versions
<1> QED  BY <1>1, <1>2, <1>3, TypeCorrect, PTL DEF Spec
==============================================================================
