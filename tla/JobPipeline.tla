---------------------------- MODULE JobPipeline ----------------------------
(***************************************************************************)
(* JobHandler.processJob: the attempts to serve one job, from the          *)
(* acknowledgement to completeJob.  An attempt is one call of HandleTask   *)
(* (asynq retries it after a failure) or of HandleJobPayload (the job      *)
(* watcher or the gateway may serve the same job again at any time, also   *)
(* while an earlier call runs).  Every call to the chain, to Redis or to   *)
(* the model is a step of its own, and can fail.  Session keys and the     *)
(* frames inside a stream are in SessionKeys and TokenStream.              *)
(***************************************************************************)
EXTENDS CheckpointStore, DeadlineGuard, Sequences

CONSTANTS LastAttempt,   \* attempts are 1..LastAttempt; the last one is maxRetry
          Entries,       \* "task": HandleTask, "payload": HandleJobPayload
          Stores,        \* is Redis configured: checkpoints and Redis frames
          Overlaps,      \* ACK_OVERLAP_ENABLED
          MaxFaults      \* Redis calls that fail, records that expire, crashes

Attempts == 1..LastAttempt

ASSUME PipelineAssumption ==
  /\ LastAttempt \in Nat \ {0}
  /\ Entries \subseteq {"task", "payload"} /\ Entries # {}
  /\ Stores \subseteq BOOLEAN /\ Stores # {}
  /\ Overlaps \subseteq BOOLEAN /\ Overlaps # {}
  /\ MaxFaults \in Nat
  /\ Ciphertexts = Attempts

VARIABLES job,       \* the job in the registry
          left,      \* time until its deadline
          ackTx,     \* the acknowledgeJob transaction of an attempt
          doneTx,    \* the completeJob transaction of an attempt
          ckpt,      \* the checkpoint in Redis
          att,       \* the local variables of an attempt
          wire,      \* the frames published for the job
          tracked,   \* the release tracker was told of the job
          lost, crashes,
          mode       \* how the worker is configured and fed

chainVars == <<job, left, ackTx, doneTx>>
outVars == <<wire, tracked>>
faultVars == <<lost, crashes>>
vars == <<chainVars, ckpt, att, outVars, faultVars, mode>>

PC == {"idle", "ack", "ackWait", "checkpoint", "prepare", "infer", "store", "join", "publish",
       "mark", "blob", "setHash", "complete", "doneWait", "finish",
       "done", "retry", "dead", "crashed"}
Ended == {"done", "retry", "dead", "crashed"}

TxStates == {"none", "pool", "mined", "reverted"}
Frames == [type : {"chunk", "complete", "error"}, ct : Ciphertexts \union {Nil}]

AttemptRec == [pc : PC,
               snap : Checkpoints,                \* ckpt, read once after stage 1
               ct : Ciphertexts \union {Nil},
               vh : Ciphertexts \union {Nil},
               clamp : BOOLEAN,                   \* the inference context has a deadline
               answered : BOOLEAN]                \* delivered

NotServed == [pc |-> "idle", snap |-> Missing, ct |-> Nil, vh |-> Nil,
              clamp |-> FALSE, answered |-> FALSE]

TypeOK ==
  /\ job \in [state : {"Submitted", "Acknowledged", "Completed", "Refunded"}, acked : BOOLEAN,
              blob : Ciphertexts \union {Nil}, ct : Ciphertexts \union {Nil}]
  /\ left \in Nat
  /\ ackTx \in [Attempts -> TxStates]
  /\ doneTx \in [Attempts -> TxStates]
  /\ ckpt \in Checkpoints
  /\ att \in [Attempts -> AttemptRec]
  /\ wire \in Seq(Frames)
  /\ tracked \in BOOLEAN
  /\ lost \in 0..MaxFaults
  /\ crashes \in 0..MaxFaults
  /\ mode \in [entry : Entries, store : Stores, overlap : Overlaps]

Init ==
  /\ job = [state |-> "Submitted", acked |-> FALSE, blob |-> Nil, ct |-> Nil]
  /\ left = AckWindow
  /\ ackTx = [a \in Attempts |-> "none"]
  /\ doneTx = [a \in Attempts |-> "none"]
  /\ ckpt = Missing
  /\ att = [a \in Attempts |-> NotServed]
  /\ wire = <<>>
  /\ tracked = FALSE
  /\ lost = 0
  /\ crashes = 0
  /\ mode \in [entry : Entries, store : Stores, overlap : Overlaps]

At(a, pc) == att[a].pc = pc
Goto(a, pc) == att' = [att EXCEPT ![a].pc = pc]
Becomes(a, rec) == att' = [att EXCEPT ![a] = rec]

(* An attempt that ends forgets its copy of the checkpoint. *)
Over(a, pc) == [att[a] EXCEPT !.pc = pc, !.snap = Missing, !.clamp = FALSE]

(* A Redis call that fails. *)
RedisFails == lost + crashes < MaxFaults /\ lost' = lost + 1 /\ UNCHANGED crashes

(* What a read of the deadline can return. *)
Deadlines == {NoReading, Reading(left, job.state # "Submitted")}

----------------------------------------------------------------------------
(* The end of a failed attempt: HandleTask, HandleJobPayload and           *)
(* reportFailure.  Only the last attempt of a task speaks for the job, and *)
(* it stays silent when it has delivered the answer.  Without Redis the    *)
(* publisher is the gateway's, and PublishError sends nothing.             *)
Final(a, noRetry) == mode.entry = "payload" \/ noRetry \/ a = LastAttempt

ErrorFrame == IF mode.store THEN <<[type |-> "error", ct |-> Nil]>> ELSE <<>>

(* An attempt that asked not to be retried goes unreported. *)
ReportExhausted(a, noRetry) ==
  IF Final(a, FALSE) /\ ~att[a].answered THEN ErrorFrame ELSE <<>>

ReportFailure(a, noRetry) ==
  IF Final(a, noRetry) /\ ~att[a].answered THEN ErrorFrame ELSE <<>>

(* A chunk on the wire stands for a run of chunk frames. *)
Streamed(frames) ==
  IF frames # <<>> /\ wire # <<>> /\ wire[Len(wire)] = frames[1] THEN wire ELSE wire \o frames

FailAfter(a, frames, noRetry) ==
  /\ Becomes(a, Over(a, IF Final(a, noRetry) THEN "dead" ELSE "retry"))
  /\ wire' = Streamed(frames) \o ReportFailure(a, noRetry)
  /\ UNCHANGED <<chainVars, ckpt, tracked, faultVars, mode>>

Fail(a, noRetry) == FailAfter(a, <<>>, noRetry)

Proceed(a, pc) == Goto(a, pc) /\ UNCHANGED <<chainVars, ckpt, outVars, faultVars, mode>>

----------------------------------------------------------------------------
(* asynq retries a task that failed or whose worker died; a payload may be *)
(* served again whenever the watcher rescans its block or the gateway      *)
(* delivers it again.                                                      *)
MayServe(a) ==
  a > 1 => IF mode.entry = "task" THEN att[a - 1].pc \in {"retry", "crashed"}
           ELSE att[a - 1].pc # "idle"

(* Stage 0: checkPickup. *)
Serve(a) ==
  /\ At(a, "idle") /\ MayServe(a)
  /\ \E r \in Deadlines :
       IF PickupDoomed(r) THEN Fail(a, TRUE) ELSE Proceed(a, "ack")

----------------------------------------------------------------------------
(* Stage 1.  HasJobAcknowledged, the send and the reconciliation of its    *)
(* error are one step: should the acknowledgement be mined between them    *)
(* the send fails and the reconciliation finds it.  Gas estimation fails   *)
(* for a job that is not in Submitted or is late; with overlap stage 1     *)
(* ends at the broadcast.                                                  *)
ReconcileAckError(a) == (job.acked /\ Proceed(a, "checkpoint")) \/ Fail(a, FALSE)

EnsureAcknowledged(a) ==
  /\ At(a, "ack")
  /\ \/ ReconcileAckError(a)
     \/ /\ job.state = "Submitted" /\ left > 0
        /\ ackTx' = [ackTx EXCEPT ![a] = "pool"]
        /\ Goto(a, IF mode.overlap THEN "checkpoint" ELSE "ackWait")
        /\ UNCHANGED <<job, left, doneTx, ckpt, outVars, faultVars, mode>>

(* AcknowledgeJob returns: mined, reverted or AckTxTimeout. *)
AwaitAck(a) == At(a, "ackWait") /\ ReconcileAckError(a)

----------------------------------------------------------------------------
(* The checkpoint is read once; every later decision uses this copy.       *)
AfterRead(c) == IF HasCiphertext(c) THEN "join" ELSE "prepare"

ReadCheckpoint(a) ==
  /\ At(a, "checkpoint")
  /\ \/ LET c == IF mode.store THEN ckpt ELSE Missing
        IN Becomes(a, [att[a] EXCEPT !.pc = AfterRead(c), !.snap = c, !.ct = c.ct])
           /\ UNCHANGED faultVars
     \/ mode.store /\ RedisFails /\ Goto(a, "prepare")
  /\ UNCHANGED <<chainVars, ckpt, outVars, mode>>

(* Stages 2 to 4.5: blob, session key, decryption, search, envelope.  A    *)
(* malformed self-contained envelope fails in the same way every time.     *)
(* Then gateInference decides with what time the model may run.            *)
PrepareInference(a) ==
  /\ At(a, "prepare")
  /\ \/ \E noRetry \in BOOLEAN : Fail(a, noRetry)
     \/ \E r \in Deadlines :
          IF InferenceDoomed(r) THEN Fail(a, TRUE)
          ELSE /\ Becomes(a, [att[a] EXCEPT !.pc = "infer", !.clamp = Clamped(r)])
               /\ UNCHANGED <<chainVars, ckpt, outVars, faultVars, mode>>

(* Stages 5 to 6b: transcription, history, generation, encryption, voice.  *)
(* The deltas of an answer that was delivered before are not streamed.     *)
Streams(a) == IF att[a].snap.delivered THEN {<<>>} ELSE {<<>>, <<[type |-> "chunk", ct |-> Nil]>>}

RunInference(a) ==
  /\ At(a, "infer")
  /\ att[a].clamp => left > SettleReserve
  /\ \E s \in Streams(a) : wire' = Streamed(s)
  /\ Becomes(a, [att[a] EXCEPT !.pc = IF mode.store THEN "store" ELSE "join", !.ct = a,
                               !.clamp = FALSE])
  /\ UNCHANGED <<chainVars, ckpt, tracked, faultVars, mode>>

(* An empty generation, unusable audio and a deadline that has passed end  *)
(* the job; other failures, the clamped context among them, are retried.   *)
InferenceFails(a) ==
  /\ At(a, "infer")
  /\ \E s \in Streams(a), noRetry \in BOOLEAN : FailAfter(a, s, noRetry)

(* The loser of the race goes on with the canonical ciphertext; without an *)
(* answer from Redis, or above the size cap, with its own.                 *)
StoreCiphertext(a) ==
  /\ At(a, "store")
  /\ \/ /\ ckpt' = SetCiphertextIfAbsent(ckpt, att[a].ct)
        /\ Becomes(a, [att[a] EXCEPT !.pc = "join", !.ct = ckpt'.ct])
        /\ UNCHANGED faultVars
     \/ RedisFails /\ Goto(a, "join") /\ UNCHANGED ckpt
  /\ UNCHANGED <<chainVars, outVars, mode>>

----------------------------------------------------------------------------
(* Stage 1b: the join of the overlapped acknowledgement.  After a failed   *)
(* or late confirmation the chain is asked once more.                      *)
JoinUnchecked(a) == At(a, "join") /\ Proceed(a, "publish")

AwaitAcknowledged(a) ==
  /\ At(a, "join")
  /\ \/ (ackTx[a] \in {"none", "mined"} \/ job.acked) /\ Proceed(a, "publish")
     \/ mode.overlap /\ ackTx[a] # "none" /\ Fail(a, FALSE)

----------------------------------------------------------------------------
(* Stage 7.  A failed publication is only logged.                          *)
PublishResponse(a) ==
  /\ At(a, "publish")
  /\ Becomes(a, [att[a] EXCEPT !.answered = TRUE,
                               !.pc = IF ~att[a].snap.delivered /\ mode.store THEN "mark" ELSE "blob"])
  /\ IF att[a].snap.delivered THEN UNCHANGED <<wire, faultVars>>
     ELSE \/ wire' = Append(wire, [type |-> "complete", ct |-> att[a].ct]) /\ UNCHANGED faultVars
          \/ RedisFails /\ UNCHANGED wire
  /\ UNCHANGED <<chainVars, ckpt, tracked, mode>>

RecordDelivered(a) ==
  /\ At(a, "mark")
  /\ Goto(a, "blob")
  /\ \/ ckpt' = MarkDelivered(ckpt) /\ UNCHANGED faultVars
     \/ RedisFails /\ UNCHANGED ckpt
  /\ UNCHANGED <<chainVars, outVars, mode>>

----------------------------------------------------------------------------
(* Stage 8a: the gate and the blob transaction, unless the copy of the     *)
(* checkpoint has its hash.                                                *)
(* The hash that is taken is of a blob without the answer. *)
SubmitOtherBlob(a) ==
  /\ Becomes(a, [att[a] EXCEPT !.vh = LastAttempt + 1, !.pc = "complete"])
  /\ UNCHANGED <<chainVars, ckpt, outVars, faultVars, mode>>

SubmitBlob(a) ==
  /\ Becomes(a, [att[a] EXCEPT !.vh = att[a].ct,
                               !.pc = IF mode.store THEN "setHash" ELSE "complete"])
  /\ UNCHANGED <<chainVars, ckpt, outVars, faultVars, mode>>

EnsureBlobSubmitted(a) ==
  /\ At(a, "blob")
  /\ IF HasVersionedHash(att[a].snap)
     THEN /\ Becomes(a, [att[a] EXCEPT !.vh = att[a].snap.vh, !.pc = "complete"])
          /\ UNCHANGED <<chainVars, ckpt, outVars, faultVars, mode>>
     ELSE \E r \in Deadlines :
            IF BlobDoomed(r) THEN Fail(a, TRUE) ELSE SubmitBlob(a) \/ Fail(a, FALSE)

RecordHash(a) ==
  /\ At(a, "setHash")
  /\ Goto(a, "complete")
  /\ \/ ckpt' = SetVersionedHash(ckpt, att[a].vh) /\ UNCHANGED faultVars
     \/ RedisFails /\ UNCHANGED ckpt
  /\ UNCHANGED <<chainVars, outVars, mode>>

----------------------------------------------------------------------------
(* Stage 8b.  After an error of the transaction the chain is asked whether *)
(* the job is completed, and then whether its deadline has passed.         *)
RecheckForgiving(a) == Proceed(a, "finish") \/ Fail(a, FALSE)

RecheckCompleted(a) ==
  \/ Fail(a, FALSE)
  \/ job.state = "Completed" /\ Proceed(a, "finish")
  \/ job.state # "Completed" /\ \E r \in Deadlines : IsDoomedNow(r) /\ Fail(a, TRUE)

(* A task that is retried asks first; for any other attempt the send of a  *)
(* job that is completed fails and the recheck finds it.                   *)
CompleteJob(a) ==
  /\ At(a, "complete")
  /\ \/ RecheckCompleted(a)
     \/ /\ job.state = "Acknowledged" /\ left > 0
        /\ doneTx' = [doneTx EXCEPT ![a] = "pool"]
        /\ Goto(a, "doneWait")
        /\ UNCHANGED <<job, left, ackTx, ckpt, outVars, faultVars, mode>>

AwaitComplete(a) == At(a, "doneWait") /\ RecheckCompleted(a)

(* MarkEligible may fail, then the reconciler backfills the job; the       *)
(* checkpoint is tombstoned.                                               *)
FinishJob(a) ==
  /\ At(a, "finish")
  /\ tracked' \in {TRUE, tracked}
  /\ Becomes(a, Over(a, "done"))
  /\ \/ ckpt' = (IF mode.store THEN Tombstone(ckpt) ELSE ckpt) /\ UNCHANGED faultVars
     \/ RedisFails /\ UNCHANGED ckpt
  /\ UNCHANGED <<chainVars, wire, mode>>

----------------------------------------------------------------------------
(* The chain, time, Redis and the process. *)
MineAck(a) ==
  /\ ackTx[a] = "pool"
  /\ IF job.state = "Submitted" /\ left > 0
     THEN /\ job' = [job EXCEPT !.state = "Acknowledged", !.acked = TRUE]
          /\ left' = CompletionWindow
          /\ ackTx' = [ackTx EXCEPT ![a] = "mined"]
     ELSE ackTx' = [ackTx EXCEPT ![a] = "reverted"] /\ UNCHANGED <<job, left>>
  /\ UNCHANGED <<doneTx, ckpt, att, outVars, faultVars, mode>>

MineComplete(a) ==
  /\ doneTx[a] = "pool"
  /\ IF job.state = "Acknowledged" /\ left > 0
     THEN /\ job' = [job EXCEPT !.state = "Completed", !.blob = att[a].vh, !.ct = att[a].ct]
          /\ doneTx' = [doneTx EXCEPT ![a] = "mined"]
     ELSE doneTx' = [doneTx EXCEPT ![a] = "reverted"] /\ UNCHANGED job
  /\ UNCHANGED <<left, ackTx, ckpt, att, outVars, faultVars, mode>>

Tick ==
  /\ left > 0
  /\ left' = left - 1
  /\ UNCHANGED <<job, ackTx, doneTx, ckpt, att, outVars, faultVars, mode>>

(* The keeper's settleStuckJob after a missed deadline. *)
Refund ==
  /\ left = 0
  /\ job.state \in {"Submitted", "Acknowledged"}
  /\ job' = [job EXCEPT !.state = "Refunded"]
  /\ UNCHANGED <<left, ackTx, doneTx, ckpt, att, outVars, faultVars, mode>>

Expire ==
  /\ ckpt.ttl # "none"
  /\ RedisFails
  /\ ckpt' = Missing
  /\ UNCHANGED <<chainVars, att, outVars, mode>>

Crash ==
  /\ lost + crashes < MaxFaults
  /\ \E a \in Attempts : att[a].pc \notin Ended \union {"idle"}
  /\ att' = [a \in Attempts |-> IF att[a].pc \in Ended \union {"idle"} THEN att[a]
                                ELSE Over(a, "crashed")]
  /\ crashes' = crashes + 1
  /\ UNCHANGED <<chainVars, ckpt, outVars, lost, mode>>

----------------------------------------------------------------------------
Acknowledge(a) == EnsureAcknowledged(a) \/ AwaitAck(a)

Produce(a) ==
  \/ ReadCheckpoint(a) \/ PrepareInference(a) \/ RunInference(a) \/ InferenceFails(a)
  \/ StoreCiphertext(a)

Settle(a) ==
  \/ AwaitAcknowledged(a) \/ PublishResponse(a) \/ RecordDelivered(a) \/ EnsureBlobSubmitted(a)
  \/ RecordHash(a) \/ CompleteJob(a) \/ AwaitComplete(a) \/ FinishJob(a)

ProcessJob(a) == Acknowledge(a) \/ Produce(a) \/ Settle(a)

Next ==
  \/ \E a \in Attempts : Serve(a) \/ ProcessJob(a) \/ MineAck(a) \/ MineComplete(a)
  \/ Tick \/ Refund \/ Expire \/ Crash

Spec == Init /\ [][Next]_vars

----------------------------------------------------------------------------
Answers == {f \in {wire[i] : i \in DOMAIN wire} : f.type = "complete"}

(* awaitAcknowledged: neither the final answer nor the blob nor completeJob *)
(* leaves the worker before the acknowledgement is on the chain, also when  *)
(* the overlapped acknowledgement reverts, times out or is lost in a crash. *)
AnswerAfterAck ==
  /\ Answers # {} => job.acked
  /\ \A a \in Attempts : att[a].vh # Nil \/ doneTx[a] # "none" => job.acked

(* processJob and SetCiphertextIfAbsent: with a checkpoint store that       *)
(* answers, all frames the worker signs as the answer carry one ciphertext, *)
(* and completeJob commits to that ciphertext and to its blob, whichever of *)
(* the concurrent attempts delivers and whichever completes.                *)
CommittedIsDelivered ==
  mode.store /\ lost = 0 =>
    /\ \A f, g \in Answers : f.ct = g.ct
    /\ job.state = "Completed" =>
         job.blob = job.ct /\ Answers = {[type |-> "complete", ct |-> job.ct]}

(* readCheckpoint and MarkDelivered: asynq's retries never show the         *)
(* consumer a second final answer, nor text behind the final answer.        *)
AnsweredOnce ==
  mode.store /\ mode.entry = "task" /\ lost = 0 /\ crashes = 0 =>
    \A i, j \in DOMAIN wire :
      wire[i].type = "complete" /\ i < j => wire[j].type = "error"

(* completeJob: a job is handed to the release tracker, and its checkpoint  *)
(* tombstoned, only once it is completed on the chain, whatever the error   *)
(* of the transaction was.                                                  *)
SettledOnlyCompleted ==
  tracked \/ (mode.store /\ ckpt.tomb) => job.state = "Completed"

(* checkpoint.go: the writes of a straggler never give a tombstoned record  *)
(* its long time to live back.                                              *)
TombstoneStaysShort ==
  lost = 0 => (ckpt.tomb => ckpt.ttl = "short")

(* reportFailure: an attempt that nothing follows, also one after a crash, *)
(* has told the consumer, with an answer or with an error, unless Redis    *)
(* failed.                                                                 *)
NeverSilent ==
  mode.store /\ lost = 0 =>
    \A a \in Attempts : att[a].pc \in {"done", "dead"} =>
      \E i \in DOMAIN wire : wire[i].type # "chunk"

(* handler.go on reportFailure: it "stays silent when the answer was        *)
(* already delivered, because an error frame then would replace a delivered *)
(* answer with an error".                                                   *)
NoErrorAfterAnswer ==
  mode.entry = "task" /\ lost = 0 =>
    \A i, j \in DOMAIN wire :
      wire[i].type = "complete" /\ i < j => wire[j].type # "error"
=============================================================================
