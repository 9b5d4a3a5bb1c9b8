------------------------- MODULE JobPipelineProofs -------------------------
(***************************************************************************)
(* What the pipeline shows the consumer and commits to, for any number of  *)
(* attempts, any windows and reserves, and any faults.                     *)
(***************************************************************************)
EXTENDS JobPipeline, TLAPS

----------------------------------------------------------------------------
(* Types. *)

(* An attempt is a number. *)
LEMMA AttemptsNat == Attempts \subseteq Nat /\ Nil \notin Attempts /\ LastAttempt \in Attempts
BY PipelineAssumption, NilAssumption DEF Attempts

(* The operations of the checkpoint store return checkpoints. *)
LEMMA CheckpointType ==
  ASSUME NEW c \in Checkpoints, NEW x \in Ciphertexts \union {Nil}
  PROVE  /\ Missing \in Checkpoints
         /\ SetCiphertextIfAbsent(c, x) \in Checkpoints
         /\ SetVersionedHash(c, x) \in Checkpoints
         /\ MarkDelivered(c) \in Checkpoints
         /\ Tombstone(c) \in Checkpoints
         /\ c.ct \in Ciphertexts \union {Nil} /\ c.vh \in Ciphertexts \union {Nil}
         /\ c.delivered \in BOOLEAN /\ c.tomb \in BOOLEAN
<1>1. Missing \in Checkpoints
  BY DEF Missing, Checkpoints
<1>2. SetCiphertextIfAbsent(c, x) \in Checkpoints
  BY DEF SetCiphertextIfAbsent, HasCiphertext, Checkpoints
<1>3. SetVersionedHash(c, x) \in Checkpoints
  BY DEF SetVersionedHash, Extend, Checkpoints
<1>4. MarkDelivered(c) \in Checkpoints
  BY DEF MarkDelivered, Extend, Checkpoints
<1>5. Tombstone(c) \in Checkpoints
  BY DEF Tombstone, Checkpoints
<1>6. /\ c.ct \in Ciphertexts \union {Nil} /\ c.vh \in Ciphertexts \union {Nil}
      /\ c.delivered \in BOOLEAN /\ c.tomb \in BOOLEAN
  BY DEF Checkpoints
<1> QED  BY <1>1, <1>2, <1>3, <1>4, <1>5, <1>6

(* Edits of an attempt's locals keep their types. *)
LEMMA EditType ==
  ASSUME NEW r \in AttemptRec, NEW p \in PC, NEW c \in Checkpoints,
         NEW x \in Ciphertexts \union {Nil}, NEW b \in BOOLEAN
  PROVE  /\ [r EXCEPT !.pc = p] \in AttemptRec
         /\ [r EXCEPT !.pc = p, !.snap = c, !.clamp = b] \in AttemptRec
         /\ [r EXCEPT !.pc = p, !.snap = c, !.ct = x] \in AttemptRec
         /\ [r EXCEPT !.pc = p, !.clamp = b] \in AttemptRec
         /\ [r EXCEPT !.pc = p, !.ct = x, !.clamp = b] \in AttemptRec
         /\ [r EXCEPT !.pc = p, !.ct = x] \in AttemptRec
         /\ [r EXCEPT !.answered = b, !.pc = p] \in AttemptRec
         /\ [r EXCEPT !.vh = x, !.pc = p] \in AttemptRec
BY Zenon DEF AttemptRec

(* The locals after a step of one attempt. *)
LEMMA BecomesType ==
  ASSUME att \in [Attempts -> AttemptRec], NEW a \in Attempts
  PROVE  /\ \A r \in AttemptRec : Becomes(a, r) => att' \in [Attempts -> AttemptRec]
         /\ \A p \in PC : Goto(a, p) => att' \in [Attempts -> AttemptRec]
<1>1. \A r \in AttemptRec : Becomes(a, r) => att' \in [Attempts -> AttemptRec]
  BY Zenon DEF Becomes
<1>2. ASSUME NEW p \in PC, Goto(a, p) PROVE att' \in [Attempts -> AttemptRec]
  <2>1. [att[a] EXCEPT !.pc = p] \in AttemptRec
    BY Zenon DEF AttemptRec
  <2>2. att' = [att EXCEPT ![a] = [att[a] EXCEPT !.pc = p]]
    BY <1>2, Zenon DEF Goto
  <2> QED  BY <2>1, <2>2, Zenon
<1> QED  BY <1>1, <1>2

(* The types of what an attempt works with. *)
LEMMA LocalsType ==
  ASSUME TypeOK, NEW a \in Attempts
  PROVE  /\ att[a] \in AttemptRec /\ att[a].snap \in Checkpoints
         /\ att[a].ct \in Ciphertexts \union {Nil} /\ att[a].vh \in Ciphertexts \union {Nil}
         /\ ckpt \in Checkpoints /\ <<>> \in Seq(Frames) /\ Missing \in Checkpoints
<1>1. att[a] \in AttemptRec /\ ckpt \in Checkpoints
  BY Zenon DEF TypeOK
<1>2. /\ att[a].snap \in Checkpoints
      /\ att[a].ct \in Ciphertexts \union {Nil} /\ att[a].vh \in Ciphertexts \union {Nil}
  BY <1>1, Zenon DEF AttemptRec
<1>3. <<>> \in Seq(Frames)
  OBVIOUS
<1>4. Missing \in Checkpoints
  BY DEF Missing, Checkpoints
<1> QED  BY <1>1, <1>2, <1>3, <1>4

(* What is published are frames. *)
LEMMA FramesType ==
  ASSUME TypeOK, NEW a \in Attempts, NEW noRetry
  PROVE  /\ Streams(a) \subseteq Seq(Frames)
         /\ ReportFailure(a, noRetry) \in Seq(Frames)
         /\ [type |-> "complete", ct |-> att[a].ct] \in Frames
<1>1. [type |-> "chunk", ct |-> Nil] \in Frames /\ [type |-> "error", ct |-> Nil] \in Frames
  BY DEF Frames
<1>2. <<>> \in Seq(Frames) /\ \A f \in Frames : <<f>> \in Seq(Frames)
  OBVIOUS
<1>3. att[a].ct \in Ciphertexts \union {Nil}
  BY Zenon DEF TypeOK, AttemptRec
<1> QED  BY <1>1, <1>2, <1>3 DEF Streams, ReportFailure, ErrorFrame, Frames

(* The places an attempt may be at. *)
LEMMA PCType ==
  {"ack", "ackWait", "checkpoint", "prepare", "infer", "store", "join", "publish", "mark", "blob",
   "setHash", "complete", "doneWait", "finish", "done", "retry", "dead", "crashed"} \subseteq PC
BY DEF PC

(* The state of the transactions after a send or a block. *)
LEMMA TxType ==
  ASSUME NEW f \in [Attempts -> TxStates], NEW a \in Attempts, NEW s \in TxStates
  PROVE  [f EXCEPT ![a] = s] \in [Attempts -> TxStates]
OBVIOUS

(* A failed Redis call is counted. *)
LEMMA RedisType ==
  ASSUME TypeOK, RedisFails
  PROVE  lost' \in 0..MaxFaults /\ crashes' \in 0..MaxFaults /\ lost' > 0
BY PipelineAssumption DEF TypeOK, RedisFails

(* An attempt that goes on keeps the types. *)
LEMMA ProceedType ==
  ASSUME TypeOK, NEW a \in Attempts, NEW p \in PC, Proceed(a, p)
  PROVE  TypeOK'
<1>1. att' \in [Attempts -> AttemptRec]
  BY BecomesType, Zenon DEF Proceed, TypeOK
<1>2. UNCHANGED <<chainVars, ckpt, outVars, faultVars, mode>>
  BY DEF Proceed
<1> QED  BY <1>1, <1>2 DEF TypeOK, chainVars, outVars, faultVars

(* An attempt that fails keeps the types. *)
LEMMA FailType ==
  ASSUME TypeOK, NEW a \in Attempts, NEW noRetry, NEW s \in Seq(Frames), FailAfter(a, s, noRetry)
  PROVE  TypeOK'
<1>1. Over(a, IF Final(a, noRetry) THEN "dead" ELSE "retry") \in AttemptRec
  <2>1. att[a] \in AttemptRec /\ Missing \in Checkpoints
    BY CheckpointType, Zenon DEF TypeOK
  <2>2. (IF Final(a, noRetry) THEN "dead" ELSE "retry") \in PC
    BY DEF PC
  <2> QED  BY <2>1, <2>2, EditType, Zenon DEF Over
<1>2. att' \in [Attempts -> AttemptRec]
  BY <1>1, BecomesType, Zenon DEF FailAfter, TypeOK
<1>3. wire' \in Seq(Frames)
  <2>1. Streamed(s) \in Seq(Frames)
    BY DEF Streamed, TypeOK
  <2>2. ReportFailure(a, noRetry) \in Seq(Frames)
    BY FramesType
  <2> QED  BY <2>1, <2>2 DEF FailAfter
<1>4. UNCHANGED <<chainVars, ckpt, tracked, faultVars, mode>>
  BY DEF FailAfter
<1> QED  BY <1>2, <1>3, <1>4 DEF TypeOK, chainVars, faultVars

(* Each step of an attempt keeps the types. *)
LEMMA AttemptType ==
  ASSUME TypeOK, NEW a \in Attempts, Serve(a) \/ ProcessJob(a)
  PROVE  TypeOK'
<1> USE PCType
<1>0. /\ att[a] \in AttemptRec /\ att[a].snap \in Checkpoints
      /\ att[a].ct \in Ciphertexts \union {Nil} /\ att[a].vh \in Ciphertexts \union {Nil}
      /\ ckpt \in Checkpoints /\ <<>> \in Seq(Frames) /\ Missing \in Checkpoints
  BY LocalsType, Zenon
<1>a. ASSUME NEW noRetry, Fail(a, noRetry) PROVE TypeOK'
  BY <1>a, <1>0, FailType, Zenon DEF Fail
<1>b. ASSUME NEW p \in PC, Proceed(a, p) PROVE TypeOK'
  BY <1>b, ProceedType, Zenon
<1>c. ASSUME ReconcileAckError(a) PROVE TypeOK'
  BY <1>a, <1>b, <1>c, Zenon DEF ReconcileAckError
<1>d. ASSUME RecheckCompleted(a) PROVE TypeOK'
  BY <1>a, <1>b, <1>d DEF RecheckCompleted
<1>1. CASE Serve(a)
  BY <1>1, <1>a, <1>b DEF Serve
<1>2. CASE EnsureAcknowledged(a)
  <2>1. ASSUME ackTx' = [ackTx EXCEPT ![a] = "pool"],
               Goto(a, IF mode.overlap THEN "checkpoint" ELSE "ackWait"),
               UNCHANGED <<job, left, doneTx, ckpt, outVars, faultVars, mode>>
        PROVE  TypeOK'
    <3>1. att' \in [Attempts -> AttemptRec]
      <4>1. (IF mode.overlap THEN "checkpoint" ELSE "ackWait") \in PC
        OBVIOUS
      <4> QED  BY <4>1, <2>1, BecomesType, Zenon DEF TypeOK
    <3>2. ackTx' \in [Attempts -> TxStates]
      BY <2>1, TxType DEF TypeOK, TxStates
    <3> QED  BY <2>1, <3>1, <3>2 DEF TypeOK, outVars, faultVars
  <2> QED  BY <1>2, <1>c, <2>1 DEF EnsureAcknowledged
<1>3. CASE AwaitAck(a)
  BY <1>3, <1>c DEF AwaitAck
<1>4. CASE ReadCheckpoint(a)
  <2>1. UNCHANGED <<chainVars, ckpt, outVars, mode>>
    BY <1>4 DEF ReadCheckpoint
  <2>2. ASSUME NEW c \in Checkpoints,
               Becomes(a, [att[a] EXCEPT !.pc = AfterRead(c), !.snap = c, !.ct = c.ct])
        PROVE  att' \in [Attempts -> AttemptRec]
    <3>1. AfterRead(c) \in PC
      BY DEF AfterRead
    <3>2. c.ct \in Ciphertexts \union {Nil}
      BY CheckpointType
    <3>3. [att[a] EXCEPT !.pc = AfterRead(c), !.snap = c, !.ct = c.ct] \in AttemptRec
      BY <3>1, <3>2, <1>0, EditType, Zenon
    <3> QED  BY <3>3, <2>2, BecomesType, Zenon DEF TypeOK
  <2>3. att' \in [Attempts -> AttemptRec]
    <3>1. CASE RedisFails /\ Goto(a, "prepare")
      BY <3>1, BecomesType DEF TypeOK
    <3>2. (IF mode.store THEN ckpt ELSE Missing) \in Checkpoints
      BY <1>0
    <3> QED  BY <3>1, <3>2, <2>2, <1>4 DEF ReadCheckpoint
  <2>4. lost' \in 0..MaxFaults /\ crashes' \in 0..MaxFaults
    BY <1>4, RedisType DEF ReadCheckpoint, TypeOK, faultVars
  <2> QED  BY <2>1, <2>3, <2>4 DEF TypeOK, chainVars, outVars
<1>5. CASE PrepareInference(a)
  <2>1. ASSUME NEW r, Becomes(a, [att[a] EXCEPT !.pc = "infer", !.clamp = Clamped(r)]),
               r \in Deadlines,
               UNCHANGED <<chainVars, ckpt, outVars, faultVars, mode>>
        PROVE  TypeOK'
    <3>1. Clamped(r) \in BOOLEAN
      <4>1. (job.state # "Submitted") \in BOOLEAN
        OBVIOUS
      <4> QED  BY <4>1, <2>1, Zenon DEF Clamped, Deadlines, NoReading, Reading
    <3>2. [att[a] EXCEPT !.pc = "infer", !.clamp = Clamped(r)] \in AttemptRec
      BY <1>0, <3>1, EditType, Zenon
    <3>3. att' \in [Attempts -> AttemptRec]
      BY <2>1, <3>2, BecomesType, Zenon DEF TypeOK
    <3> QED  BY <2>1, <3>3 DEF TypeOK, chainVars, outVars, faultVars
  <2> QED  BY <1>5, <1>a, <2>1 DEF PrepareInference
<1>6. CASE RunInference(a)
  <2>1. UNCHANGED <<chainVars, ckpt, tracked, faultVars, mode>>
    BY <1>6 DEF RunInference
  <2>2. wire' \in Seq(Frames)
    <3>1. PICK s \in Streams(a) : wire' = Streamed(s)
      BY <1>6 DEF RunInference
    <3>2. s \in Seq(Frames) /\ wire \in Seq(Frames)
      BY FramesType DEF TypeOK
    <3> QED  BY <3>1, <3>2 DEF Streamed
  <2>3. att' \in [Attempts -> AttemptRec]
    <3>1. (IF mode.store THEN "store" ELSE "join") \in PC
      OBVIOUS
    <3>2. a \in Ciphertexts \union {Nil}
      BY PipelineAssumption
    <3>3. [att[a] EXCEPT !.pc = IF mode.store THEN "store" ELSE "join", !.ct = a, !.clamp = FALSE]
             \in AttemptRec
      BY <1>0, <3>1, <3>2, EditType, Zenon
    <3> QED  BY <1>6, <3>3, BecomesType, Zenon DEF TypeOK, RunInference
  <2> QED  BY <2>1, <2>2, <2>3 DEF TypeOK, chainVars, faultVars
<1>7. CASE InferenceFails(a)
  BY <1>7, FramesType, FailType DEF InferenceFails
<1>8. CASE StoreCiphertext(a)
  <2>1. UNCHANGED <<chainVars, outVars, mode>>
    BY <1>8 DEF StoreCiphertext
  <2>2. ckpt' \in Checkpoints
    BY <1>0, <1>8, CheckpointType DEF StoreCiphertext
  <2>3. att' \in [Attempts -> AttemptRec]
    <3>1. ckpt'.ct \in Ciphertexts \union {Nil}
      BY <2>2, CheckpointType
    <3>2. [att[a] EXCEPT !.pc = "join", !.ct = ckpt'.ct] \in AttemptRec
      BY <1>0, <3>1, EditType, Zenon
    <3> QED  BY <1>8, <3>2, BecomesType DEF TypeOK, StoreCiphertext
  <2>4. lost' \in 0..MaxFaults /\ crashes' \in 0..MaxFaults
    BY <1>8, RedisType DEF StoreCiphertext, TypeOK, faultVars
  <2> QED  BY <2>1, <2>2, <2>3, <2>4 DEF TypeOK, chainVars, outVars
<1>9. CASE AwaitAcknowledged(a)
  BY <1>9, <1>a, <1>b DEF AwaitAcknowledged
<1>10. CASE PublishResponse(a)
  <2>1. UNCHANGED <<chainVars, ckpt, tracked, mode>>
    BY <1>10 DEF PublishResponse
  <2>2. wire' \in Seq(Frames)
    <3>1. [type |-> "complete", ct |-> att[a].ct] \in Frames /\ wire \in Seq(Frames)
      BY FramesType DEF TypeOK
    <3>2. wire' = wire \/ wire' = Append(wire, [type |-> "complete", ct |-> att[a].ct])
      BY <1>10 DEF PublishResponse
    <3> QED  BY <3>1, <3>2
  <2>3. att' \in [Attempts -> AttemptRec]
    <3>1. (IF ~att[a].snap.delivered /\ mode.store THEN "mark" ELSE "blob") \in PC
      OBVIOUS
    <3>2. [att[a] EXCEPT !.answered = TRUE,
                !.pc = IF ~att[a].snap.delivered /\ mode.store THEN "mark" ELSE "blob"] \in AttemptRec
      BY <1>0, <3>1, EditType, Zenon
    <3> QED  BY <1>10, <3>2, BecomesType, Zenon DEF TypeOK, PublishResponse
  <2>4. lost' \in 0..MaxFaults /\ crashes' \in 0..MaxFaults
    BY <1>10, RedisType DEF PublishResponse, TypeOK, faultVars
  <2> QED  BY <2>1, <2>2, <2>3, <2>4 DEF TypeOK, chainVars
<1>11. CASE RecordDelivered(a)
  <2>1. ckpt' \in Checkpoints
    BY <1>0, <1>11, CheckpointType DEF RecordDelivered
  <2>2. att' \in [Attempts -> AttemptRec]
    BY <1>11, BecomesType DEF TypeOK, RecordDelivered
  <2>3. lost' \in 0..MaxFaults /\ crashes' \in 0..MaxFaults
    BY <1>11, RedisType DEF RecordDelivered, TypeOK, faultVars
  <2> QED  BY <1>11, <2>1, <2>2, <2>3 DEF RecordDelivered, TypeOK, chainVars, outVars
<1>12. CASE EnsureBlobSubmitted(a)
  <2>1. ASSUME NEW x \in Ciphertexts \union {Nil}, NEW p \in PC,
               Becomes(a, [att[a] EXCEPT !.vh = x, !.pc = p]),
               UNCHANGED <<chainVars, ckpt, outVars, faultVars, mode>>
        PROVE  TypeOK'
    <3>1. att' \in [Attempts -> AttemptRec]
      BY <2>1, <1>0, EditType, BecomesType, Zenon DEF TypeOK
    <3> QED  BY <2>1, <3>1 DEF TypeOK, chainVars, outVars, faultVars
  <2>2. ASSUME SubmitBlob(a) PROVE TypeOK'
    <3>1. (IF mode.store THEN "setHash" ELSE "complete") \in PC
      OBVIOUS
    <3>2. att' \in [Attempts -> AttemptRec]
      BY <2>2, <3>1, <1>0, EditType, BecomesType, Zenon DEF TypeOK, SubmitBlob
    <3> QED  BY <2>2, <3>2 DEF TypeOK, SubmitBlob, chainVars, outVars, faultVars
  <2>3. att[a].snap.vh \in Ciphertexts \union {Nil}
    BY <1>0, CheckpointType
  <2> QED  BY <1>12, <1>a, <2>1, <2>2, <2>3 DEF EnsureBlobSubmitted
<1>13. CASE RecordHash(a)
  <2>1. ckpt' \in Checkpoints
    BY <1>0, <1>13, CheckpointType DEF RecordHash
  <2>2. att' \in [Attempts -> AttemptRec]
    BY <1>13, BecomesType DEF TypeOK, RecordHash
  <2>3. lost' \in 0..MaxFaults /\ crashes' \in 0..MaxFaults
    BY <1>13, RedisType DEF RecordHash, TypeOK, faultVars
  <2> QED  BY <1>13, <2>1, <2>2, <2>3 DEF RecordHash, TypeOK, chainVars, outVars
<1>14. CASE CompleteJob(a)
  <2>1. ASSUME doneTx' = [doneTx EXCEPT ![a] = "pool"], Goto(a, "doneWait"),
               UNCHANGED <<job, left, ackTx, ckpt, outVars, faultVars, mode>>
        PROVE  TypeOK'
    <3>1. att' \in [Attempts -> AttemptRec]
      BY <2>1, BecomesType DEF TypeOK
    <3>2. doneTx' \in [Attempts -> TxStates]
      BY <2>1, TxType DEF TypeOK, TxStates
    <3> QED  BY <2>1, <3>1, <3>2 DEF TypeOK, outVars, faultVars
  <2> QED  BY <1>14, <1>d, <2>1 DEF CompleteJob
<1>15. CASE AwaitComplete(a)
  BY <1>15, <1>d DEF AwaitComplete
<1>16. CASE FinishJob(a)
  <2>1. ckpt' \in Checkpoints
    BY <1>0, <1>16, CheckpointType DEF FinishJob
  <2>2. att' \in [Attempts -> AttemptRec]
    <3>1. Over(a, "done") \in AttemptRec
      BY <1>0, EditType, Zenon DEF Over
    <3> QED  BY <1>16, <3>1, BecomesType, Zenon DEF TypeOK, FinishJob
  <2>3. lost' \in 0..MaxFaults /\ crashes' \in 0..MaxFaults
    BY <1>16, RedisType DEF FinishJob, TypeOK, faultVars
  <2>4. tracked' \in BOOLEAN
    BY <1>16, Zenon DEF FinishJob, TypeOK
  <2> QED  BY <1>16, <2>1, <2>2, <2>3, <2>4 DEF FinishJob, TypeOK, chainVars
<1> QED
  BY <1>1, <1>2, <1>3, <1>4, <1>5, <1>6, <1>7, <1>8, <1>9, <1>10, <1>11, <1>12, <1>13, <1>14,
     <1>15, <1>16 DEF ProcessJob, Acknowledge, Produce, Settle

(* The chain, time, Redis and crashes keep the types. *)
LEMMA AroundType ==
  ASSUME TypeOK, \/ \E a \in Attempts : MineAck(a) \/ MineComplete(a)
                 \/ Tick \/ Refund \/ Expire \/ Crash
  PROVE  TypeOK'
<1>1. ASSUME NEW a \in Attempts, MineAck(a) PROVE TypeOK'
  <2>1. ackTx' \in [Attempts -> TxStates]
    BY <1>1 DEF MineAck, TypeOK, TxStates
  <2>2. left' \in Nat
    BY <1>1, DeadlineAssumption DEF MineAck, TypeOK
  <2>3. job' \in [state : {"Submitted", "Acknowledged", "Completed", "Refunded"}, acked : BOOLEAN,
                  blob : Ciphertexts \union {Nil}, ct : Ciphertexts \union {Nil}]
    <3>1. job' = job \/ job' = [job EXCEPT !.state = "Acknowledged", !.acked = TRUE]
      BY <1>1 DEF MineAck
    <3> QED  BY <3>1, Zenon DEF TypeOK
  <2> QED  BY <1>1, <2>1, <2>2, <2>3 DEF MineAck, TypeOK, outVars, faultVars
<1>2. ASSUME NEW a \in Attempts, MineComplete(a) PROVE TypeOK'
  <2>1. doneTx' \in [Attempts -> TxStates]
    BY <1>2 DEF MineComplete, TypeOK, TxStates
  <2>2. job' \in [state : {"Submitted", "Acknowledged", "Completed", "Refunded"}, acked : BOOLEAN,
                  blob : Ciphertexts \union {Nil}, ct : Ciphertexts \union {Nil}]
    <3>1. job' = job \/ job' = [job EXCEPT !.state = "Completed", !.blob = att[a].vh, !.ct = att[a].ct]
      BY <1>2 DEF MineComplete
    <3> QED  BY <3>1, LocalsType, Zenon DEF TypeOK
  <2> QED  BY <1>2, <2>1, <2>2 DEF MineComplete, TypeOK, outVars, faultVars
<1>3. CASE Tick
  BY <1>3 DEF Tick, TypeOK, outVars, faultVars
<1>4. CASE Refund
  <2>1. job' \in [state : {"Submitted", "Acknowledged", "Completed", "Refunded"}, acked : BOOLEAN,
                  blob : Ciphertexts \union {Nil}, ct : Ciphertexts \union {Nil}]
    BY <1>4, Zenon DEF Refund, TypeOK
  <2> QED  BY <1>4, <2>1 DEF Refund, TypeOK, outVars, faultVars
<1>5. CASE Expire
  <2>1. ckpt' \in Checkpoints
    BY <1>5 DEF Expire, Missing, Checkpoints
  <2> QED  BY <1>5, <2>1, RedisType DEF Expire, TypeOK, chainVars, outVars
<1>6. CASE Crash
  <2>1. ASSUME NEW a \in Attempts PROVE Over(a, "crashed") \in AttemptRec
    BY LocalsType, EditType, PCType, Zenon DEF Over
  <2>2. att' \in [Attempts -> AttemptRec]
    BY <1>6, <2>1 DEF Crash, TypeOK
  <2>3. crashes' \in 0..MaxFaults
    BY <1>6, PipelineAssumption DEF Crash, TypeOK
  <2> QED  BY <1>6, <2>2, <2>3 DEF Crash, TypeOK, chainVars, outVars
<1> QED  BY <1>1, <1>2, <1>3, <1>4, <1>5, <1>6

(* The pipeline starts with the right types. *)
LEMMA InitType == Init => TypeOK
<1> SUFFICES ASSUME Init PROVE TypeOK
  OBVIOUS
<1>1. att \in [Attempts -> AttemptRec]
  BY DEF Init, NotServed, AttemptRec, PC, Missing, Checkpoints
<1>2. wire \in Seq(Frames) /\ left \in Nat /\ ckpt \in Checkpoints
  BY DeadlineAssumption DEF Init, Missing, Checkpoints
<1>6. tracked \in BOOLEAN
  BY Zenon DEF Init
<1>3. ackTx \in [Attempts -> TxStates] /\ doneTx \in [Attempts -> TxStates]
  BY DEF Init, TxStates
<1>4. lost \in 0..MaxFaults /\ crashes \in 0..MaxFaults
  BY PipelineAssumption DEF Init
<1>5. /\ job \in [state : {"Submitted", "Acknowledged", "Completed", "Refunded"}, acked : BOOLEAN,
                  blob : Ciphertexts \union {Nil}, ct : Ciphertexts \union {Nil}]
      /\ mode \in [entry : Entries, store : Stores, overlap : Overlaps]
  BY DEF Init
<1> QED  BY <1>1, <1>2, <1>3, <1>4, <1>5, <1>6 DEF TypeOK

(* Every step keeps the types. *)
LEMMA NextType == TypeOK /\ [Next]_vars => TypeOK'
<1> SUFFICES ASSUME TypeOK, [Next]_vars PROVE TypeOK'
  OBVIOUS
<1>1. CASE UNCHANGED vars
  BY <1>1 DEF vars, chainVars, outVars, faultVars, TypeOK
<1> QED  BY <1>1, AttemptType, AroundType DEF Next

(* Every variable of the pipeline keeps its type: attempts, checkpoint,    *)
(* transactions and frames.                                                *)
THEOREM TypeCorrect == Spec => []TypeOK
BY InitType, NextType, PTL DEF Spec

----------------------------------------------------------------------------
(* What a step does to the locals and to the wire. *)

(* A step of one attempt leaves the others alone. *)
LEMMA Locals ==
  ASSUME TypeOK, NEW a \in Attempts
  PROVE  /\ \A r : Becomes(a, r) => att'[a] = r /\ \A b \in Attempts : b # a => att'[b] = att[b]
         /\ \A p : Goto(a, p) =>
              /\ att'[a].pc = p /\ att'[a].snap = att[a].snap /\ att'[a].ct = att[a].ct
              /\ att'[a].vh = att[a].vh /\ att'[a].answered = att[a].answered
              /\ \A b \in Attempts : b # a => att'[b] = att[b]
<1>1. att \in [Attempts -> AttemptRec] /\ att[a] \in AttemptRec
  BY Zenon DEF TypeOK
<1>2. ASSUME NEW r, Becomes(a, r)
      PROVE  att'[a] = r /\ \A b \in Attempts : b # a => att'[b] = att[b]
  BY <1>1, <1>2, Zenon DEF Becomes
<1>3. ASSUME NEW p, Goto(a, p)
      PROVE  /\ att'[a].pc = p /\ att'[a].snap = att[a].snap /\ att'[a].ct = att[a].ct
             /\ att'[a].vh = att[a].vh /\ att'[a].answered = att[a].answered
             /\ \A b \in Attempts : b # a => att'[b] = att[b]
  BY <1>1, <1>3 DEF Goto, AttemptRec
<1> QED  BY <1>2, <1>3

(* What an attempt that ends keeps. *)
LEMMA OverFields ==
  ASSUME TypeOK, NEW a \in Attempts, NEW p
  PROVE  /\ Over(a, p).pc = p /\ Over(a, p).snap = Missing /\ Over(a, p).ct = att[a].ct
         /\ Over(a, p).vh = att[a].vh /\ Over(a, p).answered = att[a].answered
<1>1. att[a] \in AttemptRec
  BY Zenon DEF TypeOK
<1> QED  BY <1>1 DEF Over, AttemptRec

(* The final answers among some frames. *)
AnswersIn(s) == {f \in {s[i] : i \in DOMAIN s} : f.type = "complete"}

(* Somebody has told the consumer how the job ended. *)
Spoken == \E i \in DOMAIN wire : wire[i].type # "chunk"

(* Frames that are appended add their answers. *)
LEMMA AnswersAppend ==
  ASSUME NEW w \in Seq(Frames), NEW s \in Seq(Frames)
  PROVE  AnswersIn(w \o s) = AnswersIn(w) \union AnswersIn(s)
<1> DEFINE W == {w[i] : i \in DOMAIN w}
           S == {s[i] : i \in DOMAIN s}
           WS == {(w \o s)[i] : i \in DOMAIN (w \o s)}
<1>1. WS \subseteq W \union S
  <2> SUFFICES ASSUME NEW i \in DOMAIN (w \o s) PROVE (w \o s)[i] \in W \union S
    OBVIOUS
  <2>1. CASE i <= Len(w)
    BY <2>1
  <2>2. CASE i > Len(w)
    <3>1. (w \o s)[i] = s[i - Len(w)] /\ i - Len(w) \in DOMAIN s
      BY <2>2
    <3> QED  BY <3>1
  <2> QED  BY <2>1, <2>2
<1>2. W \subseteq WS
  <2> SUFFICES ASSUME NEW i \in DOMAIN w PROVE w[i] \in WS
    OBVIOUS
  <2>1. i \in DOMAIN (w \o s) /\ (w \o s)[i] = w[i]
    OBVIOUS
  <2> QED  BY <2>1
<1>3. S \subseteq WS
  <2> SUFFICES ASSUME NEW i \in DOMAIN s PROVE s[i] \in WS
    OBVIOUS
  <2>1. Len(w) + i \in DOMAIN (w \o s) /\ (w \o s)[Len(w) + i] = s[i]
    OBVIOUS
  <2> QED  BY <2>1
<1>4. WS = W \union S
  BY <1>1, <1>2, <1>3
<1> QED  BY <1>4, Zenon DEF AnswersIn

(* Chunks and errors are not answers, a complete frame is one. *)
LEMMA AnswersOne ==
  /\ AnswersIn(<<>>) = {}
  /\ \A f \in Frames : f.type # "complete" => AnswersIn(<<f>>) = {}
  /\ \A f \in Frames : f.type = "complete" => AnswersIn(<<f>>) = {f}
<1>1. AnswersIn(<<>>) = {}
  BY DEF AnswersIn
<1>2. ASSUME NEW f \in Frames PROVE {<<f>>[i] : i \in DOMAIN <<f>>} = {f}
  OBVIOUS
<1>3. ASSUME NEW f \in Frames, f.type # "complete" PROVE AnswersIn(<<f>>) = {}
  BY <1>2, <1>3 DEF AnswersIn
<1>4. ASSUME NEW f \in Frames, f.type = "complete" PROVE AnswersIn(<<f>>) = {f}
  BY <1>2, <1>4 DEF AnswersIn
<1> QED  BY <1>1, <1>3, <1>4

(* Frames that were sent stay sent. *)
LEMMA SpokenStays ==
  ASSUME wire \in Seq(Frames), NEW s \in Seq(Frames), wire' = wire \o s
  PROVE  Spoken => Spoken'
BY DEF Spoken

(* Chunks of an attempt, and what it reports, are no answers. *)
LEMMA NoAnswers ==
  ASSUME TypeOK, NEW a \in Attempts, NEW noRetry
  PROVE  /\ AnswersIn(ReportFailure(a, noRetry)) = {}
         /\ \A s \in Streams(a) \union {<<>>} : AnswersIn(s) = {}
<1>1. [type |-> "chunk", ct |-> Nil] \in Frames /\ [type |-> "error", ct |-> Nil] \in Frames
  BY DEF Frames
<1>2. /\ AnswersIn(<<[type |-> "chunk", ct |-> Nil]>>) = {}
      /\ AnswersIn(<<[type |-> "error", ct |-> Nil]>>) = {}
  BY <1>1, AnswersOne
<1>3. AnswersIn(<<>>) = {}
  BY AnswersOne
<1> QED  BY <1>2, <1>3 DEF ReportFailure, ErrorFrame, Streams

(* The wire of an attempt that streams. *)
LEMMA StreamedWire ==
  ASSUME TypeOK, NEW a \in Attempts, NEW s \in Streams(a) \union {<<>>}
  PROVE  /\ Streamed(s) \in Seq(Frames)
         /\ AnswersIn(Streamed(s)) = Answers
         /\ Streamed(s) = wire \/ Streamed(s) = wire \o s
         /\ (\E i \in DOMAIN wire : wire[i].type # "chunk") =>
              \E i \in DOMAIN Streamed(s) : Streamed(s)[i].type # "chunk"
<1>1. s \in Seq(Frames) /\ wire \in Seq(Frames) /\ AnswersIn(s) = {}
  <2>1. Streams(a) \subseteq Seq(Frames) /\ <<>> \in Seq(Frames)
    BY FramesType, LocalsType, Zenon
  <2>2. AnswersIn(s) = {}
    BY NoAnswers, Zenon
  <2> QED  BY <2>1, <2>2 DEF TypeOK
<1>2. Streamed(s) = wire \/ Streamed(s) = wire \o s
  BY DEF Streamed
<1>3. AnswersIn(wire \o s) = Answers /\ AnswersIn(wire) = Answers
  BY <1>1, AnswersAppend DEF AnswersIn, Answers
<1>4. wire \o s \in Seq(Frames) /\ \A i \in DOMAIN wire : i \in DOMAIN (wire \o s) /\ (wire \o s)[i] = wire[i]
  BY <1>1
<1>5. CASE Streamed(s) = wire
  BY <1>1, <1>3, <1>5
<1>6. CASE Streamed(s) = wire \o s
  BY <1>3, <1>4, <1>6
<1> QED  BY <1>2, <1>5, <1>6

(* A failed attempt ends, adds no answer and speaks when nothing follows.  *)
LEMMA FailEffect ==
  ASSUME TypeOK, NEW a \in Attempts, NEW noRetry, NEW s \in Streams(a) \union {<<>>},
         FailAfter(a, s, noRetry)
  PROVE  /\ att'[a].pc \in {"dead", "retry"} /\ att'[a].snap = Missing
         /\ att'[a].ct = att[a].ct /\ att'[a].vh = att[a].vh
         /\ att'[a].answered = att[a].answered
         /\ \A b \in Attempts : b # a => att'[b] = att[b]
         /\ Answers' = Answers
         /\ Spoken => Spoken'
         /\ mode.store /\ att'[a].pc = "dead" => att[a].answered \/ Spoken'
         /\ UNCHANGED <<job, left, ackTx, doneTx, ckpt, tracked, lost, crashes, mode>>
<1>1. /\ att'[a] = Over(a, IF Final(a, noRetry) THEN "dead" ELSE "retry")
      /\ \A b \in Attempts : b # a => att'[b] = att[b]
  BY Locals DEF FailAfter
<1>2. /\ att'[a].pc \in {"dead", "retry"} /\ att'[a].snap = Missing
      /\ att'[a].ct = att[a].ct /\ att'[a].vh = att[a].vh /\ att'[a].answered = att[a].answered
      /\ att'[a].pc = "dead" => Final(a, noRetry)
  BY <1>1, OverFields
<1>3. wire' = Streamed(s) \o ReportFailure(a, noRetry)
  BY DEF FailAfter
<1>4. /\ Streamed(s) \in Seq(Frames) /\ ReportFailure(a, noRetry) \in Seq(Frames)
      /\ AnswersIn(Streamed(s)) = Answers
      /\ AnswersIn(ReportFailure(a, noRetry)) = {}
  BY StreamedWire, FramesType, NoAnswers
<1>5. Answers' = Answers
  <2>1. Answers' = AnswersIn(wire')
    BY DEF Answers, AnswersIn
  <2>2. AnswersIn(Streamed(s) \o ReportFailure(a, noRetry)) =
          AnswersIn(Streamed(s)) \union AnswersIn(ReportFailure(a, noRetry))
    BY <1>4, AnswersAppend, Zenon
  <2>3. Answers' = Answers \union {}
    BY <2>1, <2>2, <1>3, <1>4, Zenon
  <2> QED  BY <2>3
<1>6. Spoken => Spoken'
  <2>1. ASSUME NEW i \in DOMAIN Streamed(s)
        PROVE  i \in DOMAIN wire' /\ wire'[i] = Streamed(s)[i]
    BY <1>3, <1>4
  <2>2. Spoken => \E i \in DOMAIN Streamed(s) : Streamed(s)[i].type # "chunk"
    BY StreamedWire, Zenon DEF Spoken
  <2> QED  BY <2>1, <2>2, Zenon DEF Spoken
<1>7. ASSUME mode.store, Final(a, noRetry), ~att[a].answered PROVE Spoken'
  <2>1. ReportFailure(a, noRetry) = <<[type |-> "error", ct |-> Nil]>>
    BY <1>7 DEF ReportFailure, ErrorFrame
  <2>2. wire'[Len(Streamed(s)) + 1].type = "error" /\ Len(Streamed(s)) + 1 \in DOMAIN wire'
    BY <1>3, <1>4, <2>1
  <2> QED  BY <2>2 DEF Spoken
<1>8. UNCHANGED <<job, left, ackTx, doneTx, ckpt, tracked, lost, crashes, mode>>
  BY DEF FailAfter, chainVars, faultVars
<1> QED  BY <1>1, <1>2, <1>5, <1>6, <1>7, <1>8

(* An attempt that goes on changes its place only. *)
LEMMA ProceedEffect ==
  ASSUME TypeOK, NEW a \in Attempts, NEW p, Proceed(a, p)
  PROVE  /\ att'[a].pc = p /\ att'[a].snap = att[a].snap /\ att'[a].ct = att[a].ct
         /\ att'[a].vh = att[a].vh /\ att'[a].answered = att[a].answered
         /\ \A b \in Attempts : b # a => att'[b] = att[b]
         /\ Answers' = Answers /\ Spoken' = Spoken
         /\ UNCHANGED <<job, left, ackTx, doneTx, ckpt, wire, tracked, lost, crashes, mode>>
<1>1. /\ UNCHANGED <<job, left, ackTx, doneTx, ckpt, wire, tracked, lost, crashes, mode>>
  BY DEF Proceed, chainVars, outVars, faultVars
<1>2. Answers' = Answers /\ Spoken' = Spoken
  BY <1>1, Zenon DEF Answers, Spoken
<1> QED  BY <1>1, <1>2, Locals DEF Proceed

(* The wire is what the answers are read from. *)
LEMMA SameWire == UNCHANGED wire => Answers' = Answers /\ Spoken' = Spoken
BY Zenon DEF Answers, Spoken

(* The other attempts are where they were. *)
OthersKept(a) == \A b \in Attempts : b # a => att'[b] = att[b]

(* The send of the acknowledgement. *)
LEMMA SendAckEffect ==
  ASSUME TypeOK, NEW a \in Attempts, ackTx' = [ackTx EXCEPT ![a] = "pool"],
         Goto(a, IF mode.overlap THEN "checkpoint" ELSE "ackWait"),
         UNCHANGED <<job, left, doneTx, ckpt, outVars, faultVars, mode>>
  PROVE  /\ att'[a].pc \in {"checkpoint", "ackWait"}
         /\ att'[a].snap = att[a].snap /\ att'[a].ct = att[a].ct /\ att'[a].vh = att[a].vh
         /\ att'[a].answered = att[a].answered
         /\ OthersKept(a)
         /\ ackTx'[a] = "pool" /\ \A b \in Attempts : b # a => ackTx'[b] = ackTx[b]
         /\ Answers' = Answers /\ Spoken' = Spoken
         /\ UNCHANGED <<job, left, doneTx, ckpt, wire, tracked, lost, crashes, mode>>
<1>1. ackTx'[a] = "pool" /\ \A b \in Attempts : b # a => ackTx'[b] = ackTx[b]
  BY DEF TypeOK
<1> QED  BY <1>1, Locals, SameWire DEF OthersKept, outVars, faultVars

(* The read of the checkpoint. *)
LEMMA ReadEffect ==
  ASSUME TypeOK, NEW a \in Attempts, ReadCheckpoint(a)
  PROVE  /\ att[a].pc = "checkpoint"
         /\ att'[a].vh = att[a].vh /\ att'[a].answered = att[a].answered
         /\ OthersKept(a) /\ Answers' = Answers /\ Spoken' = Spoken
         /\ UNCHANGED <<job, left, ackTx, doneTx, ckpt, wire, tracked, mode>>
         /\ \/ /\ att'[a].snap = IF mode.store THEN ckpt ELSE Missing
               /\ att'[a].ct = att'[a].snap.ct
               /\ att'[a].pc = IF att'[a].ct # Nil THEN "join" ELSE "prepare"
               /\ UNCHANGED <<lost, crashes>>
            \/ /\ mode.store /\ lost' > 0 /\ UNCHANGED crashes
               /\ att'[a].pc = "prepare" /\ att'[a].snap = att[a].snap /\ att'[a].ct = att[a].ct
<1>1. att[a].pc = "checkpoint" /\ UNCHANGED <<job, left, ackTx, doneTx, ckpt, wire, tracked, mode>>
  BY DEF ReadCheckpoint, At, chainVars, outVars
<1>2. Answers' = Answers /\ Spoken' = Spoken
  BY <1>1, SameWire
<1>3. att[a] \in AttemptRec
  BY LocalsType, Zenon
<1>4. ASSUME NEW c, Becomes(a, [att[a] EXCEPT !.pc = AfterRead(c), !.snap = c, !.ct = c.ct]),
             UNCHANGED faultVars, c = (IF mode.store THEN ckpt ELSE Missing)
      PROVE  /\ att'[a].vh = att[a].vh /\ att'[a].answered = att[a].answered
             /\ OthersKept(a)
             /\ att'[a].snap = IF mode.store THEN ckpt ELSE Missing
             /\ att'[a].ct = att'[a].snap.ct
             /\ att'[a].pc = IF att'[a].ct # Nil THEN "join" ELSE "prepare"
             /\ UNCHANGED <<lost, crashes>>
  <2>1. /\ att'[a] = [att[a] EXCEPT !.pc = AfterRead(c), !.snap = c, !.ct = c.ct]
        /\ OthersKept(a)
    BY <1>4, Locals, Zenon DEF OthersKept
  <2>2. /\ att'[a].pc = AfterRead(c) /\ att'[a].snap = c /\ att'[a].ct = c.ct
        /\ att'[a].vh = att[a].vh /\ att'[a].answered = att[a].answered
    BY <1>3, <2>1 DEF AttemptRec
  <2> QED  BY <1>4, <2>1, <2>2 DEF AfterRead, HasCiphertext, faultVars
<1>5. ASSUME mode.store, RedisFails, Goto(a, "prepare")
      PROVE  /\ att'[a].vh = att[a].vh /\ att'[a].answered = att[a].answered
             /\ OthersKept(a) /\ lost' > 0 /\ UNCHANGED crashes
             /\ att'[a].pc = "prepare" /\ att'[a].snap = att[a].snap /\ att'[a].ct = att[a].ct
  BY <1>5, Locals, RedisType DEF OthersKept, RedisFails
<1> QED  BY <1>1, <1>2, <1>4, <1>5 DEF ReadCheckpoint

(* The gate before the model opens. *)
LEMMA GateEffect ==
  ASSUME TypeOK, NEW a \in Attempts, NEW c,
         Becomes(a, [att[a] EXCEPT !.pc = "infer", !.clamp = c]),
         UNCHANGED <<chainVars, ckpt, outVars, faultVars, mode>>
  PROVE  /\ att'[a].pc = "infer" /\ att'[a].snap = att[a].snap /\ att'[a].ct = att[a].ct
         /\ att'[a].vh = att[a].vh /\ att'[a].answered = att[a].answered
         /\ OthersKept(a) /\ Answers' = Answers /\ Spoken' = Spoken
         /\ UNCHANGED <<job, left, ackTx, doneTx, ckpt, wire, tracked, lost, crashes, mode>>
<1>1. att[a] \in AttemptRec
  BY LocalsType, Zenon
<1>2. UNCHANGED <<job, left, ackTx, doneTx, ckpt, wire, tracked, lost, crashes, mode>>
  BY DEF chainVars, outVars, faultVars
<1>3. /\ att'[a].pc = "infer" /\ att'[a].snap = att[a].snap /\ att'[a].ct = att[a].ct
      /\ att'[a].vh = att[a].vh /\ att'[a].answered = att[a].answered /\ OthersKept(a)
  <2>1. att'[a] = [att[a] EXCEPT !.pc = "infer", !.clamp = c] /\ OthersKept(a)
    BY Locals, Zenon DEF OthersKept
  <2> QED  BY <1>1, <2>1 DEF AttemptRec
<1> QED  BY <1>2, <1>3, SameWire

(* The model answers. *)
LEMMA InferEffect ==
  ASSUME TypeOK, NEW a \in Attempts, RunInference(a)
  PROVE  /\ att[a].pc = "infer" /\ att'[a].pc = (IF mode.store THEN "store" ELSE "join")
         /\ att'[a].snap = att[a].snap /\ att'[a].ct = a
         /\ att'[a].vh = att[a].vh /\ att'[a].answered = att[a].answered
         /\ OthersKept(a) /\ Answers' = Answers /\ (Spoken => Spoken')
         /\ \E s \in Streams(a) : wire' = Streamed(s)
         /\ UNCHANGED <<job, left, ackTx, doneTx, ckpt, tracked, lost, crashes, mode>>
<1>1. att[a] \in AttemptRec
  BY LocalsType, Zenon
<1>2. /\ att[a].pc = "infer"
      /\ UNCHANGED <<job, left, ackTx, doneTx, ckpt, tracked, lost, crashes, mode>>
  BY DEF RunInference, At, chainVars, faultVars
<1>3. /\ att'[a].pc = (IF mode.store THEN "store" ELSE "join")
      /\ att'[a].snap = att[a].snap /\ att'[a].ct = a
      /\ att'[a].vh = att[a].vh /\ att'[a].answered = att[a].answered /\ OthersKept(a)
  <2>1. /\ att'[a] = [att[a] EXCEPT !.pc = IF mode.store THEN "store" ELSE "join", !.ct = a,
                                   !.clamp = FALSE]
        /\ OthersKept(a)
    BY Locals, Zenon DEF OthersKept, RunInference
  <2> QED  BY <1>1, <2>1 DEF AttemptRec
<1>4. PICK s \in Streams(a) : wire' = Streamed(s)
  BY DEF RunInference
<1>5. Answers' = AnswersIn(wire')
  BY DEF Answers, AnswersIn
<1>6. Answers' = Answers /\ (Spoken => Spoken')
  BY <1>4, <1>5, StreamedWire, Zenon DEF Spoken
<1> QED  BY <1>2, <1>3, <1>4, <1>6

(* The first ciphertext is the canonical one. *)
LEMMA StoreEffect ==
  ASSUME TypeOK, NEW a \in Attempts, StoreCiphertext(a)
  PROVE  /\ att[a].pc = "store" /\ att'[a].pc = "join" /\ att'[a].snap = att[a].snap
         /\ att'[a].vh = att[a].vh /\ att'[a].answered = att[a].answered
         /\ OthersKept(a) /\ Answers' = Answers /\ Spoken' = Spoken
         /\ UNCHANGED <<job, left, ackTx, doneTx, wire, tracked, mode>>
         /\ \/ /\ ckpt' = SetCiphertextIfAbsent(ckpt, att[a].ct) /\ att'[a].ct = ckpt'.ct
               /\ UNCHANGED <<lost, crashes>>
            \/ lost' > 0 /\ att'[a].ct = att[a].ct /\ UNCHANGED <<ckpt, crashes>>
<1>1. att[a] \in AttemptRec
  BY LocalsType, Zenon
<1>2. att[a].pc = "store" /\ UNCHANGED <<job, left, ackTx, doneTx, wire, tracked, mode>>
  BY DEF StoreCiphertext, At, chainVars, outVars
<1>3. CASE /\ ckpt' = SetCiphertextIfAbsent(ckpt, att[a].ct)
           /\ Becomes(a, [att[a] EXCEPT !.pc = "join", !.ct = ckpt'.ct])
           /\ UNCHANGED faultVars
  <2>1. /\ att'[a].pc = "join" /\ att'[a].snap = att[a].snap /\ att'[a].ct = ckpt'.ct
        /\ att'[a].vh = att[a].vh /\ att'[a].answered = att[a].answered /\ OthersKept(a)
    <3>1. att'[a] = [att[a] EXCEPT !.pc = "join", !.ct = ckpt'.ct] /\ OthersKept(a)
      BY <1>3, Locals, Zenon DEF OthersKept
    <3> QED  BY <1>1, <3>1 DEF AttemptRec
  <2> QED  BY <1>2, <1>3, <2>1, SameWire DEF faultVars
<1>4. CASE RedisFails /\ Goto(a, "join") /\ UNCHANGED ckpt
  BY <1>2, <1>4, Locals, RedisType, SameWire DEF OthersKept, RedisFails
<1> QED  BY <1>3, <1>4 DEF StoreCiphertext

(* The answer is published, unless it was delivered before. *)
LEMMA PublishEffect ==
  ASSUME TypeOK, NEW a \in Attempts, PublishResponse(a)
  PROVE  /\ att[a].pc = "publish"
         /\ att'[a].pc = (IF ~att[a].snap.delivered /\ mode.store THEN "mark" ELSE "blob")
         /\ att'[a].snap = att[a].snap /\ att'[a].ct = att[a].ct /\ att'[a].vh = att[a].vh
         /\ OthersKept(a) /\ (Spoken => Spoken')
         /\ UNCHANGED <<job, left, ackTx, doneTx, ckpt, tracked, mode>>
         /\ \/ /\ att[a].snap.delivered /\ UNCHANGED <<wire, lost, crashes>>
               /\ Answers' = Answers
            \/ /\ ~att[a].snap.delivered /\ UNCHANGED <<lost, crashes>>
               /\ wire' = Append(wire, [type |-> "complete", ct |-> att[a].ct])
               /\ Answers' = Answers \union {[type |-> "complete", ct |-> att[a].ct]}
            \/ lost' > 0 /\ UNCHANGED <<wire, crashes>> /\ Answers' = Answers
<1> DEFINE f == [type |-> "complete", ct |-> att[a].ct]
<1>1. att[a] \in AttemptRec /\ f \in Frames /\ wire \in Seq(Frames)
  BY LocalsType, FramesType, Zenon DEF TypeOK
<1>2. att[a].pc = "publish" /\ UNCHANGED <<job, left, ackTx, doneTx, ckpt, tracked, mode>>
  BY DEF PublishResponse, At, chainVars
<1>3. /\ att'[a].pc = (IF ~att[a].snap.delivered /\ mode.store THEN "mark" ELSE "blob")
      /\ att'[a].snap = att[a].snap /\ att'[a].ct = att[a].ct /\ att'[a].vh = att[a].vh
      /\ OthersKept(a)
  <2>1. /\ att'[a] = [att[a] EXCEPT !.answered = TRUE,
                        !.pc = IF ~att[a].snap.delivered /\ mode.store THEN "mark" ELSE "blob"]
        /\ OthersKept(a)
    BY Locals, Zenon DEF OthersKept, PublishResponse
  <2> QED  BY <1>1, <2>1 DEF AttemptRec
<1>4. CASE UNCHANGED wire
  <2>1. Answers' = Answers /\ Spoken' = Spoken
    BY <1>4, SameWire
  <2>2. \/ att[a].snap.delivered /\ UNCHANGED <<wire, lost, crashes>>
        \/ lost' > 0 /\ UNCHANGED <<wire, crashes>>
        \/ /\ ~att[a].snap.delivered /\ UNCHANGED <<lost, crashes>>
           /\ wire' = Append(wire, f)
    BY <1>4, RedisType DEF PublishResponse, faultVars, RedisFails
  <2>3. wire' # Append(wire, f)
    BY <1>4, <1>1
  <2> QED  BY <1>2, <1>3, <2>1, <2>2, <2>3
<1>5. CASE /\ ~att[a].snap.delivered /\ UNCHANGED <<lost, crashes>>
           /\ wire' = Append(wire, f)
  <2>1. wire' = wire \o <<f>>
    BY <1>1, <1>5
  <2>2. Answers' = Answers \union {f}
    <3>1. Answers' = AnswersIn(wire \o <<f>>) /\ AnswersIn(wire) = Answers
      BY <2>1 DEF Answers, AnswersIn
    <3>2. AnswersIn(<<f>>) = {f} /\ <<f>> \in Seq(Frames)
      BY <1>1, AnswersOne
    <3> QED  BY <3>1, <3>2, <1>1, AnswersAppend, Zenon
  <2>3. Spoken => Spoken'
    BY <1>1, <1>5 DEF Spoken
  <2> QED  BY <1>2, <1>3, <1>5, <2>2, <2>3
<1> QED
  <2> HIDE DEF f
  <2>1. \/ UNCHANGED wire
        \/ ~att[a].snap.delivered /\ UNCHANGED faultVars /\ wire' = Append(wire, f)
    BY DEF PublishResponse, f
  <2> QED  BY <2>1, <1>4, <1>5 DEF faultVars

(* The delivery is recorded. *)
LEMMA RecordEffect ==
  ASSUME TypeOK, NEW a \in Attempts, RecordDelivered(a)
  PROVE  /\ att[a].pc = "mark" /\ att'[a].pc = "blob" /\ att'[a].snap = att[a].snap
         /\ att'[a].ct = att[a].ct /\ att'[a].vh = att[a].vh
         /\ att'[a].answered = att[a].answered
         /\ OthersKept(a) /\ Answers' = Answers /\ Spoken' = Spoken
         /\ UNCHANGED <<job, left, ackTx, doneTx, wire, tracked, crashes, mode>>
         /\ (ckpt' = MarkDelivered(ckpt) /\ UNCHANGED lost) \/ (lost' > 0 /\ UNCHANGED ckpt)
<1>1. UNCHANGED <<job, left, ackTx, doneTx, wire, tracked, crashes, mode>> /\ att[a].pc = "mark"
  BY DEF RecordDelivered, chainVars, outVars, faultVars, RedisFails, At
<1>2. (ckpt' = MarkDelivered(ckpt) /\ UNCHANGED lost) \/ (lost' > 0 /\ UNCHANGED ckpt)
  BY RedisType DEF RecordDelivered, faultVars
<1> QED  BY <1>1, <1>2, Locals, SameWire DEF RecordDelivered, OthersKept

(* The blob is sent, or the hash of the checkpoint is taken. *)
LEMMA BlobEffect ==
  ASSUME TypeOK, NEW a \in Attempts, NEW x, NEW p,
         Becomes(a, [att[a] EXCEPT !.vh = x, !.pc = p]),
         UNCHANGED <<chainVars, ckpt, outVars, faultVars, mode>>
  PROVE  /\ att'[a].pc = p /\ att'[a].snap = att[a].snap /\ att'[a].ct = att[a].ct
         /\ att'[a].vh = x /\ att'[a].answered = att[a].answered
         /\ OthersKept(a) /\ Answers' = Answers /\ Spoken' = Spoken
         /\ UNCHANGED <<job, left, ackTx, doneTx, ckpt, wire, tracked, lost, crashes, mode>>
<1>1. UNCHANGED <<job, left, ackTx, doneTx, ckpt, wire, tracked, lost, crashes, mode>>
  BY DEF chainVars, outVars, faultVars
<1>2. /\ att'[a].pc = p /\ att'[a].snap = att[a].snap /\ att'[a].ct = att[a].ct
      /\ att'[a].vh = x /\ att'[a].answered = att[a].answered /\ OthersKept(a)
  <2>1. att[a] \in AttemptRec
    BY LocalsType, Zenon
  <2>2. OthersKept(a) /\ att'[a] = [att[a] EXCEPT !.vh = x, !.pc = p]
    BY Locals, Zenon DEF OthersKept
  <2> QED  BY <2>1, <2>2 DEF AttemptRec
<1> QED  BY <1>1, <1>2, SameWire

(* The hash is recorded. *)
LEMMA HashEffect ==
  ASSUME TypeOK, NEW a \in Attempts, RecordHash(a)
  PROVE  /\ att[a].pc = "setHash" /\ att'[a].pc = "complete" /\ att'[a].snap = att[a].snap
         /\ att'[a].ct = att[a].ct /\ att'[a].vh = att[a].vh
         /\ att'[a].answered = att[a].answered
         /\ OthersKept(a) /\ Answers' = Answers /\ Spoken' = Spoken
         /\ UNCHANGED <<job, left, ackTx, doneTx, wire, tracked, crashes, mode>>
         /\ \/ ckpt' = SetVersionedHash(ckpt, att[a].vh) /\ UNCHANGED lost
            \/ lost' > 0 /\ UNCHANGED ckpt
<1>1. UNCHANGED <<job, left, ackTx, doneTx, wire, tracked, crashes, mode>> /\ att[a].pc = "setHash"
  BY DEF RecordHash, chainVars, outVars, faultVars, RedisFails, At
<1>2. \/ ckpt' = SetVersionedHash(ckpt, att[a].vh) /\ UNCHANGED lost
      \/ lost' > 0 /\ UNCHANGED ckpt
  BY RedisType DEF RecordHash, faultVars
<1> QED  BY <1>1, <1>2, Locals, SameWire DEF RecordHash, OthersKept

(* The send of completeJob. *)
LEMMA SendDoneEffect ==
  ASSUME TypeOK, NEW a \in Attempts, doneTx' = [doneTx EXCEPT ![a] = "pool"], Goto(a, "doneWait"),
         UNCHANGED <<job, left, ackTx, ckpt, outVars, faultVars, mode>>
  PROVE  /\ att'[a].pc = "doneWait"
         /\ att'[a].snap = att[a].snap /\ att'[a].ct = att[a].ct /\ att'[a].vh = att[a].vh
         /\ att'[a].answered = att[a].answered
         /\ OthersKept(a)
         /\ doneTx'[a] = "pool" /\ \A b \in Attempts : b # a => doneTx'[b] = doneTx[b]
         /\ Answers' = Answers /\ Spoken' = Spoken
         /\ UNCHANGED <<job, left, ackTx, ckpt, wire, tracked, lost, crashes, mode>>
<1>1. doneTx'[a] = "pool" /\ \A b \in Attempts : b # a => doneTx'[b] = doneTx[b]
  BY DEF TypeOK
<1> QED  BY <1>1, Locals, SameWire DEF OthersKept, outVars, faultVars

(* The job is handed to the tracker and its checkpoint tombstoned. *)
LEMMA FinishEffect ==
  ASSUME TypeOK, NEW a \in Attempts, FinishJob(a)
  PROVE  /\ att[a].pc = "finish" /\ att'[a].pc = "done" /\ att'[a].snap = Missing
         /\ att'[a].ct = att[a].ct /\ att'[a].vh = att[a].vh
         /\ att'[a].answered = att[a].answered
         /\ OthersKept(a) /\ Answers' = Answers /\ Spoken' = Spoken
         /\ UNCHANGED <<job, left, ackTx, doneTx, wire, crashes, mode>>
         /\ \/ ckpt' = (IF mode.store THEN Tombstone(ckpt) ELSE ckpt) /\ UNCHANGED lost
            \/ lost' > 0 /\ UNCHANGED ckpt
<1>1. UNCHANGED <<job, left, ackTx, doneTx, wire, crashes, mode>> /\ att[a].pc = "finish"
  BY DEF FinishJob, chainVars, faultVars, RedisFails, At
<1>2. \/ ckpt' = (IF mode.store THEN Tombstone(ckpt) ELSE ckpt) /\ UNCHANGED lost
      \/ lost' > 0 /\ UNCHANGED ckpt
  BY RedisType DEF FinishJob, faultVars
<1>3. att'[a] = Over(a, "done") /\ OthersKept(a)
  BY Locals, Zenon DEF FinishJob, OthersKept
<1> QED  BY <1>1, <1>2, <1>3, OverFields, SameWire

(* A crash ends the attempts that run. *)
LEMMA CrashEffect ==
  ASSUME TypeOK, Crash
  PROVE  /\ \A a \in Attempts :
              \/ att'[a] = att[a]
              \/ /\ att'[a].pc = "crashed" /\ att'[a].snap = Missing /\ att'[a].ct = att[a].ct
                 /\ att'[a].vh = att[a].vh /\ att'[a].answered = att[a].answered
         /\ Answers' = Answers /\ Spoken' = Spoken
         /\ UNCHANGED <<job, left, ackTx, doneTx, ckpt, wire, tracked, lost, mode>>
         /\ crashes' > 0
<1>1. UNCHANGED <<job, left, ackTx, doneTx, ckpt, wire, tracked, lost, mode>>
  BY DEF Crash, chainVars, outVars
<1>2. ASSUME NEW a \in Attempts
      PROVE  att'[a] = att[a] \/ att'[a] = Over(a, "crashed")
  BY DEF Crash
<1>3. crashes' > 0
  BY PipelineAssumption DEF Crash, TypeOK
<1> QED  BY <1>1, <1>2, <1>3, OverFields, SameWire

----------------------------------------------------------------------------
(* The acknowledgement. *)

(* Between the send of the acknowledgement and its join, and after it. *)
Joining == {"checkpoint", "prepare", "infer", "store", "join"}
Joined == {"publish", "mark", "blob", "setHash", "complete", "doneWait", "finish"}

(* An attempt that is past the join, or that sent no acknowledgement since *)
(* it found one, knows the job to be acknowledged.                         *)
AckSafe(a) ==
  /\ ackTx[a] = "mined" => job.acked
  /\ att[a].pc \in Joining /\ ackTx[a] = "none" => job.acked
  /\ att[a].pc \in Joined \/ att[a].vh # Nil \/ doneTx[a] # "none" => job.acked

AckInv == (Answers # {} => job.acked) /\ \A a \in Attempts : AckSafe(a)

(* The others know what they knew. *)
LEMMA AckSafeOthers ==
  ASSUME AckInv, NEW b \in Attempts, att'[b] = att[b], ackTx'[b] = ackTx[b], doneTx'[b] = doneTx[b],
         job.acked => job'.acked
  PROVE  AckSafe(b)'
BY Zenon DEF AckInv, AckSafe

(* Each step of an attempt keeps what is known of the acknowledgement. *)
LEMMA AttemptAck ==
  ASSUME TypeOK, AckInv, NEW a \in Attempts, Serve(a) \/ ProcessJob(a)
  PROVE  AckInv'
<1> USE DEF AckSafe, Joining, Joined
<1>0. AckSafe(a) /\ (Answers # {} => job.acked)
  BY Zenon DEF AckInv
<1>1. ASSUME UNCHANGED job, Answers' # {} => job.acked, AckSafe(a)', OthersKept(a),
             \A b \in Attempts : b # a => ackTx'[b] = ackTx[b] /\ doneTx'[b] = doneTx[b]
      PROVE  AckInv'
  <2> HIDE DEF AckSafe
  <2> QED  BY <1>1, AckSafeOthers, Zenon DEF AckInv, OthersKept
<1>a. ASSUME NEW noRetry, NEW s \in Streams(a) \union {<<>>}, FailAfter(a, s, noRetry)
      PROVE  AckInv'
  <2>1. AckSafe(a)' /\ OthersKept(a)
    BY <1>0, <1>a, FailEffect DEF OthersKept
  <2> QED  BY <2>1, <1>0, <1>1, <1>a, FailEffect
<1>b. ASSUME NEW p, Proceed(a, p), p \in Joining \union Joined => job.acked
      PROVE  AckInv'
  <2>1. AckSafe(a)' /\ OthersKept(a)
    BY <1>0, <1>b, ProceedEffect DEF OthersKept
  <2> QED  BY <2>1, <1>0, <1>1, <1>b, ProceedEffect
<1>2. CASE Serve(a)
  BY <1>2, <1>a, <1>b DEF Serve, Fail
<1>3. CASE EnsureAcknowledged(a)
  <2>1. ASSUME ackTx' = [ackTx EXCEPT ![a] = "pool"],
               Goto(a, IF mode.overlap THEN "checkpoint" ELSE "ackWait"),
               UNCHANGED <<job, left, doneTx, ckpt, outVars, faultVars, mode>>, At(a, "ack")
        PROVE  AckInv'
    <3>1. AckSafe(a)'
      BY <1>0, <2>1, SendAckEffect
    <3> QED  BY <2>1, <3>1, <1>0, <1>1, SendAckEffect
  <2> QED  BY <1>3, <1>a, <1>b, <2>1 DEF EnsureAcknowledged, ReconcileAckError, Fail
<1>4. CASE AwaitAck(a)
  BY <1>4, <1>a, <1>b DEF AwaitAck, ReconcileAckError, Fail
<1>5. CASE ReadCheckpoint(a)
  <2>1. AckSafe(a)'
    BY <1>0, <1>5, ReadEffect
  <2> QED  BY <2>1, <1>0, <1>1, <1>5, ReadEffect
<1>6. CASE PrepareInference(a)
  <2>1. ASSUME NEW c, Becomes(a, [att[a] EXCEPT !.pc = "infer", !.clamp = c]),
               UNCHANGED <<chainVars, ckpt, outVars, faultVars, mode>>, At(a, "prepare")
        PROVE  AckInv'
    <3>1. AckSafe(a)'
      BY <1>0, <2>1, GateEffect DEF At
    <3> QED  BY <2>1, <3>1, <1>0, <1>1, GateEffect
  <2> QED  BY <1>6, <1>a, <2>1 DEF PrepareInference, Fail
<1>7. CASE RunInference(a)
  <2>1. AckSafe(a)'
    BY <1>0, <1>7, InferEffect
  <2> QED  BY <2>1, <1>0, <1>1, <1>7, InferEffect
<1>8. CASE InferenceFails(a)
  BY <1>8, <1>a DEF InferenceFails
<1>9. CASE StoreCiphertext(a)
  <2>1. AckSafe(a)'
    BY <1>0, <1>9, StoreEffect
  <2> QED  BY <2>1, <1>0, <1>1, <1>9, StoreEffect
<1>10. CASE AwaitAcknowledged(a)
  BY <1>10, <1>0, <1>a, <1>b DEF AwaitAcknowledged, At, Fail
<1>11. CASE PublishResponse(a)
  <2>1. AckSafe(a)' /\ job.acked
    BY <1>0, <1>11, PublishEffect
  <2> QED  BY <2>1, <1>1, <1>11, PublishEffect
<1>12. CASE RecordDelivered(a)
  <2>1. AckSafe(a)'
    BY <1>0, <1>12, RecordEffect
  <2> QED  BY <2>1, <1>0, <1>1, <1>12, RecordEffect
<1>13. CASE EnsureBlobSubmitted(a)
  <2>1. ASSUME NEW x, NEW p, At(a, "blob"),
               Becomes(a, [att[a] EXCEPT !.vh = x, !.pc = p]),
               UNCHANGED <<chainVars, ckpt, outVars, faultVars, mode>>
        PROVE  AckInv'
    <3>1. AckSafe(a)'
      BY <1>0, <2>1, BlobEffect DEF At
    <3> QED  BY <2>1, <3>1, <1>0, <1>1, BlobEffect
  <2> QED  BY <1>13, <1>a, <2>1 DEF EnsureBlobSubmitted, SubmitBlob, Fail
<1>14. CASE RecordHash(a)
  <2>1. AckSafe(a)'
    BY <1>0, <1>14, HashEffect
  <2> QED  BY <2>1, <1>0, <1>1, <1>14, HashEffect
<1>15. CASE CompleteJob(a)
  <2>1. ASSUME doneTx' = [doneTx EXCEPT ![a] = "pool"], Goto(a, "doneWait"), At(a, "complete"),
               UNCHANGED <<job, left, ackTx, ckpt, outVars, faultVars, mode>>
        PROVE  AckInv'
    <3>1. AckSafe(a)'
      BY <1>0, <2>1, SendDoneEffect DEF At
    <3> QED  BY <2>1, <3>1, <1>0, <1>1, SendDoneEffect
  <2>2. ASSUME RecheckCompleted(a), At(a, "complete") PROVE AckInv'
    BY <2>2, <1>0, <1>a, <1>b DEF RecheckCompleted, Fail, At
  <2> QED  BY <1>15, <2>1, <2>2 DEF CompleteJob
<1>16. CASE AwaitComplete(a)
  BY <1>16, <1>0, <1>a, <1>b DEF AwaitComplete, RecheckCompleted, Fail, At
<1>17. CASE FinishJob(a)
  <2>1. AckSafe(a)'
    BY <1>0, <1>17, FinishEffect
  <2> QED  BY <2>1, <1>0, <1>1, <1>17, FinishEffect
<1> QED
  BY <1>2, <1>3, <1>4, <1>5, <1>6, <1>7, <1>8, <1>9, <1>10, <1>11, <1>12, <1>13, <1>14,
     <1>15, <1>16, <1>17 DEF ProcessJob, Acknowledge, Produce, Settle

(* So do the chain, time, Redis and crashes. *)
LEMMA AroundAck ==
  ASSUME TypeOK, AckInv, \/ \E a \in Attempts : MineAck(a) \/ MineComplete(a)
                         \/ Tick \/ Refund \/ Expire \/ Crash \/ UNCHANGED vars
  PROVE  AckInv'
<1>1. ASSUME NEW a \in Attempts, MineAck(a) PROVE AckInv'
  <2>1. UNCHANGED <<doneTx, att, wire>> /\ Answers' = Answers
    BY <1>1, SameWire DEF MineAck, outVars
  <2>2. job.acked => job'.acked
    BY <1>1 DEF MineAck, TypeOK
  <2>3. \A b \in Attempts : b # a => ackTx'[b] = ackTx[b]
    BY <1>1 DEF MineAck, TypeOK
  <2>4. ackTx'[a] # "none" /\ (ackTx'[a] = "mined" => job'.acked)
    BY <1>1 DEF MineAck, TypeOK
  <2>5. AckSafe(a)'
    BY <2>1, <2>2, <2>4 DEF AckSafe, AckInv
  <2> QED  BY <2>1, <2>2, <2>3, <2>5, AckSafeOthers, Zenon DEF AckInv
<1>2. ASSUME NEW a \in Attempts, MineComplete(a) PROVE AckInv'
  <2>1. UNCHANGED <<ackTx, att, wire>> /\ Answers' = Answers
    BY <1>2, SameWire DEF MineComplete, outVars
  <2>2. job'.acked = job.acked
    BY <1>2 DEF MineComplete, TypeOK
  <2>3. \A b \in Attempts : b # a => doneTx'[b] = doneTx[b]
    BY <1>2 DEF MineComplete, TypeOK
  <2>4. job.acked
    BY <1>2 DEF MineComplete, AckInv, AckSafe
  <2> QED  BY <2>1, <2>2, <2>4 DEF AckInv, AckSafe
<1>3. CASE Tick \/ Refund \/ Expire \/ UNCHANGED vars
  <2>1. UNCHANGED <<ackTx, doneTx, att, wire>> /\ Answers' = Answers /\ (job.acked => job'.acked)
    BY <1>3, SameWire DEF Tick, Refund, Expire, vars, chainVars, outVars, TypeOK
  <2> QED  BY <2>1, AckSafeOthers, Zenon DEF AckInv
<1>4. CASE Crash
  BY <1>4, CrashEffect DEF AckInv, AckSafe, Joining, Joined
<1> QED  BY <1>1, <1>2, <1>3, <1>4

(* No answer, blob or completion leaves the worker before the              *)
(* acknowledgement is on the chain (awaitAcknowledged), whatever fails.    *)
THEOREM AckFirst == Spec => []AnswerAfterAck
<1>1. Init => AckInv
  <2> SUFFICES ASSUME Init PROVE AckInv
    OBVIOUS
  <2>1. Answers = {}
    BY DEF Init, Answers
  <2> QED  BY <2>1 DEF Init, AckInv, AckSafe, NotServed, Joining, Joined
<1>2. TypeOK /\ AckInv /\ [Next]_vars => AckInv'
  BY AttemptAck, AroundAck DEF Next
<1>3. AckInv => AnswerAfterAck
  BY DEF AckInv, AckSafe, AnswerAfterAck
<1> QED  BY <1>1, <1>2, <1>3, TypeCorrect, PTL DEF Spec

----------------------------------------------------------------------------
(* The checkpoint. *)

(* What the operations of the checkpoint store leave alone. *)
LEMMA CheckpointFields ==
  ASSUME NEW c \in Checkpoints, NEW x
  PROVE  /\ SetCiphertextIfAbsent(c, x).ct = (IF c.ct # Nil THEN c.ct ELSE x)
         /\ SetCiphertextIfAbsent(c, x).vh = c.vh
         /\ SetCiphertextIfAbsent(c, x).delivered = c.delivered
         /\ SetCiphertextIfAbsent(c, x).tomb = c.tomb
         /\ c.ct # Nil => SetCiphertextIfAbsent(c, x).ttl = c.ttl
         /\ SetVersionedHash(c, x).ct = c.ct /\ SetVersionedHash(c, x).vh = x
         /\ SetVersionedHash(c, x).delivered = c.delivered
         /\ SetVersionedHash(c, x).tomb = c.tomb
         /\ c.tomb => SetVersionedHash(c, x).ttl = c.ttl
         /\ MarkDelivered(c).ct = c.ct /\ MarkDelivered(c).vh = c.vh
         /\ MarkDelivered(c).delivered /\ MarkDelivered(c).tomb = c.tomb
         /\ c.tomb => MarkDelivered(c).ttl = c.ttl
         /\ Tombstone(c).ct = c.ct /\ Tombstone(c).vh = c.vh
         /\ Tombstone(c).delivered = c.delivered /\ Tombstone(c).ttl = "short"
<1>1. /\ SetCiphertextIfAbsent(c, x).ct = (IF c.ct # Nil THEN c.ct ELSE x)
      /\ SetCiphertextIfAbsent(c, x).vh = c.vh
      /\ SetCiphertextIfAbsent(c, x).delivered = c.delivered
      /\ SetCiphertextIfAbsent(c, x).tomb = c.tomb
      /\ c.ct # Nil => SetCiphertextIfAbsent(c, x).ttl = c.ttl
  BY DEF SetCiphertextIfAbsent, HasCiphertext, Checkpoints
<1>2. /\ SetVersionedHash(c, x).ct = c.ct /\ SetVersionedHash(c, x).vh = x
      /\ SetVersionedHash(c, x).delivered = c.delivered
      /\ SetVersionedHash(c, x).tomb = c.tomb
      /\ c.tomb => SetVersionedHash(c, x).ttl = c.ttl
  BY DEF SetVersionedHash, Extend, Checkpoints
<1>3. /\ MarkDelivered(c).ct = c.ct /\ MarkDelivered(c).vh = c.vh
      /\ MarkDelivered(c).delivered /\ MarkDelivered(c).tomb = c.tomb
      /\ c.tomb => MarkDelivered(c).ttl = c.ttl
  BY DEF MarkDelivered, Extend, Checkpoints
<1>4. /\ Tombstone(c).ct = c.ct /\ Tombstone(c).vh = c.vh
      /\ Tombstone(c).delivered = c.delivered /\ Tombstone(c).ttl = "short"
  BY DEF Tombstone, Checkpoints
<1> QED  BY <1>1, <1>2, <1>3, <1>4

----------------------------------------------------------------------------
(* The end of a job. *)

(* Only a job that is completed on the chain is finished. *)
SettledInv ==
  /\ tracked \/ ckpt.tomb => job.state = "Completed"
  /\ \A a \in Attempts : att[a].pc = "finish" => job.state = "Completed"

(* An attempt reaches its end only when the chain says that the job is     *)
(* completed, and only there it tells the tracker and sets the tombstone.  *)
LEMMA AttemptSettled ==
  ASSUME TypeOK, SettledInv, NEW a \in Attempts, Serve(a) \/ ProcessJob(a)
  PROVE  SettledInv'
<1>0. ckpt \in Checkpoints
  BY DEF TypeOK
<1>1. ASSUME UNCHANGED job, OthersKept(a), att'[a].pc = "finish" => job.state = "Completed",
             tracked' = tracked \/ job.state = "Completed",
             ckpt'.tomb = ckpt.tomb \/ job.state = "Completed"
      PROVE  SettledInv'
  BY <1>1 DEF SettledInv, OthersKept
<1>a. ASSUME NEW noRetry, NEW s \in Streams(a) \union {<<>>}, FailAfter(a, s, noRetry)
      PROVE  SettledInv'
  <2>1. OthersKept(a) /\ att'[a].pc # "finish"
    BY <1>a, FailEffect DEF OthersKept
  <2> QED  BY <2>1, <1>1, <1>a, FailEffect
<1>b. ASSUME NEW p, Proceed(a, p), p = "finish" => job.state = "Completed"
      PROVE  SettledInv'
  <2>1. OthersKept(a)
    BY <1>b, ProceedEffect DEF OthersKept
  <2> QED  BY <2>1, <1>1, <1>b, ProceedEffect
<1>2. CASE Serve(a)
  BY <1>2, <1>a, <1>b DEF Serve, Fail
<1>3. CASE EnsureAcknowledged(a)
  <2>1. ASSUME ackTx' = [ackTx EXCEPT ![a] = "pool"],
               Goto(a, IF mode.overlap THEN "checkpoint" ELSE "ackWait"),
               UNCHANGED <<job, left, doneTx, ckpt, outVars, faultVars, mode>>
        PROVE  SettledInv'
    BY <2>1, <1>1, SendAckEffect
  <2> QED  BY <1>3, <1>a, <1>b, <2>1 DEF EnsureAcknowledged, ReconcileAckError, Fail
<1>4. CASE AwaitAck(a)
  BY <1>4, <1>a, <1>b DEF AwaitAck, ReconcileAckError, Fail
<1>5. CASE ReadCheckpoint(a)
  BY <1>1, <1>5, ReadEffect
<1>6. CASE PrepareInference(a)
  <2>1. ASSUME NEW c, Becomes(a, [att[a] EXCEPT !.pc = "infer", !.clamp = c]),
               UNCHANGED <<chainVars, ckpt, outVars, faultVars, mode>>
        PROVE  SettledInv'
    BY <2>1, <1>1, GateEffect
  <2> QED  BY <1>6, <1>a, <2>1 DEF PrepareInference, Fail
<1>7. CASE RunInference(a)
  BY <1>1, <1>7, InferEffect
<1>8. CASE InferenceFails(a)
  BY <1>8, <1>a DEF InferenceFails
<1>9. CASE StoreCiphertext(a)
  BY <1>0, <1>1, <1>9, StoreEffect, CheckpointFields
<1>10. CASE AwaitAcknowledged(a)
  BY <1>10, <1>a, <1>b DEF AwaitAcknowledged, Fail
<1>11. CASE PublishResponse(a)
  BY <1>1, <1>11, PublishEffect
<1>12. CASE RecordDelivered(a)
  BY <1>0, <1>1, <1>12, RecordEffect, CheckpointFields
<1>13. CASE EnsureBlobSubmitted(a)
  <2>1. ASSUME NEW x, NEW p, Becomes(a, [att[a] EXCEPT !.vh = x, !.pc = p]),
               UNCHANGED <<chainVars, ckpt, outVars, faultVars, mode>>
        PROVE  p # "finish" => SettledInv'
    <3>1. OthersKept(a)
      BY <2>1, BlobEffect
    <3>2. att[a] \in AttemptRec /\ att'[a] = [att[a] EXCEPT !.vh = x, !.pc = p]
      BY <2>1, Locals, LocalsType, Zenon
    <3>3. att'[a].pc = p
      BY <3>2 DEF AttemptRec
    <3>4. UNCHANGED <<job, ckpt, tracked>>
      BY <2>1 DEF chainVars, outVars
    <3> QED  BY <3>1, <3>3, <3>4, <1>1
  <2> QED  BY <1>13, <1>a, <2>1 DEF EnsureBlobSubmitted, SubmitBlob, Fail
<1>14. CASE RecordHash(a)
  BY <1>0, <1>1, <1>14, HashEffect, CheckpointFields
<1>15. CASE CompleteJob(a)
  <2>1. ASSUME doneTx' = [doneTx EXCEPT ![a] = "pool"], Goto(a, "doneWait"),
               UNCHANGED <<job, left, ackTx, ckpt, outVars, faultVars, mode>>
        PROVE  SettledInv'
    BY <2>1, <1>1, SendDoneEffect
  <2> QED  BY <1>15, <1>a, <1>b, <2>1 DEF CompleteJob, RecheckCompleted, Fail
<1>16. CASE AwaitComplete(a)
  BY <1>16, <1>a, <1>b DEF AwaitComplete, RecheckCompleted, Fail
<1>17. CASE FinishJob(a)
  <2>1. job.state = "Completed"
    BY <1>17, FinishEffect DEF SettledInv
  <2> QED  BY <2>1, <1>1, <1>17, FinishEffect
<1> QED
  BY <1>2, <1>3, <1>4, <1>5, <1>6, <1>7, <1>8, <1>9, <1>10, <1>11, <1>12, <1>13, <1>14,
     <1>15, <1>16, <1>17 DEF ProcessJob, Acknowledge, Produce, Settle

(* A completed job stays completed. *)
LEMMA AroundSettled ==
  ASSUME TypeOK, SettledInv, \/ \E a \in Attempts : MineAck(a) \/ MineComplete(a)
                             \/ Tick \/ Refund \/ Expire \/ Crash \/ UNCHANGED vars
  PROVE  SettledInv'
<1>1. ASSUME UNCHANGED <<ckpt, att, tracked>>, job.state = "Completed" => job'.state = "Completed"
      PROVE  SettledInv'
  BY <1>1 DEF SettledInv
<1>2. ASSUME NEW a \in Attempts, MineAck(a) PROVE SettledInv'
  <2>1. job.state = "Completed" => job'.state = "Completed"
    BY <1>2 DEF MineAck
  <2> QED  BY <1>1, <1>2, <2>1 DEF MineAck, outVars
<1>3. ASSUME NEW a \in Attempts, MineComplete(a) PROVE SettledInv'
  <2>1. job.state = "Completed" => job'.state = "Completed"
    BY <1>3 DEF MineComplete
  <2> QED  BY <1>1, <1>3, <2>1 DEF MineComplete, outVars
<1>4. CASE Tick \/ Refund \/ UNCHANGED vars
  <2>1. job.state = "Completed" => job'.state = "Completed"
    BY <1>4 DEF Tick, Refund, vars, chainVars
  <2> QED  BY <1>1, <1>4, <2>1 DEF Tick, Refund, vars, outVars
<1>5. CASE Expire
  BY <1>5 DEF Expire, SettledInv, Missing, chainVars, outVars
<1>6. CASE Crash
  BY <1>6, CrashEffect DEF SettledInv
<1> QED  BY <1>2, <1>3, <1>4, <1>5, <1>6

(* completeJob: the tracker learns of a job, and its checkpoint is         *)
(* tombstoned, only when the job is completed on the chain.                *)
THEOREM OnlyCompletedSettled == Spec => []SettledOnlyCompleted
<1>1. Init => SettledInv
  BY DEF Init, SettledInv, NotServed, Missing
<1>2. TypeOK /\ SettledInv /\ [Next]_vars => SettledInv'
  BY AttemptSettled, AroundSettled DEF Next
<1>3. SettledInv => SettledOnlyCompleted
  BY DEF SettledInv, SettledOnlyCompleted
<1> QED  BY <1>1, <1>2, <1>3, TypeCorrect, PTL DEF Spec

----------------------------------------------------------------------------
(* The canonical ciphertext. *)

(* After the answer was published, and after its blob was sent. *)
Shown == Joined \ {"publish"}
Hashed == {"setHash", "complete", "doneWait", "finish"}

(* The ciphertext the checkpoint store answers every attempt with. *)
Canonical(x) == x = ckpt.ct /\ x # Nil

(* What is recorded, shown and committed is the canonical ciphertext. *)
RecordSafe ==
  /\ ckpt.vh # Nil => Canonical(ckpt.vh)
  /\ ckpt.tomb => ckpt.ct # Nil /\ ckpt.ttl = "short"
  /\ ckpt.delivered => Answers # {}
  /\ \A f \in Answers : Canonical(f.ct)
  /\ job.state = "Completed" => Canonical(job.blob) /\ Canonical(job.ct) /\ Answers # {}

(* What an attempt holds: its copy of the checkpoint, its ciphertext from  *)
(* the join on, its hash from the blob on.                                 *)
HoldsCanon(a) ==
  /\ att[a].snap.vh # Nil => Canonical(att[a].snap.vh)
  /\ att[a].pc = "store" => att[a].ct # Nil
  /\ att[a].pc \in Joined \union {"join"} => Canonical(att[a].ct)
  /\ doneTx[a] # "none" \/ att[a].pc \in Hashed => Canonical(att[a].vh) /\ Canonical(att[a].ct)
  /\ doneTx[a] # "none" => att[a].pc \in {"doneWait", "finish"} \union Ended

(* What the consumer has seen of it. *)
HasShown(a) ==
  /\ att[a].snap.delivered => Answers # {}
  /\ att[a].pc \in Shown \union {"done"} \/ att[a].answered => Answers # {}
  /\ doneTx[a] # "none" => Answers # {}
  /\ att[a].pc = "dead" => Spoken

CanonSafe == RecordSafe /\ \A a \in Attempts : HoldsCanon(a) /\ HasShown(a)

(* It takes a Redis that answers. *)
CanonInv == mode.store /\ lost = 0 => CanonSafe

(* Redis calls that failed stay failed, and the configuration stays. *)
LEMMA FaultsCount ==
  ASSUME TypeOK, [Next]_vars
  PROVE  mode' = mode /\ (lost' = lost \/ lost' > 0)
<1> USE DEF chainVars, outVars, faultVars
<1>1. ASSUME NEW a \in Attempts, Serve(a) \/ Acknowledge(a)
      PROVE  mode' = mode /\ lost' = lost
  BY <1>1 DEF Serve, Acknowledge, EnsureAcknowledged, AwaitAck, ReconcileAckError, Fail, FailAfter,
              Proceed
<1>2. ASSUME NEW a \in Attempts, Produce(a)
      PROVE  mode' = mode /\ (lost' = lost \/ lost' > 0)
  BY <1>2, RedisType DEF Produce, ReadCheckpoint, PrepareInference, RunInference, InferenceFails,
              StoreCiphertext, Fail, FailAfter
<1>3. ASSUME NEW a \in Attempts, Settle(a)
      PROVE  mode' = mode /\ (lost' = lost \/ lost' > 0)
  BY <1>3, RedisType DEF Settle, AwaitAcknowledged, PublishResponse, RecordDelivered,
              EnsureBlobSubmitted, SubmitBlob, RecordHash, CompleteJob, AwaitComplete,
              RecheckCompleted, FinishJob, Fail, FailAfter, Proceed
<1>4. ASSUME \/ \E a \in Attempts : MineAck(a) \/ MineComplete(a)
             \/ Tick \/ Refund \/ Expire \/ Crash \/ UNCHANGED vars
      PROVE  mode' = mode /\ (lost' = lost \/ lost' > 0)
  BY <1>4, RedisType DEF MineAck, MineComplete, Tick, Refund, Expire, Crash, vars
<1> QED  BY <1>1, <1>2, <1>3, <1>4 DEF Next, ProcessJob

(* An answer speaks. *)
LEMMA AnswersSpeak == Answers # {} => Spoken
BY DEF Answers, Spoken

(* The others hold what they held: a canonical ciphertext is never         *)
(* replaced, and what was shown stays shown.                               *)
LEMMA CanonOthers ==
  ASSUME NEW b \in Attempts, HoldsCanon(b), HasShown(b), att'[b] = att[b], doneTx'[b] = doneTx[b],
         ckpt.ct # Nil => ckpt'.ct = ckpt.ct, Answers # {} => Answers' # {}, Spoken => Spoken'
  PROVE  HoldsCanon(b)' /\ HasShown(b)'
<1>1. \A x : Canonical(x) => Canonical(x)'
  BY DEF Canonical
<1>2. HoldsCanon(b)'
  BY <1>1, Zenon DEF HoldsCanon
<1>3. HasShown(b)'
  BY Zenon DEF HasShown
<1> QED  BY <1>2, <1>3

(* A step that leaves the record and the answers alone. *)
LEMMA RecordKept ==
  ASSUME RecordSafe, UNCHANGED ckpt, Answers' = Answers,
         job' = job \/ (job.state # "Completed" /\ job'.state # "Completed")
  PROVE  RecordSafe'
BY DEF RecordSafe, Canonical

(* Each step of an attempt keeps what is canonical. *)
LEMMA AttemptCanon ==
  ASSUME TypeOK, CanonSafe, NEW a \in Attempts, Serve(a) \/ ProcessJob(a),
         mode.store, lost' = 0
  PROVE  CanonSafe'
<1> USE DEF Joining, Joined, Shown, Hashed, Ended
<1>0. RecordSafe /\ HoldsCanon(a) /\ HasShown(a)
  BY Zenon DEF CanonSafe
<1>c. ckpt \in Checkpoints /\ att[a].snap \in Checkpoints
  BY LocalsType
<1>1. ASSUME RecordSafe', HoldsCanon(a)', HasShown(a)', OthersKept(a),
             \A b \in Attempts : b # a => doneTx'[b] = doneTx[b],
             ckpt.ct # Nil => ckpt'.ct = ckpt.ct, Answers # {} => Answers' # {}, Spoken => Spoken'
      PROVE  CanonSafe'
  <2>1. ASSUME NEW b \in Attempts PROVE HoldsCanon(b)' /\ HasShown(b)'
    <3>1. HoldsCanon(b) /\ HasShown(b)
      BY Zenon DEF CanonSafe
    <3> QED  BY <1>1, <3>1, CanonOthers, Zenon DEF OthersKept
  <2> QED  BY <1>1, <2>1, Zenon DEF CanonSafe
<1>2. ASSUME HoldsCanon(a)', HasShown(a)', OthersKept(a), UNCHANGED <<job, ckpt>>,
             Answers' = Answers, Spoken => Spoken',
             \A b \in Attempts : b # a => doneTx'[b] = doneTx[b]
      PROVE  CanonSafe'
  BY <1>0, <1>1, <1>2, RecordKept
<1>a. ASSUME NEW noRetry, NEW s \in Streams(a) \union {<<>>}, FailAfter(a, s, noRetry)
      PROVE  CanonSafe'
  <2>1. HoldsCanon(a)'
    BY <1>0, <1>a, FailEffect DEF HoldsCanon, Canonical, Missing
  <2>2. HasShown(a)'
    BY <1>0, <1>a, FailEffect, AnswersSpeak DEF HasShown, Missing
  <2>3. OthersKept(a)
    BY <1>a, FailEffect DEF OthersKept
  <2> QED  BY <2>1, <2>2, <2>3, <1>2, <1>a, FailEffect
<1>b. ASSUME NEW p, Proceed(a, p)
      PROVE  /\ p \in {"ack", "checkpoint"} /\ att[a].pc \in {"idle", "ack", "ackWait"} => CanonSafe'
             /\ p = "publish" /\ att[a].pc = "join" => CanonSafe'
             /\ p = "finish" /\ att[a].pc \in {"complete", "doneWait"} => CanonSafe'
  <2>1. OthersKept(a)
    BY <1>b, ProceedEffect DEF OthersKept
  <2>2. ASSUME HoldsCanon(a)', HasShown(a)' PROVE CanonSafe'
    BY <2>1, <2>2, <1>2, <1>b, ProceedEffect
  <2>3. ASSUME \/ p \in {"ack", "checkpoint"} /\ att[a].pc \in {"idle", "ack", "ackWait"}
               \/ p = "publish" /\ att[a].pc = "join"
               \/ p = "finish" /\ att[a].pc \in {"complete", "doneWait"}
        PROVE  HoldsCanon(a)' /\ HasShown(a)'
    <3>1. /\ att'[a].pc = p /\ att'[a].snap = att[a].snap /\ att'[a].ct = att[a].ct
          /\ att'[a].vh = att[a].vh /\ att'[a].answered = att[a].answered
          /\ doneTx' = doneTx /\ ckpt' = ckpt /\ Answers' = Answers /\ Spoken' = Spoken
      BY <1>b, ProceedEffect
    <3> QED  BY <1>0, <2>3, <3>1 DEF HoldsCanon, HasShown, Canonical
  <2> QED  BY <2>2, <2>3
<1>3. CASE Serve(a)
  BY <1>3, <1>a, <1>b DEF Serve, Fail, At
<1>4. CASE EnsureAcknowledged(a)
  <2>1. ASSUME ackTx' = [ackTx EXCEPT ![a] = "pool"],
               Goto(a, IF mode.overlap THEN "checkpoint" ELSE "ackWait"),
               UNCHANGED <<job, left, doneTx, ckpt, outVars, faultVars, mode>>, At(a, "ack")
        PROVE  CanonSafe'
    <3>1. HoldsCanon(a)' /\ HasShown(a)'
      BY <1>0, <2>1, SendAckEffect DEF HoldsCanon, HasShown, Canonical, At
    <3> QED  BY <2>1, <3>1, <1>2, SendAckEffect
  <2> QED  BY <1>4, <1>a, <1>b, <2>1 DEF EnsureAcknowledged, ReconcileAckError, Fail, At
<1>5. CASE AwaitAck(a)
  BY <1>5, <1>a, <1>b DEF AwaitAck, ReconcileAckError, Fail, At
<1>6. CASE ReadCheckpoint(a)
  <2>1. HoldsCanon(a)' /\ HasShown(a)'
    BY <1>0, <1>6, ReadEffect DEF HoldsCanon, HasShown, Canonical, RecordSafe
  <2> QED  BY <2>1, <1>2, <1>6, ReadEffect
<1>7. CASE PrepareInference(a)
  <2>1. ASSUME NEW c, Becomes(a, [att[a] EXCEPT !.pc = "infer", !.clamp = c]),
               UNCHANGED <<chainVars, ckpt, outVars, faultVars, mode>>, At(a, "prepare")
        PROVE  CanonSafe'
    <3>1. HoldsCanon(a)' /\ HasShown(a)'
      BY <1>0, <2>1, GateEffect DEF HoldsCanon, HasShown, Canonical, At
    <3> QED  BY <2>1, <3>1, <1>2, GateEffect
  <2> QED  BY <1>7, <1>a, <2>1 DEF PrepareInference, Fail
<1>8. CASE RunInference(a)
  <2>0. a # Nil
    BY AttemptsNat
  <2>1. HoldsCanon(a)' /\ HasShown(a)'
    BY <1>0, <1>8, <2>0, InferEffect DEF HoldsCanon, HasShown, Canonical
  <2> QED  BY <2>1, <1>2, <1>8, InferEffect
<1>9. CASE InferenceFails(a)
  BY <1>9, <1>a DEF InferenceFails
<1>10. CASE StoreCiphertext(a)
  <2>0. att[a].pc = "store" /\ att[a].ct # Nil
    BY <1>0, <1>10, StoreEffect DEF HoldsCanon
  <2>1. /\ ckpt'.ct = (IF ckpt.ct # Nil THEN ckpt.ct ELSE att[a].ct)
        /\ ckpt'.vh = ckpt.vh /\ ckpt'.delivered = ckpt.delivered /\ ckpt'.tomb = ckpt.tomb
        /\ (ckpt.ct # Nil => ckpt'.ttl = ckpt.ttl) /\ att'[a].ct = ckpt'.ct
    BY <1>10, <1>c, StoreEffect, CheckpointFields
  <2>2. RecordSafe'
    BY <1>0, <1>10, <2>1, StoreEffect DEF RecordSafe, Canonical
  <2>3. HoldsCanon(a)' /\ HasShown(a)'
    BY <1>0, <1>10, <2>0, <2>1, StoreEffect DEF HoldsCanon, HasShown, Canonical
  <2> QED  BY <2>1, <2>2, <2>3, <1>1, <1>10, StoreEffect
<1>11. CASE AwaitAcknowledged(a)
  BY <1>11, <1>a, <1>b DEF AwaitAcknowledged, At, Fail
<1>12. CASE PublishResponse(a)
  <2>0. Canonical(att[a].ct)
    BY <1>0, <1>12, PublishEffect DEF HoldsCanon
  <2>1. Answers' # {} /\ \A f \in Answers' : Canonical(f.ct)
    <3> DEFINE f == [type |-> "complete", ct |-> att[a].ct]
    <3>1. f.ct = att[a].ct /\ \A g \in Answers : Canonical(g.ct)
      BY <1>0 DEF RecordSafe
    <3>2. \/ att[a].snap.delivered /\ Answers' = Answers
          \/ Answers' = Answers \union {f}
      <4>1. ~(lost' > 0)
        OBVIOUS
      <4> QED  BY <4>1, <1>12, PublishEffect, Zenon
    <3>3. att[a].snap.delivered => Answers # {}
      BY <1>0 DEF HasShown
    <3> HIDE DEF f
    <3> QED  BY <3>1, <3>2, <3>3, <2>0
  <2>2. RecordSafe'
    BY <1>0, <1>12, <2>1, PublishEffect DEF RecordSafe, Canonical
  <2>3. HoldsCanon(a)'
    BY <1>0, <1>12, <2>0, PublishEffect DEF HoldsCanon, Canonical
  <2>4. HasShown(a)'
    BY <1>12, <2>1, PublishEffect DEF HasShown
  <2> QED  BY <2>1, <2>2, <2>3, <2>4, <1>1, <1>12, PublishEffect
<1>13. CASE RecordDelivered(a)
  <2>0. /\ ckpt'.ct = ckpt.ct /\ ckpt'.vh = ckpt.vh /\ ckpt'.tomb = ckpt.tomb
        /\ ckpt.tomb => ckpt'.ttl = ckpt.ttl
    BY <1>13, <1>c, RecordEffect, CheckpointFields
  <2>1. RecordSafe'
    BY <1>0, <1>13, <2>0, RecordEffect DEF RecordSafe, HasShown, Canonical
  <2>2. HoldsCanon(a)' /\ HasShown(a)'
    BY <1>0, <1>13, <2>0, RecordEffect DEF HoldsCanon, HasShown, Canonical
  <2> QED  BY <2>0, <2>1, <2>2, <1>1, <1>13, RecordEffect
<1>14. CASE EnsureBlobSubmitted(a)
  <2>0. att[a].pc = "blob"
    BY <1>14 DEF EnsureBlobSubmitted, At
  <2>1. ASSUME NEW x, NEW p, Becomes(a, [att[a] EXCEPT !.vh = x, !.pc = p]),
               UNCHANGED <<chainVars, ckpt, outVars, faultVars, mode>>
        PROVE  p \in {"setHash", "complete"} /\ Canonical(x) => CanonSafe'
    <3>1. OthersKept(a) /\ Answers' = Answers /\ Spoken' = Spoken /\ UNCHANGED <<job, doneTx, ckpt>>
      BY <2>1, BlobEffect
    <3>2. att[a] \in AttemptRec /\ att'[a] = [att[a] EXCEPT !.vh = x, !.pc = p]
      BY <2>1, Locals, LocalsType, Zenon
    <3>3. /\ att'[a].pc = p /\ att'[a].vh = x /\ att'[a].snap = att[a].snap
          /\ att'[a].ct = att[a].ct /\ att'[a].answered = att[a].answered
      BY <3>2 DEF AttemptRec
    <3>4. ASSUME p \in {"setHash", "complete"}, Canonical(x) PROVE HoldsCanon(a)' /\ HasShown(a)'
      BY <1>0, <2>0, <3>1, <3>3, <3>4 DEF HoldsCanon, HasShown, Canonical
    <3> QED  BY <3>1, <3>4, <1>2
  <2>2. HasVersionedHash(att[a].snap) => Canonical(att[a].snap.vh)
    BY <1>0 DEF HasVersionedHash, HoldsCanon
  <2>3. Canonical(att[a].ct)
    BY <1>0, <2>0 DEF HoldsCanon
  <2> QED  BY <1>14, <1>a, <2>1, <2>2, <2>3 DEF EnsureBlobSubmitted, SubmitBlob, Fail
<1>15. CASE RecordHash(a)
  <2>0. Canonical(att[a].vh)
    BY <1>0, <1>15, HashEffect DEF HoldsCanon
  <2>1. /\ ckpt'.ct = ckpt.ct /\ ckpt'.vh = att[a].vh /\ ckpt'.tomb = ckpt.tomb
        /\ ckpt'.delivered = ckpt.delivered /\ (ckpt.tomb => ckpt'.ttl = ckpt.ttl)
    BY <1>15, <1>c, HashEffect, CheckpointFields
  <2>2. RecordSafe'
    BY <1>0, <1>15, <2>0, <2>1, HashEffect DEF RecordSafe, Canonical
  <2>3. HoldsCanon(a)' /\ HasShown(a)'
    BY <1>0, <1>15, <2>1, HashEffect DEF HoldsCanon, HasShown, Canonical
  <2> QED  BY <2>1, <2>2, <2>3, <1>1, <1>15, HashEffect
<1>16. CASE CompleteJob(a)
  <2>1. ASSUME doneTx' = [doneTx EXCEPT ![a] = "pool"], Goto(a, "doneWait"), At(a, "complete"),
               UNCHANGED <<job, left, ackTx, ckpt, outVars, faultVars, mode>>
        PROVE  CanonSafe'
    <3>1. HoldsCanon(a)' /\ HasShown(a)'
      BY <1>0, <2>1, SendDoneEffect DEF HoldsCanon, HasShown, Canonical, At
    <3> QED  BY <2>1, <3>1, <1>2, SendDoneEffect
  <2>2. ASSUME RecheckCompleted(a), At(a, "complete") PROVE CanonSafe'
    BY <2>2, <1>a, <1>b DEF RecheckCompleted, Fail, At
  <2> QED  BY <1>16, <2>1, <2>2 DEF CompleteJob
<1>17. CASE AwaitComplete(a)
  BY <1>17, <1>a, <1>b DEF AwaitComplete, RecheckCompleted, Fail, At
<1>18. CASE FinishJob(a)
  <2>0. Canonical(att[a].ct) /\ Answers # {}
    BY <1>0, <1>18, FinishEffect DEF HoldsCanon, HasShown
  <2>1. /\ ckpt'.ct = ckpt.ct /\ ckpt'.vh = ckpt.vh /\ ckpt'.delivered = ckpt.delivered
        /\ ckpt'.ttl = "short"
    BY <1>18, <1>c, FinishEffect, CheckpointFields
  <2>2. RecordSafe'
    BY <1>0, <1>18, <2>0, <2>1, FinishEffect DEF RecordSafe, Canonical
  <2>3. HoldsCanon(a)' /\ HasShown(a)'
    BY <1>0, <1>18, <2>0, <2>1, FinishEffect DEF HoldsCanon, HasShown, Canonical, Missing
  <2> QED  BY <2>1, <2>2, <2>3, <1>1, <1>18, FinishEffect
<1> QED
  BY <1>3, <1>4, <1>5, <1>6, <1>7, <1>8, <1>9, <1>10, <1>11, <1>12, <1>13, <1>14,
     <1>15, <1>16, <1>17, <1>18 DEF ProcessJob, Acknowledge, Produce, Settle

(* So do the chain, time and crashes. *)
LEMMA AroundCanon ==
  ASSUME TypeOK, CanonSafe, lost' = 0,
         \/ \E a \in Attempts : MineAck(a) \/ MineComplete(a)
         \/ Tick \/ Refund \/ Expire \/ Crash \/ UNCHANGED vars
  PROVE  CanonSafe'
<1>0. RecordSafe /\ \A b \in Attempts : HoldsCanon(b) /\ HasShown(b)
  BY DEF CanonSafe
<1>1. ASSUME UNCHANGED <<ckpt, att, doneTx, wire>>,
             job' = job \/ (job.state # "Completed" /\ job'.state # "Completed")
      PROVE  CanonSafe'
  <2>1. Answers' = Answers /\ Spoken' = Spoken
    BY <1>1, SameWire
  <2>2. RecordSafe'
    BY <1>0, <1>1, <2>1, RecordKept
  <2>3. ASSUME NEW b \in Attempts PROVE HoldsCanon(b)' /\ HasShown(b)'
    BY <1>0, <1>1, <2>1, CanonOthers
  <2> QED  BY <2>2, <2>3 DEF CanonSafe
<1>2. ASSUME NEW a \in Attempts, MineAck(a) PROVE CanonSafe'
  <2>1. job' = job \/ (job.state # "Completed" /\ job'.state # "Completed")
    BY <1>2 DEF MineAck, TypeOK
  <2> QED  BY <1>1, <1>2, <2>1 DEF MineAck, outVars
<1>3. ASSUME NEW a \in Attempts, MineComplete(a) PROVE CanonSafe'
  <2>1. UNCHANGED <<ckpt, att, wire>> /\ Answers' = Answers /\ Spoken' = Spoken /\ doneTx[a] # "none"
    BY <1>3, SameWire DEF MineComplete, outVars
  <2>2. Canonical(att[a].vh) /\ Canonical(att[a].ct) /\ Answers # {}
    BY <1>0, <2>1 DEF HoldsCanon, HasShown
  <2>3. \/ job' = job
        \/ job'.state = "Completed" /\ job'.blob = att[a].vh /\ job'.ct = att[a].ct
    BY <1>3 DEF MineComplete, TypeOK
  <2>4. RecordSafe'
    BY <1>0, <2>1, <2>2, <2>3 DEF RecordSafe, Canonical
  <2>5. \A b \in Attempts : doneTx'[b] = doneTx[b] \/ (doneTx[b] # "none" /\ doneTx'[b] # "none")
    BY <1>3 DEF MineComplete, TypeOK
  <2>6. ASSUME NEW b \in Attempts PROVE HoldsCanon(b)' /\ HasShown(b)'
    <3>1. (doneTx'[b] # "none") <=> (doneTx[b] # "none")
      BY <2>5
    <3> QED  BY <1>0, <2>1, <3>1 DEF HoldsCanon, HasShown, Canonical
  <2> QED  BY <2>4, <2>6 DEF CanonSafe
<1>4. CASE Tick
  BY <1>1, <1>4 DEF Tick, outVars
<1>5. CASE Refund
  <2>1. job.state # "Completed" /\ job'.state # "Completed"
    BY <1>5 DEF Refund, TypeOK
  <2> QED  BY <1>1, <1>5, <2>1 DEF Refund, outVars
<1>6. CASE UNCHANGED vars
  BY <1>1, <1>6 DEF vars, chainVars, outVars
<1>7. CASE Expire
  BY <1>7, RedisType DEF Expire
<1>8. CASE Crash
  <2>1. RecordSafe'
    BY <1>0, <1>8, CrashEffect, RecordKept
  <2>2. ASSUME NEW b \in Attempts PROVE HoldsCanon(b)' /\ HasShown(b)'
    <3>1. UNCHANGED <<ckpt, doneTx>> /\ Answers' = Answers /\ Spoken' = Spoken
      BY <1>8, CrashEffect
    <3>2. CASE att'[b] = att[b]
      BY <1>0, <3>1, <3>2, CanonOthers
    <3>3. CASE /\ att'[b].pc = "crashed" /\ att'[b].snap = Missing /\ att'[b].ct = att[b].ct
               /\ att'[b].vh = att[b].vh /\ att'[b].answered = att[b].answered
      BY <1>0, <3>1, <3>3 DEF HoldsCanon, HasShown, Canonical, Missing, Joined, Shown, Hashed, Ended
    <3> QED  BY <1>8, <3>2, <3>3, CrashEffect
  <2> QED  BY <2>1, <2>2 DEF CanonSafe
<1> QED  BY <1>2, <1>3, <1>4, <1>5, <1>6, <1>7, <1>8

(* What is canonical stays canonical as long as Redis answers. *)
LEMMA CanonHolds == Spec => []CanonInv
<1>1. Init => CanonInv
  <2> SUFFICES ASSUME Init PROVE CanonSafe
    BY DEF CanonInv
  <2>1. Answers = {}
    BY DEF Init, Answers
  <2>2. RecordSafe
    BY <2>1 DEF Init, RecordSafe, Missing
  <2>3. \A a \in Attempts : HoldsCanon(a) /\ HasShown(a)
    BY DEF Init, HoldsCanon, HasShown, NotServed, Missing, Joined, Shown, Hashed
  <2> QED  BY <2>2, <2>3 DEF CanonSafe
<1>2. TypeOK /\ CanonInv /\ [Next]_vars => CanonInv'
  <2> SUFFICES ASSUME TypeOK, CanonInv, [Next]_vars, mode'.store, lost' = 0 PROVE CanonSafe'
    BY DEF CanonInv
  <2>1. mode.store /\ lost = 0
    BY FaultsCount
  <2>2. CanonSafe
    BY <2>1 DEF CanonInv
  <2> QED  BY <2>1, <2>2, AttemptCanon, AroundCanon DEF Next
<1> QED  BY <1>1, <1>2, TypeCorrect, PTL DEF Spec

(* processJob and SetCiphertextIfAbsent: all final answers carry one       *)
(* ciphertext, and completeJob commits to it and to its blob.              *)
THEOREM DeliveredIsCommitted == Spec => []CommittedIsDelivered
<1>1. TypeOK /\ CanonInv => CommittedIsDelivered
  <2> SUFFICES ASSUME TypeOK, CanonSafe
      PROVE  /\ \A f, g \in Answers : f.ct = g.ct
             /\ job.state = "Completed" =>
                  job.blob = job.ct /\ Answers = {[type |-> "complete", ct |-> job.ct]}
    BY DEF CanonInv, CommittedIsDelivered
  <2>1. \A f \in Answers : f.ct = ckpt.ct
    BY DEF CanonSafe, RecordSafe, Canonical
  <2>2. \A f \in Answers : f \in Frames /\ f.type = "complete"
    BY DEF Answers, TypeOK
  <2>3. \A f \in Answers : f = [type |-> "complete", ct |-> ckpt.ct]
    BY <2>1, <2>2 DEF Frames
  <2>4. job.state = "Completed" => job.blob = ckpt.ct /\ job.ct = ckpt.ct /\ Answers # {}
    BY DEF CanonSafe, RecordSafe, Canonical
  <2>5. ASSUME job.state = "Completed" PROVE Answers = {[type |-> "complete", ct |-> job.ct]}
    BY <2>3, <2>4, <2>5, Zenon
  <2> QED  BY <2>1, <2>4, <2>5
<1> QED  BY <1>1, CanonHolds, TypeCorrect, PTL

(* reportFailure: an attempt that nothing follows has told the consumer,   *)
(* with an answer or with an error, whatever crashed before.               *)
THEOREM EndsAreSpoken == Spec => []NeverSilent
<1>1. CanonInv => NeverSilent
  <2> SUFFICES ASSUME CanonSafe, NEW a \in Attempts, att[a].pc \in {"done", "dead"} PROVE Spoken
    BY DEF CanonInv, NeverSilent, Spoken
  <2> QED  BY AnswersSpeak DEF CanonSafe, HasShown
<1> QED  BY <1>1, CanonHolds, PTL

(* Without Redis there is no tombstone. *)
LEMMA TombNeedsStore ==
  ASSUME TypeOK, ~mode.store, ~ckpt.tomb, [Next]_vars
  PROVE  ~ckpt'.tomb
<1>0. ckpt \in Checkpoints
  BY DEF TypeOK
<1> USE DEF chainVars
<1>1. ASSUME NEW a \in Attempts, Serve(a) \/ Acknowledge(a) PROVE ckpt' = ckpt
  BY <1>1 DEF Serve, Acknowledge, EnsureAcknowledged, AwaitAck, ReconcileAckError, Fail, FailAfter,
              Proceed
<1>2. ASSUME NEW a \in Attempts, Produce(a)
      PROVE  ckpt' = ckpt \/ ckpt' = SetCiphertextIfAbsent(ckpt, att[a].ct)
  BY <1>2 DEF Produce, ReadCheckpoint, PrepareInference, RunInference, InferenceFails,
              StoreCiphertext, Fail, FailAfter
<1>3. ASSUME NEW a \in Attempts, Settle(a)
      PROVE  ckpt' \in {ckpt, MarkDelivered(ckpt), SetVersionedHash(ckpt, att[a].vh)}
  BY <1>3 DEF Settle, AwaitAcknowledged, PublishResponse, RecordDelivered,
              EnsureBlobSubmitted, SubmitBlob, RecordHash, CompleteJob, AwaitComplete,
              RecheckCompleted, FinishJob, Fail, FailAfter, Proceed
<1>4. ASSUME \/ \E a \in Attempts : MineAck(a) \/ MineComplete(a)
             \/ Tick \/ Refund \/ Expire \/ Crash \/ UNCHANGED vars
      PROVE  ckpt' = ckpt \/ ckpt' = Missing
  BY <1>4 DEF MineAck, MineComplete, Tick, Refund, Expire, Crash, vars
<1>5. ~Missing.tomb
  BY DEF Missing
<1> QED  BY <1>0, <1>1, <1>2, <1>3, <1>4, <1>5, CheckpointFields DEF Next, ProcessJob

(* checkpoint.go: no write gives a tombstoned record its long time to live *)
(* back, however late the writer is.                                       *)
THEOREM TombstonesExpireSoon == Spec => []TombstoneStaysShort
<1> DEFINE NoTomb == ~mode.store => ~ckpt.tomb
<1>1. Init => NoTomb
  BY DEF Init, Missing
<1>2. TypeOK /\ NoTomb /\ [Next]_vars => NoTomb'
  BY FaultsCount, TombNeedsStore
<1>3. CanonInv /\ NoTomb => TombstoneStaysShort
  BY DEF CanonInv, CanonSafe, RecordSafe, TombstoneStaysShort
<1> HIDE DEF NoTomb
<1> QED  BY <1>1, <1>2, <1>3, CanonHolds, TypeCorrect, PTL DEF Spec

----------------------------------------------------------------------------
(* One answer. *)

(* Behind a final answer there are error frames only. *)
AnswerLast(w) ==
  \A i, j \in DOMAIN w : w[i].type = "complete" /\ i < j => w[j].type = "error"

(* The attempts before the one that runs have failed. *)
InTurn == \A a, b \in Attempts : b < a /\ att[a].pc # "idle" => att[b].pc = "retry"

(* A delivery is recorded, or about to be. *)
DeliveryMarked == Answers # {} => ckpt.delivered \/ \E a \in Attempts : att[a].pc = "mark"

(* The copy an attempt decides with knows of the delivery. *)
CopyFresh(a) ==
  att[a].pc \in {"prepare", "infer", "store", "join", "publish"} /\ Answers # {}
    => att[a].snap.delivered

OnceSafe ==
  /\ \A a \in Attempts : att[a].pc # "crashed" /\ CopyFresh(a)
  /\ InTurn
  /\ DeliveryMarked
  /\ AnswerLast(wire)

(* It takes asynq's retries, a Redis that answers and no crash. *)
OnceInv == mode.store /\ mode.entry = "task" /\ lost = 0 /\ crashes = 0 => OnceSafe

(* Crashes are counted. *)
LEMMA CrashesCount ==
  ASSUME TypeOK, [Next]_vars
  PROVE  crashes' = crashes \/ crashes' > 0
<1> USE DEF chainVars, outVars, faultVars, RedisFails
<1>1. ASSUME NEW a \in Attempts, Serve(a) \/ Acknowledge(a) PROVE crashes' = crashes
  BY <1>1 DEF Serve, Acknowledge, EnsureAcknowledged, AwaitAck, ReconcileAckError, Fail, FailAfter,
              Proceed
<1>2. ASSUME NEW a \in Attempts, Produce(a) PROVE crashes' = crashes
  BY <1>2 DEF Produce, ReadCheckpoint, PrepareInference, RunInference, InferenceFails,
              StoreCiphertext, Fail, FailAfter
<1>3. ASSUME NEW a \in Attempts, Settle(a) PROVE crashes' = crashes
  BY <1>3 DEF Settle, AwaitAcknowledged, PublishResponse, RecordDelivered,
              EnsureBlobSubmitted, SubmitBlob, RecordHash, CompleteJob, AwaitComplete,
              RecheckCompleted, FinishJob, Fail, FailAfter, Proceed
<1>4. ASSUME \/ \E a \in Attempts : MineAck(a) \/ MineComplete(a)
             \/ Tick \/ Refund \/ Expire \/ Crash \/ UNCHANGED vars
      PROVE  crashes' = crashes \/ crashes' > 0
  BY <1>4, CrashEffect DEF MineAck, MineComplete, Tick, Refund, Expire, vars
<1> QED  BY <1>1, <1>2, <1>3, <1>4 DEF Next, ProcessJob

(* Frames without an answer are in any order. *)
LEMMA NoAnswerLast ==
  ASSUME NEW w, AnswersIn(w) = {}
  PROVE  AnswerLast(w)
BY DEF AnswersIn, AnswerLast

(* An error, or an answer to what has none, may come last. *)
LEMMA AnswerLastAppend ==
  ASSUME NEW w \in Seq(Frames), AnswerLast(w)
  PROVE  /\ AnswerLast(w \o <<>>)
         /\ AnswerLast(w \o <<[type |-> "error", ct |-> Nil]>>)
         /\ AnswersIn(w) = {} => \A f \in Frames : AnswerLast(Append(w, f))
<1>1. w \o <<>> = w
  OBVIOUS
<1>2. AnswerLast(w \o <<[type |-> "error", ct |-> Nil]>>)
  <2> DEFINE e == [type |-> "error", ct |-> Nil]
             v == w \o <<e>>
  <2>1. e.type = "error" /\ e \in Frames
    BY DEF Frames
  <2> HIDE DEF e
  <2>2. v[Len(w) + 1] = e /\ \A i \in DOMAIN v : i \in DOMAIN w \/ i = Len(w) + 1
    BY <2>1
  <2>3. \A i \in DOMAIN w : v[i] = w[i] /\ i < Len(w) + 1
    BY <2>1
  <2> SUFFICES ASSUME NEW i \in DOMAIN v, NEW j \in DOMAIN v, v[i].type = "complete", i < j
               PROVE  v[j].type = "error"
    BY DEF AnswerLast, e
  <2>4. CASE j = Len(w) + 1
    BY <2>1, <2>2, <2>4
  <2>5. CASE j \in DOMAIN w
    <3>1. i \in DOMAIN w
      BY <2>2, <2>3, <2>5
    <3> QED  BY <2>3, <2>5, <3>1 DEF AnswerLast
  <2> QED  BY <2>2, <2>4, <2>5
<1>3. ASSUME AnswersIn(w) = {}, NEW f \in Frames PROVE AnswerLast(Append(w, f))
  <2> DEFINE v == Append(w, f)
  <2>1. \A i \in DOMAIN v : i \in DOMAIN w \/ i = Len(w) + 1
    OBVIOUS
  <2>2. \A i \in DOMAIN w : v[i] = w[i] /\ i < Len(w) + 1 /\ w[i].type # "complete"
    BY <1>3 DEF AnswersIn
  <2> SUFFICES ASSUME NEW i \in DOMAIN v, NEW j \in DOMAIN v, v[i].type = "complete", i < j
               PROVE  FALSE
    BY DEF AnswerLast
  <2> QED  BY <2>1, <2>2
<1> QED  BY <1>1, <1>2, <1>3

(* The wire after a failure. *)
LEMMA FailAnswerLast ==
  ASSUME TypeOK, AnswerLast(wire), NEW a \in Attempts, NEW noRetry,
         NEW s \in Streams(a) \union {<<>>}, FailAfter(a, s, noRetry),
         s # <<>> => Answers = {}
  PROVE  AnswerLast(wire')
<1>1. /\ Streamed(s) \in Seq(Frames) /\ AnswersIn(Streamed(s)) = Answers
      /\ Streamed(s) = wire \/ Streamed(s) = wire \o s
  BY StreamedWire
<1>2. AnswerLast(Streamed(s))
  <2>1. CASE s = <<>>
    BY <1>1, <2>1, AnswerLastAppend DEF TypeOK
  <2>2. CASE Answers = {}
    BY <1>1, <2>2, NoAnswerLast
  <2> QED  BY <2>1, <2>2
<1>3. ReportFailure(a, noRetry) = <<>> \/ ReportFailure(a, noRetry) = <<[type |-> "error", ct |-> Nil]>>
  BY DEF ReportFailure, ErrorFrame
<1>4. wire' = Streamed(s) \o ReportFailure(a, noRetry)
  BY DEF FailAfter
<1> QED  BY <1>1, <1>2, <1>3, <1>4, AnswerLastAppend

(* The wire after the model has answered. *)
LEMMA InferAnswerLast ==
  ASSUME TypeOK, AnswerLast(wire), NEW a \in Attempts, CopyFresh(a), att[a].pc = "infer",
         NEW s \in Streams(a)
  PROVE  /\ s # <<>> => Answers = {}
         /\ AnswerLast(Streamed(s))
<1>1. s # <<>> => Answers = {}
  BY DEF Streams, CopyFresh
<1>2. /\ Streamed(s) \in Seq(Frames) /\ AnswersIn(Streamed(s)) = Answers
      /\ Streamed(s) = wire \/ Streamed(s) = wire \o s
  BY StreamedWire
<1>3. CASE s = <<>>
  BY <1>2, <1>3, AnswerLastAppend DEF TypeOK
<1>4. CASE Answers = {}
  BY <1>2, <1>4, NoAnswerLast
<1> QED  BY <1>1, <1>3, <1>4

(* While an attempt runs, nobody else does. *)
LEMMA OthersRest ==
  ASSUME OnceSafe, NEW a \in Attempts, att[a].pc \notin Ended, NEW b \in Attempts, b # a
  PROVE  /\ b < a /\ att[a].pc # "idle" => att[b].pc = "retry"
         /\ b > a => att[b].pc = "idle"
<1>1. a \in Nat /\ b \in Nat
  BY AttemptsNat
<1> QED  BY <1>1 DEF OnceSafe, InTurn, Ended

(* Each step of an attempt keeps the order of the frames. *)
LEMMA AttemptOnce ==
  ASSUME TypeOK, OnceSafe, NEW a \in Attempts, Serve(a) \/ ProcessJob(a),
         mode.store, mode.entry = "task", lost' = 0, crashes' = 0
  PROVE  OnceSafe'
<1> USE DEF Ended
<1>0. CopyFresh(a) /\ DeliveryMarked /\ AnswerLast(wire)
  BY Zenon DEF OnceSafe
<1>c. ckpt \in Checkpoints
  BY DEF TypeOK
<1>n. a \in Nat /\ \A b \in Attempts : b \in Nat
  BY AttemptsNat
<1>1. ASSUME OthersKept(a), att[a].pc \notin Ended,
             att[a].pc = "idle" => \A b \in Attempts : b < a => att[b].pc = "retry",
             att'[a].pc # "crashed", CopyFresh(a)', DeliveryMarked', AnswerLast(wire')
      PROVE  OnceSafe'
  <2>1. ASSUME NEW b \in Attempts, b # a
        PROVE  att'[b] = att[b] /\ (b < a => att'[b].pc = "retry") /\ (b > a => att'[b].pc = "idle")
    BY <1>1, <2>1, <1>n, OthersRest DEF OthersKept
  <2>2. ASSUME NEW b \in Attempts PROVE att'[b].pc # "crashed" /\ CopyFresh(b)'
    <3>1. CASE b = a
      BY <1>1, <3>1
    <3>2. CASE b # a
      <4>1. att'[b].pc \in {"retry", "idle"}
        BY <2>1, <3>2, <1>n
      <4> QED  BY <4>1 DEF CopyFresh
    <3> QED  BY <3>1, <3>2
  <2>3. InTurn'
    <3> SUFFICES ASSUME NEW c \in Attempts, NEW b \in Attempts, b < c, att'[c].pc # "idle"
                 PROVE  att'[b].pc = "retry"
      BY DEF InTurn
    <3> QED  BY <2>1, <1>n
  <2> QED  BY <1>1, <2>2, <2>3, Zenon DEF OnceSafe
<1>2. ASSUME OthersKept(a), att[a].pc # "mark", ckpt'.delivered = ckpt.delivered, Answers' = Answers
      PROVE  DeliveryMarked'
  BY <1>0, <1>2 DEF DeliveryMarked, OthersKept
<1> DEFINE Moves == /\ att[a].pc \notin Ended \union {"mark"}
                    /\ att[a].pc = "idle" => \A b \in Attempts : b < a => att[b].pc = "retry"
<1>m. ASSUME Moves, OthersKept(a), ckpt'.delivered = ckpt.delivered, Answers' = Answers,
             att'[a].pc # "crashed", CopyFresh(a)', AnswerLast(wire')
      PROVE  OnceSafe'
  BY <1>m, <1>1, <1>2
<1> HIDE DEF Moves
<1>a. ASSUME NEW noRetry, NEW s \in Streams(a) \union {<<>>}, FailAfter(a, s, noRetry),
             s # <<>> => Answers = {}, Moves
      PROVE  OnceSafe'
  <2>1. OthersKept(a)
    BY <1>a, FailEffect DEF OthersKept
  <2>2. AnswerLast(wire')
    BY <1>0, <1>a, FailAnswerLast
  <2>3. CopyFresh(a)' /\ att'[a].pc # "crashed"
    BY <1>a, FailEffect DEF CopyFresh
  <2> QED  BY <2>1, <2>2, <2>3, <1>m, <1>a, FailEffect
<1>f. ASSUME NEW noRetry, Fail(a, noRetry), Moves PROVE OnceSafe'
  BY <1>f, <1>a DEF Fail
<1>b. ASSUME NEW p, Proceed(a, p), Moves
      PROVE  /\ p \in {"ack", "checkpoint", "finish"} => OnceSafe'
             /\ p = "publish" /\ att[a].pc = "join" => OnceSafe'
  <2>1. OthersKept(a)
    BY <1>b, ProceedEffect DEF OthersKept
  <2>2. ASSUME CopyFresh(a)', att'[a].pc # "crashed" PROVE OnceSafe'
    BY <2>1, <2>2, <1>0, <1>m, <1>b, ProceedEffect
  <2>3. att'[a].pc = p /\ att'[a].snap = att[a].snap /\ Answers' = Answers
    BY <1>b, ProceedEffect
  <2>4. p \in {"ack", "checkpoint", "finish"} => CopyFresh(a)' /\ att'[a].pc # "crashed"
    BY <2>3 DEF CopyFresh
  <2>5. p = "publish" /\ att[a].pc = "join" => CopyFresh(a)' /\ att'[a].pc # "crashed"
    BY <2>3, <1>0 DEF CopyFresh
  <2> QED  BY <2>2, <2>4, <2>5
<1>o. att[a].pc \notin Ended \union {"mark", "idle"} => Moves
  BY DEF Moves
<1>3. CASE Serve(a)
  <2>1. At(a, "idle") /\ MayServe(a)
    BY <1>3 DEF Serve
  <2>2. ASSUME NEW b \in Attempts, b < a PROVE att[b].pc = "retry"
    <3>1. a > 1 /\ a - 1 \in Attempts
      BY <2>2, <1>n, PipelineAssumption DEF Attempts
    <3>2. att[a - 1].pc = "retry"
      BY <2>1, <3>1 DEF MayServe, OnceSafe
    <3>3. b = a - 1 \/ b < a - 1
      BY <2>2, <1>n
    <3> QED  BY <2>2, <3>1, <3>2, <3>3 DEF OnceSafe, InTurn
  <2>3. Moves
    BY <2>1, <2>2 DEF Moves, At
  <2> QED  BY <1>3, <2>3, <1>f, <1>b DEF Serve
<1>4. CASE EnsureAcknowledged(a)
  <2>0. Moves
    BY <1>4, <1>o DEF EnsureAcknowledged, At
  <2>1. ASSUME ackTx' = [ackTx EXCEPT ![a] = "pool"],
               Goto(a, IF mode.overlap THEN "checkpoint" ELSE "ackWait"),
               UNCHANGED <<job, left, doneTx, ckpt, outVars, faultVars, mode>>
        PROVE  OnceSafe'
    <3>1. CopyFresh(a)' /\ att'[a].pc # "crashed"
      BY <2>1, SendAckEffect DEF CopyFresh
    <3> QED  BY <2>0, <2>1, <3>1, <1>0, <1>m, SendAckEffect
  <2> QED  BY <1>4, <2>0, <1>f, <1>b, <2>1 DEF EnsureAcknowledged, ReconcileAckError
<1>5. CASE AwaitAck(a)
  <2>0. Moves
    BY <1>5, <1>o DEF AwaitAck, At
  <2> QED  BY <1>5, <2>0, <1>f, <1>b DEF AwaitAck, ReconcileAckError
<1>6. CASE ReadCheckpoint(a)
  <2>0. Moves
    BY <1>6, <1>o, ReadEffect
  <2>1. att'[a].snap = ckpt /\ att'[a].pc \in {"join", "prepare"} /\ Answers' = Answers
    BY <1>6, ReadEffect
  <2>2. \A b \in Attempts : att[b].pc # "mark"
    <3> SUFFICES ASSUME NEW b \in Attempts PROVE att[b].pc # "mark"
      OBVIOUS
    <3>1. att[a].pc = "checkpoint"
      BY <1>6, ReadEffect
    <3> QED  BY <3>1, <1>n, OthersRest
  <2>3. Answers # {} => ckpt.delivered
    BY <1>0, <2>2 DEF DeliveryMarked
  <2>4. CopyFresh(a)' /\ att'[a].pc # "crashed"
    BY <2>1, <2>3 DEF CopyFresh
  <2> QED  BY <2>0, <2>4, <1>0, <1>m, <1>6, ReadEffect
<1>7. CASE PrepareInference(a)
  <2>0. Moves /\ att[a].pc = "prepare"
    BY <1>7, <1>o DEF PrepareInference, At
  <2>1. ASSUME NEW c, Becomes(a, [att[a] EXCEPT !.pc = "infer", !.clamp = c]),
               UNCHANGED <<chainVars, ckpt, outVars, faultVars, mode>>
        PROVE  OnceSafe'
    <3>1. CopyFresh(a)' /\ att'[a].pc # "crashed"
      BY <1>0, <2>0, <2>1, GateEffect DEF CopyFresh
    <3> QED  BY <2>0, <2>1, <3>1, <1>0, <1>m, GateEffect
  <2> QED  BY <1>7, <2>0, <1>f, <2>1 DEF PrepareInference
<1>8. CASE RunInference(a)
  <2>0. Moves /\ att[a].pc = "infer"
    BY <1>8, <1>o, InferEffect
  <2>1. AnswerLast(wire')
    BY <1>0, <1>8, <2>0, InferEffect, InferAnswerLast
  <2>2. CopyFresh(a)' /\ att'[a].pc # "crashed"
    BY <1>0, <1>8, <2>0, InferEffect DEF CopyFresh
  <2> QED  BY <2>0, <2>1, <2>2, <1>m, <1>8, InferEffect
<1>9. CASE InferenceFails(a)
  <2>0. Moves /\ att[a].pc = "infer"
    BY <1>9, <1>o DEF InferenceFails, At
  <2>1. \A s \in Streams(a) : s # <<>> => Answers = {}
    BY <1>0, <2>0, InferAnswerLast
  <2> QED  BY <1>9, <1>a, <2>0, <2>1 DEF InferenceFails
<1>10. CASE StoreCiphertext(a)
  <2>0. Moves /\ att[a].pc = "store"
    BY <1>10, <1>o, StoreEffect
  <2>1. ckpt'.delivered = ckpt.delivered
    BY <1>10, <1>c, StoreEffect, CheckpointFields
  <2>2. CopyFresh(a)' /\ att'[a].pc # "crashed"
    BY <1>0, <1>10, <2>0, StoreEffect DEF CopyFresh
  <2> QED  BY <2>0, <2>1, <2>2, <1>0, <1>m, <1>10, StoreEffect
<1>11. CASE AwaitAcknowledged(a)
  <2>0. Moves /\ att[a].pc = "join"
    BY <1>11, <1>o DEF AwaitAcknowledged, At
  <2> QED  BY <1>11, <2>0, <1>f, <1>b DEF AwaitAcknowledged
<1>12. CASE PublishResponse(a)
  <2>0. att[a].pc = "publish" /\ att'[a].pc \in {"mark", "blob"} /\ OthersKept(a)
    BY <1>12, PublishEffect
  <2>1. CopyFresh(a)' /\ att'[a].pc # "crashed"
    BY <2>0 DEF CopyFresh
  <2>2. CASE att[a].snap.delivered
    <3>1. Moves
      BY <2>0, <1>o
    <3> QED  BY <2>0, <2>1, <2>2, <3>1, <1>0, <1>m, <1>12, PublishEffect
  <2>3. CASE ~att[a].snap.delivered
    <3>1. Answers = {} /\ att'[a].pc = "mark"
      BY <1>0, <2>0, <2>3, <1>12, PublishEffect DEF CopyFresh
    <3>2. wire' = Append(wire, [type |-> "complete", ct |-> att[a].ct])
      BY <1>12, <2>3, PublishEffect
    <3>3. AnswerLast(wire')
      <4>1. [type |-> "complete", ct |-> att[a].ct] \in Frames /\ wire \in Seq(Frames)
        BY FramesType DEF TypeOK
      <4>2. AnswersIn(wire) = {}
        BY <3>1 DEF AnswersIn, Answers
      <4> QED  BY <1>0, <3>2, <4>1, <4>2, AnswerLastAppend
    <3>4. DeliveryMarked'
      BY <3>1 DEF DeliveryMarked
    <3> QED  BY <2>0, <2>1, <3>3, <3>4, <1>1
  <2> QED  BY <2>2, <2>3
<1>13. CASE RecordDelivered(a)
  <2>1. ckpt'.delivered /\ att[a].pc = "mark" /\ att'[a].pc = "blob" /\ OthersKept(a) /\ wire' = wire
    BY <1>13, <1>c, RecordEffect, CheckpointFields
  <2>2. CopyFresh(a)' /\ DeliveryMarked'
    BY <2>1 DEF CopyFresh, DeliveryMarked
  <2> QED  BY <2>1, <2>2, <1>0, <1>1
<1>14. CASE EnsureBlobSubmitted(a)
  <2>0. Moves
    BY <1>14, <1>o DEF EnsureBlobSubmitted, At
  <2>1. ASSUME NEW x, NEW p, Becomes(a, [att[a] EXCEPT !.vh = x, !.pc = p]),
               UNCHANGED <<chainVars, ckpt, outVars, faultVars, mode>>
        PROVE  p \in {"setHash", "complete"} => OnceSafe'
    <3>1. OthersKept(a) /\ Answers' = Answers /\ UNCHANGED <<ckpt, wire>>
      BY <2>1, BlobEffect
    <3>2. att[a] \in AttemptRec /\ att'[a] = [att[a] EXCEPT !.vh = x, !.pc = p]
      BY <2>1, Locals, LocalsType, Zenon
    <3>3. att'[a].pc = p
      BY <3>2 DEF AttemptRec
    <3>4. p \in {"setHash", "complete"} => CopyFresh(a)' /\ att'[a].pc # "crashed"
      BY <3>3 DEF CopyFresh
    <3> QED  BY <2>0, <3>1, <3>4, <1>0, <1>m
  <2> QED  BY <1>14, <2>0, <1>f, <2>1 DEF EnsureBlobSubmitted, SubmitBlob
<1>15. CASE RecordHash(a)
  <2>0. Moves
    BY <1>15, <1>o, HashEffect
  <2>1. ckpt'.delivered = ckpt.delivered
    BY <1>15, <1>c, HashEffect, CheckpointFields
  <2>2. CopyFresh(a)' /\ att'[a].pc # "crashed"
    BY <1>15, HashEffect DEF CopyFresh
  <2> QED  BY <2>0, <2>1, <2>2, <1>0, <1>m, <1>15, HashEffect
<1>16. CASE CompleteJob(a)
  <2>0. Moves
    BY <1>16, <1>o DEF CompleteJob, At
  <2>1. ASSUME doneTx' = [doneTx EXCEPT ![a] = "pool"], Goto(a, "doneWait"),
               UNCHANGED <<job, left, ackTx, ckpt, outVars, faultVars, mode>>
        PROVE  OnceSafe'
    <3>1. CopyFresh(a)' /\ att'[a].pc # "crashed"
      BY <2>1, SendDoneEffect DEF CopyFresh
    <3> QED  BY <2>0, <2>1, <3>1, <1>0, <1>m, SendDoneEffect
  <2> QED  BY <1>16, <2>0, <2>1, <1>f, <1>b DEF CompleteJob, RecheckCompleted
<1>17. CASE AwaitComplete(a)
  <2>0. Moves
    BY <1>17, <1>o DEF AwaitComplete, At
  <2> QED  BY <1>17, <2>0, <1>f, <1>b DEF AwaitComplete, RecheckCompleted
<1>18. CASE FinishJob(a)
  <2>0. Moves
    BY <1>18, <1>o, FinishEffect
  <2>1. ckpt'.delivered = ckpt.delivered
    BY <1>18, <1>c, FinishEffect, CheckpointFields
  <2>2. CopyFresh(a)' /\ att'[a].pc # "crashed"
    BY <1>18, FinishEffect DEF CopyFresh
  <2> QED  BY <2>0, <2>1, <2>2, <1>0, <1>m, <1>18, FinishEffect
<1> QED
  BY <1>3, <1>4, <1>5, <1>6, <1>7, <1>8, <1>9, <1>10, <1>11, <1>12, <1>13, <1>14,
     <1>15, <1>16, <1>17, <1>18 DEF ProcessJob, Acknowledge, Produce, Settle

(* asynq's retries never show the consumer a second final answer, nor text *)
(* behind the final answer (readCheckpoint, MarkDelivered).                *)
THEOREM AnswerOnce == Spec => []AnsweredOnce
<1>1. Init => OnceInv
  <2> SUFFICES ASSUME Init PROVE OnceSafe
    BY DEF OnceInv
  <2>1. Answers = {}
    BY DEF Init, Answers
  <2> QED
    BY <2>1 DEF Init, OnceSafe, CopyFresh, InTurn, DeliveryMarked, AnswerLast, NotServed
<1>2. TypeOK /\ OnceInv /\ [Next]_vars => OnceInv'
  <2> SUFFICES ASSUME TypeOK, OnceInv, [Next]_vars,
                      mode'.store, mode'.entry = "task", lost' = 0, crashes' = 0
               PROVE  OnceSafe'
    BY DEF OnceInv
  <2>1. mode.store /\ mode.entry = "task" /\ lost = 0 /\ crashes = 0
    BY FaultsCount, CrashesCount
  <2>2. OnceSafe
    BY <2>1 DEF OnceInv
  <2>3. ASSUME UNCHANGED <<ckpt, att, wire>> PROVE OnceSafe'
    BY <2>2, <2>3, SameWire DEF OnceSafe, CopyFresh, InTurn, DeliveryMarked, AnswerLast
  <2>4. CASE \E a \in Attempts : MineAck(a) \/ MineComplete(a)
    BY <2>3, <2>4 DEF MineAck, MineComplete, outVars
  <2>5. CASE Tick \/ Refund \/ UNCHANGED vars
    BY <2>3, <2>5 DEF Tick, Refund, vars, outVars
  <2>6. CASE Expire \/ Crash
    BY <2>6, RedisType, CrashEffect DEF Expire
  <2> QED  BY <2>1, <2>2, <2>4, <2>5, <2>6, AttemptOnce DEF Next
<1>3. OnceInv => AnsweredOnce
  BY DEF OnceInv, OnceSafe, AnswerLast, AnsweredOnce
<1> QED  BY <1>1, <1>2, <1>3, TypeCorrect, PTL DEF Spec
=============================================================================
