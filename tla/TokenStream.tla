---------------------------- MODULE TokenStream ----------------------------
(***************************************************************************)
(* Stages 5 to 7 of a job as the consumer sees them: the model's NDJSON    *)
(* stream, the coalescers and the shared sequence number of chunkStreamer, *)
(* the statistics, source and audio frames, and the complete frame.  What  *)
(* the model has to say is a script of deltas, each text or reasoning; a   *)
(* delta is its position in it.  Several jobs share one publisher.         *)
(***************************************************************************)
EXTENDS FramePublisher, Functions

CONSTANTS Streams,           \* jobs that are streaming
          MaxDeltas,         \* bound on the deltas of a job
          ChunkTokens,       \* STREAM_CHUNK_TOKENS
          ForwardReasoning,  \* STREAM_REASONING
          MaxSound           \* bound on the sound frames of a recording

ASSUME StreamAssumption ==
  /\ MaxDeltas \in Nat /\ ChunkTokens \in Nat \ {0} /\ MaxSound \in Nat
  /\ ForwardReasoning \in BOOLEAN

Kinds == {"text", "reasoning"}
None == "none"

VARIABLES script,    \* per job: the kinds of the deltas the model has to say
          read,      \* per job: deltas read from the body
          pending,   \* per job: the kind of the delta in chunkStreamer.Add
          buf,       \* per job and kind: the deltas in its coalescer
          lastKind,  \* per job
          seq,       \* per job: chunk frames so far
          sound,     \* per job: sound frames so far
          phase      \* per job

jobVars == <<script, read, pending, buf, lastKind, seq, sound, phase>>
vars == <<jobVars, pubVars>>

Phases == {"generate", "flush", "stats", "sources", "audio", "sound", "answer", "end", "failed"}

Chunk(j, s, kind, deltas) ==
  [job |-> j, type |-> "chunk", seq |-> s, kind |-> kind, deltas |-> deltas, posted |-> FALSE]

(* The sources of a search: not numbered, not counted. *)
Metadata(j) ==
  [job |-> j, type |-> "metadata", seq |-> 0, kind |-> None, deltas |-> <<>>, posted |-> FALSE]

Complete(j, total, answer) ==
  [job |-> j, type |-> "complete", seq |-> total, kind |-> None, deltas |-> answer,
   posted |-> FALSE]

Init ==
  /\ PublisherInit
  /\ script \in [Streams -> UNION {[1..n -> Kinds] : n \in 0..MaxDeltas}]
  /\ read = [j \in Streams |-> 0]
  /\ pending = [j \in Streams |-> None]
  /\ buf = [j \in Streams |-> [k \in Kinds |-> <<>>]]
  /\ lastKind = [j \in Streams |-> None]
  /\ seq = [j \in Streams |-> 0]
  /\ sound = [j \in Streams |-> 0]
  /\ phase = [j \in Streams |-> "generate"]

(* The text among the first n deltas of a script.  What has been read of   *)
(* it when the stream ends is the answer that is encrypted and settled.    *)
TextOf(s, n) == SelectSeq([i \in 1..n |-> i], LAMBDA i : s[i] = "text")
Answer(j) == TextOf(script[j], read[j])

----------------------------------------------------------------------------
Goto(j, p) == phase' = [phase EXCEPT ![j] = p]

(* chunkStreamer.publish: the number is taken, then the frame is sent. *)
Emit(j, kind, deltas) ==
  /\ PublishChunk(Chunk(j, seq[j] + 1, kind, deltas))
  /\ seq' = [seq EXCEPT ![j] = @ + 1]

Quiet == UNCHANGED <<pubVars, seq>>

(* tokenCoalescer.Flush *)
Flush(j, k) ==
  /\ Emit(j, k, buf[j][k])
  /\ buf' = [buf EXCEPT ![j][k] = <<>>]

(* newChunkStreamer and the handlers of runInference: text goes to the     *)
(* streamer when there is one, reasoning when it is asked for.             *)
Forwards(k) == SupportsChunks /\ (k = "text" \/ ForwardReasoning)

(* GenerateStream, ChatStream: one line of the body. *)
ReadLine(j) ==
  /\ phase[j] = "generate" /\ pending[j] = None
  /\ read[j] < Len(script[j])
  /\ read' = [read EXCEPT ![j] = @ + 1]
  /\ LET k == script[j][read[j] + 1]
     IN pending' = [pending EXCEPT ![j] = IF Forwards(k) THEN k ELSE None]
  /\ Quiet /\ UNCHANGED <<script, buf, lastKind, sound, phase>>

(* chunkStreamer.Add, its first half: a change of kind flushes the other   *)
(* kind's coalescer.                                                       *)
NeverFlush(j) == FALSE
MustFlush(j) == lastKind[j] \notin {None, pending[j]} /\ buf[j][lastKind[j]] # <<>>

SwitchKind(j) ==
  /\ pending[j] # None /\ MustFlush(j)
  /\ Flush(j, lastKind[j])
  /\ UNCHANGED <<script, read, pending, lastKind, sound, phase>>

(* Its second half, tokenCoalescer.Add: the batch is sent when it is full  *)
(* or its interval has passed.                                             *)
AddDelta(j) ==
  LET k == pending[j]
      batch == Append(buf[j][k], read[j])
  IN /\ k # None /\ ~MustFlush(j)
     /\ \/ /\ Emit(j, k, batch)
           /\ buf' = [buf EXCEPT ![j][k] = <<>>]
        \/ /\ Len(batch) < ChunkTokens
           /\ Quiet
           /\ buf' = [buf EXCEPT ![j][k] = batch]
     /\ lastKind' = [lastKind EXCEPT ![j] = k]
     /\ pending' = [pending EXCEPT ![j] = None]
     /\ UNCHANGED <<script, read, sound, phase>>

(* done=true.  An empty answer is an error. *)
Finished(j) == Goto(j, IF Answer(j) = <<>> THEN "failed" ELSE "flush")

ModelDone(j) ==
  /\ phase[j] = "generate" /\ pending[j] = None
  /\ read[j] = Len(script[j])
  /\ Finished(j)
  /\ Quiet /\ UNCHANGED <<script, read, pending, buf, lastKind, sound>>

(* The body ends before done=true, or holds an error, or the context ends. *)
AcceptTruncated(j) == Finished(j)
Truncated(j) == Goto(j, "failed")

ModelFails(j) ==
  /\ phase[j] = "generate" /\ pending[j] = None
  /\ Truncated(j)
  /\ Quiet /\ UNCHANGED <<script, read, pending, buf, lastKind, sound>>

(* FlushAll: reasoning first, text last. *)
FlushAll(j) ==
  /\ phase[j] = "flush"
  /\ IF \A k \in Kinds : buf[j][k] = <<>>
     THEN Quiet /\ Goto(j, "stats") /\ UNCHANGED buf
     ELSE Flush(j, IF buf[j]["reasoning"] # <<>> THEN "reasoning" ELSE "text") /\ UNCHANGED phase
  /\ UNCHANGED <<script, read, pending, lastKind, sound>>

(* recordStats: nothing without a streamer or without measurements. *)
RecordStats(j) ==
  /\ phase[j] = "stats"
  /\ Goto(j, "sources")
  /\ (SupportsChunks /\ Emit(j, "stats", <<>>)) \/ Quiet
  /\ UNCHANGED <<script, read, pending, buf, lastKind, sound>>

(* The sources of a search; gatewayResponsePublisher drops them. *)
PublishMetadata(j) ==
  /\ phase[j] = "sources"
  /\ Goto(j, "audio")
  /\ (SupportsChunks /\ PublishChunk(Metadata(j))) \/ UNCHANGED pubVars
  /\ UNCHANGED <<script, read, pending, buf, lastKind, seq, sound>>

(* maybeDeliverAudio: a header, sound frames, and a final descriptor when  *)
(* the sound did not break off.                                            *)
AudioHeader(j) ==
  /\ phase[j] = "audio"
  /\ \/ SupportsChunks /\ Emit(j, "audio", <<>>) /\ Goto(j, "sound")
     \/ Quiet /\ Goto(j, "answer")
  /\ UNCHANGED <<script, read, pending, buf, lastKind, sound>>

AudioFrame(j) ==
  /\ phase[j] = "sound" /\ sound[j] < MaxSound
  /\ Emit(j, "audio", <<>>)
  /\ sound' = [sound EXCEPT ![j] = @ + 1]
  /\ UNCHANGED <<script, read, pending, buf, lastKind, phase>>

AudioFinal(j) ==
  /\ phase[j] = "sound"
  /\ (sound[j] > 0 /\ Emit(j, "audio", <<>>)) \/ Quiet
  /\ Goto(j, "answer")
  /\ UNCHANGED <<script, read, pending, buf, lastKind, sound>>

(* Stage 7: the total counts the complete frame. *)
TotalOmitsSelf(j) == seq[j]
TotalFrames(j) == seq[j] + 1

Respond(j) ==
  /\ phase[j] = "answer"
  /\ PublishResponse(Complete(j, TotalFrames(j), Answer(j)))
  /\ Goto(j, "end")
  /\ UNCHANGED <<script, read, pending, buf, lastKind, seq, sound>>

Produce(j) ==
  \/ ReadLine(j) \/ SwitchKind(j) \/ AddDelta(j) \/ ModelDone(j) \/ ModelFails(j)
  \/ FlushAll(j) \/ RecordStats(j) \/ PublishMetadata(j)
  \/ AudioHeader(j) \/ AudioFrame(j) \/ AudioFinal(j) \/ Respond(j)

Next ==
  \/ \E j \in Streams : Produce(j)
  \/ (Break \/ RunStream) /\ UNCHANGED jobVars

Spec == Init /\ [][Next]_vars

(* A job goes on until it ends; Run dials again until it succeeds and the  *)
(* pump writes what is queued.                                             *)
FairSpec ==
  /\ Spec
  /\ \A j \in Streams : WF_vars(Produce(j))
  /\ WF_vars(RunStream /\ UNCHANGED jobVars)

----------------------------------------------------------------------------
(* The type of every variable; a coalescer never keeps a full batch and    *)
(* the frames channel never holds more than streamBufferSize.              *)
TypeOK ==
  /\ publisher \in Publishers
  /\ Len(queue) <= StreamBufferSize
  /\ socket \in {"down", "up", "dying"}
  /\ breaks \in 0..MaxBreaks
  /\ script \in [Streams -> Seq(Kinds)]
  /\ read \in [Streams -> Nat]
  /\ pending \in [Streams -> Kinds \union {None}]
  /\ buf \in [Streams -> [Kinds -> Seq(Nat)]]
  /\ lastKind \in [Streams -> Kinds \union {None}]
  /\ seq \in [Streams -> Nat]
  /\ sound \in [Streams -> 0..MaxSound]
  /\ phase \in [Streams -> Phases]
  /\ \A j \in Streams :
       /\ read[j] <= Len(script[j])
       /\ \A k \in Kinds : /\ Range(buf[j][k]) \subseteq 1..read[j]
                           /\ Len(buf[j][k]) < ChunkTokens

ReceivedAt(j, type) == {i \in DOMAIN received : received[i].job = j /\ received[i].type = type}

(* The chunk frames of a job arrive in the order of their numbers, and     *)
(* their deltas in the order the model produced them.                      *)
ShownInOrder(j) ==
  \A i, k \in ReceivedAt(j, "chunk") :
    /\ i < k => received[i].seq < received[k].seq
    /\ \A p \in DOMAIN received[i].deltas, q \in DOMAIN received[k].deltas :
         (i < k \/ (i = k /\ p < q)) => received[i].deltas[p] < received[k].deltas[q]

(* The text frames that arrived show the text of the script and nothing    *)
(* else.                                                                   *)
AllTextShown(j) ==
  LET shown == UNION {Range(received[i].deltas) :
                        i \in {i \in ReceivedAt(j, "chunk") : received[i].kind = "text"}}
  IN shown = {n \in 1..Len(script[j]) : script[j][n] = "text"}

(* The relay's gap detection works: a consumer that holds as many chunk    *)
(* frames as the complete frame's total announces has been shown the whole *)
(* answer, and whatever the batching, the change of kinds and the losses   *)
(* were, what it has been shown is in the order the model produced it.     *)
GapVisible ==
  \A j \in Streams :
    /\ ShownInOrder(j)
    /\ \A c \in ReceivedAt(j, "complete") :
         LET numbers == {received[i].seq : i \in ReceivedAt(j, "chunk")}
             announced == 1..(received[c].seq - 1)
         IN /\ numbers \subseteq announced
            /\ SupportsChunks /\ announced \subseteq numbers => AllTextShown(j)

(* A complete frame that went through the queue is the job's last frame:   *)
(* only one that was posted over HTTP can overtake chunks.                 *)
CompleteLast ==
  \A j \in Streams : \A c \in ReceivedAt(j, "complete") :
    received[c].posted \/ \A i \in ReceivedAt(j, "chunk") : i < c

(* The answer that is sent, and settled, is all the model had to say, and  *)
(* is never empty: a body that breaks off fails the job.                   *)
WholeAnswer ==
  \A j \in Streams : \A c \in ReceivedAt(j, "complete") :
    received[c].deltas # <<>> /\ received[c].deltas = TextOf(script[j], Len(script[j]))

(* A job that reaches stage 7 gets its complete frame to the consumer,     *)
(* through the queue, a reconnected socket or the HTTP endpoint, unless    *)
(* that very frame is lost.                                                *)
EveryAnswerArrives ==
  \A j \in Streams :
    phase[j] = "end" ~> \/ ReceivedAt(j, "complete") # {}
                        \/ \E f \in lost : f.job = j /\ f.type = "complete"
=============================================================================
