------------------------- MODULE TokenStreamProofs -------------------------
(***************************************************************************)
(* What a consumer sees of an answer: in order, complete when the numbers  *)
(* are, and whole, for any number of jobs, any script, batch size, buffer  *)
(* size and any number of losses and reconnects.                           *)
(***************************************************************************)
EXTENDS TokenStream, SequenceTheorems, TLAPS

(* What a frame may carry: deltas, or an answer. *)
Payload == Seq(Nat) \union {TextOf(s, n) : s \in Seq(Kinds), n \in Nat}

Frame == [job : Streams, type : {"chunk", "metadata", "complete"}, seq : Nat,
          kind : Kinds \union {None, "stats", "audio"}, deltas : Payload, posted : BOOLEAN]

(* Every frame so far, wherever it is. *)
Frames == Range(received) \union Range(queue) \union lost

FrameType == received \in Seq(Frame) /\ queue \in Seq(Frame) /\ lost \in SUBSET Frame

(* The deltas that were read for the consumer and are in no frame yet: in  *)
(* a coalescer, or in chunkStreamer.Add.                                   *)
InAdd(j) == IF pending[j] # None THEN {read[j]} ELSE {}
Buffered(j) == UNION {Range(buf[j][k]) : k \in Kinds}
Waiting(j) == Buffered(j) \union InAdd(j)

(* s is strictly increasing. *)
Rising(s) == \A p, q \in DOMAIN s : p < q => s[p] < s[q]

(* Two frames that may arrive in this order. *)
Before(f, g) ==
  f.job = g.job /\ g.type = "chunk" =>
    /\ f.type = "chunk" => f.seq < g.seq
    /\ f.type = "complete" => f.posted

(* What has arrived and what is queued, one after the other. *)
Line(r, q) ==
  /\ \A i, k \in 1..Len(r) : i < k => Before(r[i], r[k])
  /\ \A i, k \in 1..Len(q) : i < k => Before(q[i], q[k])
  /\ \A i \in 1..Len(r), k \in 1..Len(q) : Before(r[i], q[k])

Flushed == {"stats", "sources", "audio", "sound", "answer", "end"}

JobInv(j) ==
  /\ pending[j] # None =>
       /\ phase[j] = "generate"
       /\ read[j] \in 1..Len(script[j]) /\ script[j][read[j]] = pending[j]
       /\ \A k \in Kinds : \A n \in Range(buf[j][k]) : n < read[j]
  /\ \A k \in Kinds :
       /\ buf[j][k] # <<>> => lastKind[j] = k
       /\ \A n \in Range(buf[j][k]) : script[j][n] = k
       /\ Rising(buf[j][k])
       /\ phase[j] \in Flushed => buf[j][k] = <<>>
  /\ phase[j] \in Flushed \union {"flush"} => read[j] = Len(script[j]) /\ Answer(j) # <<>>

FrameInv(f) ==
  /\ f.type = "complete" =>
       /\ phase[f.job] = "end" /\ f.seq = seq[f.job] + 1
       /\ f.deltas = TextOf(script[f.job], Len(script[f.job])) /\ f.deltas # <<>>
  /\ f.type = "chunk" =>
       /\ f.seq \in 1..seq[f.job]
       /\ f.deltas \in Seq(Nat) /\ Rising(f.deltas)
       /\ Range(f.deltas) \subseteq 1..read[f.job]
       /\ \A m \in Range(f.deltas), n \in Waiting(f.job) : m < n
       /\ \A m \in Range(f.deltas) : script[f.job][m] = f.kind

(* Numbers are used once, and follow the order of the deltas. *)
PairInv(f, g) ==
  f.type = "chunk" /\ g.type = "chunk" /\ f.job = g.job =>
    /\ f.seq = g.seq => f = g
    /\ f.seq < g.seq => \A m \in Range(f.deltas), n \in Range(g.deltas) : m < n

(* A text delta that was read is waiting or in a frame. *)
CoverInv(j) ==
  SupportsChunks =>
    \A n \in 1..read[j] :
      script[j][n] = "text" =>
        \/ n \in Waiting(j)
        \/ \E f \in Frames : f.job = j /\ f.type = "chunk" /\ n \in Range(f.deltas)

(* What the publisher itself keeps. *)
PubInv ==
  /\ FrameType
  /\ publisher \in Publishers /\ socket \in {"down", "up", "dying"} /\ breaks \in 0..MaxBreaks
  /\ Len(queue) <= StreamBufferSize
  /\ publisher = "redis" => queue = <<>>
  /\ Line(received, queue)

(* What is known of the frames. *)
FlowInv ==
  /\ PubInv
  /\ \A f \in Frames : FrameInv(f)
  /\ \A f, g \in Frames : PairInv(f, g)
  /\ \A j \in Streams : CoverInv(j)

(* The types of a job's variables. *)
JobType ==
  /\ script \in [Streams -> Seq(Kinds)]
  /\ read \in [Streams -> Nat]
  /\ pending \in [Streams -> Kinds \union {None}]
  /\ buf \in [Streams -> [Kinds -> Seq(Nat)]]
  /\ lastKind \in [Streams -> Kinds \union {None}]
  /\ seq \in [Streams -> Nat]
  /\ sound \in [Streams -> 0..MaxSound]
  /\ phase \in [Streams -> Phases]

SizeInv(j) ==
  /\ read[j] <= Len(script[j])
  /\ \A k \in Kinds : Range(buf[j][k]) \subseteq 1..read[j] /\ Len(buf[j][k]) < ChunkTokens

StreamInv ==
  /\ JobType
  /\ \A j \in Streams : SizeInv(j) /\ JobInv(j)
  /\ FlowInv

----------------------------------------------------------------------------
(* Sequences. *)

(* What the operations of a queue do to its contents. *)
LEMMA RangeOps ==
  ASSUME NEW S, NEW s \in Seq(S)
  PROVE  /\ Range(<<>>) = {}
         /\ Range(s) \subseteq S
         /\ \A e \in S : Append(s, e) \in Seq(S) /\ Range(Append(s, e)) = Range(s) \union {e}
         /\ s # <<>> => /\ Tail(s) \in Seq(S) /\ Head(s) \in S
                        /\ Range(s) = {Head(s)} \union Range(Tail(s))
<1>1. Range(<<>>) = {} /\ Range(s) \subseteq S
  BY DEF Range
<1>2. ASSUME NEW e \in S
      PROVE  Append(s, e) \in Seq(S) /\ Range(Append(s, e)) = Range(s) \union {e}
  <2>1. Append(s, e) \in Seq(S) /\ Len(Append(s, e)) = Len(s) + 1
    BY AppendProperties
  <2>2. /\ \A i \in 1..Len(s) : Append(s, e)[i] = s[i]
        /\ Append(s, e)[Len(s) + 1] = e
    BY AppendProperties
  <2>3. DOMAIN s = 1..Len(s) /\ DOMAIN Append(s, e) = 1..Len(s) + 1 /\ Len(s) \in Nat
    BY <2>1, LenProperties
  <2> QED BY <2>1, <2>2, <2>3 DEF Range
<1>3. ASSUME s # <<>>
      PROVE  /\ Tail(s) \in Seq(S) /\ Head(s) \in S
             /\ Range(s) = {Head(s)} \union Range(Tail(s))
  <2>1. /\ Head(s) \in S /\ Tail(s) \in Seq(S)
        /\ Len(Tail(s)) = Len(s) - 1
        /\ \A i \in 1..Len(Tail(s)) : Tail(s)[i] = s[i + 1]
    BY <1>3, HeadTailProperties
  <2>2. /\ DOMAIN s = 1..Len(s) /\ DOMAIN Tail(s) = 1..Len(s) - 1 /\ Len(s) \in Nat \ {0}
        /\ Head(s) = s[1]
    BY <1>3, <2>1, LenProperties, EmptySeq
  <2>3. \A i \in 2..Len(s) : s[i] = Tail(s)[i - 1] /\ i - 1 \in 1..Len(s) - 1
    BY <2>1, <2>2
  <2>4. \A i \in 1..Len(s) : i = 1 \/ i \in 2..Len(s)
    BY <2>2
  <2>5. \A i \in 1..Len(s) - 1 : i + 1 \in 1..Len(s)
    BY <2>2
  <2>6. \A i \in 2..Len(s) : s[i] \in Range(Tail(s))
    BY <2>2, <2>3 DEF Range
  <2>7. Range(Tail(s)) \subseteq Range(s)
    <3> SUFFICES ASSUME NEW i \in 1..Len(s) - 1 PROVE Tail(s)[i] \in Range(s)
      BY <2>2 DEF Range
    <3>1. Tail(s)[i] = s[i + 1] /\ i + 1 \in DOMAIN s
      BY <2>1, <2>2, <2>5
    <3> QED BY <3>1 DEF Range
  <2>8. Head(s) \in Range(s)
    BY <2>2 DEF Range
  <2>9. Range(s) \subseteq {Head(s)} \union Range(Tail(s))
    <3> SUFFICES ASSUME NEW i \in 1..Len(s) PROVE s[i] \in {Head(s)} \union Range(Tail(s))
      BY <2>2 DEF Range
    <3> QED BY <2>2, <2>4, <2>6
  <2> QED BY <2>1, <2>7, <2>8, <2>9
<1> QED BY <1>1, <1>2, <1>3

(* A coalescer stays in order. *)
LEMMA RisingAppend ==
  ASSUME NEW s \in Seq(Nat), Rising(s), NEW n \in Nat, \A m \in Range(s) : m < n
  PROVE  Rising(Append(s, n))
<1>1. /\ Len(Append(s, n)) = Len(s) + 1 /\ Append(s, n)[Len(s) + 1] = n
      /\ \A i \in 1..Len(s) : Append(s, n)[i] = s[i]
      /\ Append(s, n) \in Seq(Nat)
  BY AppendProperties
<1>2. DOMAIN s = 1..Len(s) /\ DOMAIN Append(s, n) = 1..Len(s) + 1 /\ Len(s) \in Nat
  BY <1>1, LenProperties
<1>3. \A i \in 1..Len(s) : s[i] < n
  BY <1>2 DEF Range
<1> QED BY <1>1, <1>2, <1>3 DEF Rising

(* A frame that may follow everything that was sent can be sent: queued,   *)
(* or delivered when nothing is queued.                                    *)
LEMMA LineAppend ==
  ASSUME NEW S, NEW r \in Seq(S), NEW q \in Seq(S), NEW f \in S, Line(r, q)
  PROVE  /\ (\A g \in Range(r) \union Range(q) : Before(g, f)) => Line(r, Append(q, f))
         /\ (\A g \in Range(r) : Before(g, f)) /\ (\A g \in Range(q) : Before(f, g)) =>
              Line(Append(r, f), q)
<1>1. ASSUME NEW s \in Seq(S)
      PROVE  /\ Len(Append(s, f)) = Len(s) + 1 /\ Append(s, f)[Len(s) + 1] = f
             /\ \A i \in 1..Len(s) : Append(s, f)[i] = s[i] /\ s[i] \in Range(s)
             /\ Len(s) \in Nat
  BY AppendProperties, LenProperties DEF Range
<1>2. (\A g \in Range(r) \union Range(q) : Before(g, f)) => Line(r, Append(q, f))
  <2> SUFFICES ASSUME \A g \in Range(r) \union Range(q) : Before(g, f)
               PROVE  Line(r, Append(q, f))
    OBVIOUS
  <2>1. /\ \A i \in 1..Len(r) : Before(r[i], f)
        /\ \A i \in 1..Len(q) : Before(q[i], f)
    BY <1>1
  <2>2. \A i, k \in 1..Len(q) + 1 : i < k => Before(Append(q, f)[i], Append(q, f)[k])
    BY <1>1, <2>1 DEF Line
  <2>3. \A i \in 1..Len(r), k \in 1..Len(q) + 1 : Before(r[i], Append(q, f)[k])
    BY <1>1, <2>1 DEF Line
  <2> QED BY <1>1, <2>2, <2>3 DEF Line
<1>3. (\A g \in Range(r) : Before(g, f)) /\ (\A g \in Range(q) : Before(f, g)) =>
        Line(Append(r, f), q)
  <2> SUFFICES ASSUME \A g \in Range(r) : Before(g, f), \A g \in Range(q) : Before(f, g)
               PROVE  Line(Append(r, f), q)
    OBVIOUS
  <2>1. /\ \A i \in 1..Len(r) : Before(r[i], f)
        /\ \A i \in 1..Len(q) : Before(f, q[i])
    BY <1>1
  <2>2. \A i, k \in 1..Len(r) + 1 : i < k => Before(Append(r, f)[i], Append(r, f)[k])
    BY <1>1, <2>1 DEF Line
  <2>3. \A i \in 1..Len(r) + 1, k \in 1..Len(q) : Before(Append(r, f)[i], q[k])
    BY <1>1, <2>1 DEF Line
  <2> QED BY <1>1, <2>2, <2>3 DEF Line
<1> QED BY <1>2, <1>3

(* The pump keeps the order, whether the frame arrives or is lost. *)
LEMMA LinePump ==
  ASSUME NEW S, NEW r \in Seq(S), NEW q \in Seq(S), q # <<>>, Line(r, q)
  PROVE  Line(r, Tail(q)) /\ Line(Append(r, Head(q)), Tail(q))
<1>1. /\ Head(q) = q[1] /\ Head(q) \in S /\ Tail(q) \in Seq(S)
      /\ Len(q) \in Nat \ {0} /\ Len(Tail(q)) = Len(q) - 1
      /\ \A i \in 1..Len(q) - 1 : Tail(q)[i] = q[i + 1] /\ i + 1 \in 1..Len(q)
  BY HeadTailProperties, LenProperties, EmptySeq
<1>2. /\ Len(Append(r, Head(q))) = Len(r) + 1 /\ Append(r, Head(q))[Len(r) + 1] = q[1]
      /\ \A i \in 1..Len(r) : Append(r, Head(q))[i] = r[i]
      /\ Len(r) \in Nat
  BY <1>1, AppendProperties, LenProperties
<1>3. Line(r, Tail(q))
  BY <1>1, <1>2 DEF Line
<1>4. \A k \in 1..Len(q) - 1 : Before(q[1], Tail(q)[k])
  <2> TAKE k \in 1..Len(q) - 1
  <2>1. 1 \in 1..Len(q) /\ k + 1 \in 1..Len(q) /\ 1 < k + 1 /\ Tail(q)[k] = q[k + 1]
    BY <1>1
  <2> QED BY <2>1 DEF Line
<1>5. \A i \in 1..Len(r) : Before(r[i], q[1])
  BY <1>1 DEF Line
<1>6. Line(Append(r, Head(q)), Tail(q))
  <2>1. \A i, k \in 1..Len(r) + 1 : i < k =>
          Before(Append(r, Head(q))[i], Append(r, Head(q))[k])
    BY <1>2, <1>5 DEF Line
  <2>2. \A i \in 1..Len(r) + 1, k \in 1..Len(q) - 1 :
          Before(Append(r, Head(q))[i], Tail(q)[k])
    <3> TAKE i \in 1..Len(r) + 1, k \in 1..Len(q) - 1
    <3>1. CASE i = Len(r) + 1
      BY <1>2, <1>4, <3>1
    <3>2. CASE i \in 1..Len(r)
      BY <1>1, <1>2, <1>3, <3>2 DEF Line
    <3> QED BY <1>2, <3>1, <3>2
  <2> QED BY <1>1, <1>2, <1>3, <2>1, <2>2 DEF Line
<1> QED BY <1>3, <1>6


----------------------------------------------------------------------------
(* The publishers. *)

(* PublishChunk sends the frame, queues it or drops it, and changes no     *)
(* other frame.                                                            *)
LEMMA ChunkPublished ==
  ASSUME PubInv, NEW f \in Frame, \A g \in Frames : Before(g, f), PublishChunk(f)
  PROVE  PubInv' /\ publisher' = publisher /\ Frames' = Frames \union {f}
<1>1. /\ received \in Seq(Frame) /\ queue \in Seq(Frame) /\ lost \in SUBSET Frame
      /\ Line(received, queue) /\ Len(queue) <= StreamBufferSize
      /\ UNCHANGED <<publisher, socket, breaks>>
  BY DEF PubInv, FrameType, PublishChunk
<1>2. /\ \A g \in Range(received) \union Range(queue) : Before(g, f)
      /\ \A g \in Range(received) : Before(g, f)
  BY DEF Frames
<1>3. CASE publisher # "redis" /\ HasRoom /\ Enqueue(f)
  <2>1. queue' = Append(queue, f) /\ received' = received /\ lost' = lost
    BY <1>3 DEF Enqueue
  <2>2. queue' \in Seq(Frame) /\ Range(queue') = Range(queue) \union {f}
    BY <1>1, <2>1, RangeOps
  <2>3. Len(queue') <= StreamBufferSize
    BY <1>1, <1>3, <2>1, AppendProperties, PublisherAssumption DEF HasRoom
  <2>4. Line(received', queue')
    BY <1>1, <1>2, <2>1, LineAppend
  <2>5. Frames' = Frames \union {f}
    BY <2>1, <2>2 DEF Frames
  <2> QED BY <1>1, <1>3, <2>1, <2>2, <2>3, <2>4, <2>5, Zenon DEF PubInv, FrameType
<1>4. CASE publisher = "redis" /\ Deliver(f)
  <2>1. received' = Append(received, f) /\ queue' = queue /\ lost' = lost /\ queue = <<>>
    BY <1>4 DEF Deliver, PubInv
  <2>2. received' \in Seq(Frame) /\ Range(received') = Range(received) \union {f}
    BY <1>1, <2>1, RangeOps
  <2>3. Range(queue) = {}
    BY <1>1, <2>1, RangeOps
  <2>4. Line(received', queue')
    BY <1>1, <1>2, <2>1, <2>3, LineAppend
  <2>5. Frames' = Frames \union {f}
    BY <2>1, <2>2 DEF Frames
  <2> QED BY <1>1, <2>1, <2>2, <2>4, <2>5, Zenon DEF PubInv, FrameType
<1>5. CASE Drop(f)
  <2>1. received' = received /\ queue' = queue /\ lost' = lost \union {f}
    BY <1>5 DEF Drop
  <2>2. Frames' = Frames \union {f}
    BY <2>1 DEF Frames
  <2>3. lost' \in SUBSET Frame
    BY <1>1, <2>1
  <2> QED BY <1>1, <2>1, <2>2, <2>3, Zenon DEF PubInv, FrameType
<1> QED BY <1>3, <1>4, <1>5 DEF PublishChunk, SendNow

(* PublishResponse queues the frame behind the job's chunks, or sends it   *)
(* by another way and marks it so.                                         *)
LEMMA AnswerPublished ==
  ASSUME PubInv, NEW f \in Frame, f.type = "complete", PublishResponse(f)
  PROVE  /\ PubInv' /\ publisher' = publisher
         /\ \E g \in Frame : /\ g.job = f.job /\ g.type = "complete"
                             /\ g.seq = f.seq /\ g.deltas = f.deltas
                             /\ Frames' = Frames \union {g}
<1>1. /\ received \in Seq(Frame) /\ queue \in Seq(Frame) /\ lost \in SUBSET Frame
      /\ Line(received, queue) /\ Len(queue) <= StreamBufferSize
      /\ UNCHANGED <<publisher, socket, breaks>>
  BY DEF PubInv, FrameType, PublishResponse
<1> DEFINE g == [f EXCEPT !.posted = (publisher # "redis")]
<1>2. /\ g \in Frame /\ g.job = f.job /\ g.type = "complete" /\ g.seq = f.seq
      /\ g.deltas = f.deltas
  BY DEF Frame
<1>3. g.posted = (publisher # "redis")
  BY Zenon DEF Frame
<1>4. \A h : Before(h, f) /\ Before(h, g)
  BY <1>2 DEF Before
<1>5. CASE HasRoom /\ Enqueue(f) /\ publisher = "stream"
  <2>1. queue' = Append(queue, f) /\ received' = received /\ lost' = lost
    BY <1>5 DEF Enqueue
  <2>2. queue' \in Seq(Frame) /\ Range(queue') = Range(queue) \union {f}
    BY <1>1, <2>1, RangeOps
  <2>3. Len(queue') <= StreamBufferSize
    BY <1>1, <1>5, <2>1, AppendProperties, PublisherAssumption DEF HasRoom
  <2>4. Line(received', queue')
    BY <1>1, <1>4, <2>1, LineAppend
  <2>5. Frames' = Frames \union {f}
    BY <2>1, <2>2 DEF Frames
  <2>6. PubInv'
    BY <1>1, <1>5, <2>1, <2>2, <2>3, <2>4 DEF PubInv, FrameType
  <2> QED BY <1>1, <2>5, <2>6
<1> HIDE DEF g
<1>6. CASE Deliver(g)
  <2>1. received' = Append(received, g) /\ queue' = queue /\ lost' = lost
    BY <1>6 DEF Deliver
  <2>2. received' \in Seq(Frame) /\ Range(received') = Range(received) \union {g}
    BY <1>1, <1>2, <2>1, RangeOps
  <2>3. \A h \in Range(queue) : Before(g, h)
    <3>1. CASE publisher = "redis"
      <4>1. Range(queue) = {}
        BY <1>1, <3>1, RangeOps DEF PubInv
      <4> QED BY <4>1
    <3>2. CASE publisher # "redis"
      BY <1>2, <1>3, <3>2 DEF Before
    <3> QED BY <3>1, <3>2
  <2>4. Line(received', queue')
    BY <1>1, <1>2, <1>4, <2>1, <2>3, LineAppend
  <2>5. Frames' = Frames \union {g}
    BY <2>1, <2>2 DEF Frames
  <2>6. PubInv'
    BY <1>1, <2>1, <2>2, <2>4, Zenon DEF PubInv, FrameType
  <2> QED BY <1>1, <1>2, <2>5, <2>6
<1>7. CASE Drop(g)
  <2>1. received' = received /\ queue' = queue /\ lost' = lost \union {g}
    BY <1>7 DEF Drop
  <2>2. Frames' = Frames \union {g}
    BY <2>1 DEF Frames
  <2>3. lost' \in SUBSET Frame
    BY <1>1, <1>2, <2>1
  <2>4. PubInv'
    BY <1>1, <2>1, <2>3, Zenon DEF PubInv, FrameType
  <2> QED BY <1>1, <1>2, <2>2, <2>4
<1> QED BY <1>5, <1>6, <1>7, Zenon DEF PublishResponse, SendNow, g

(* The background loop moves frames from the queue to the consumer, or     *)
(* loses them.                                                             *)
LEMMA LoopMoves ==
  ASSUME PubInv, Break \/ RunStream
  PROVE  PubInv' /\ publisher' = publisher /\ Frames' = Frames
<1>1. /\ received \in Seq(Frame) /\ queue \in Seq(Frame) /\ lost \in SUBSET Frame
      /\ Line(received, queue) /\ Len(queue) <= StreamBufferSize
      /\ breaks \in 0..MaxBreaks
  BY DEF PubInv, FrameType
<1>2. CASE Dial \/ NoticeBreak
  <2>1. /\ UNCHANGED <<publisher, queue, received, lost, breaks>>
        /\ socket' \in {"down", "up", "dying"}
    BY <1>2 DEF Dial, NoticeBreak
  <2> QED BY <2>1 DEF PubInv, FrameType, Frames
<1>3. CASE Break
  <2>1. breaks' \in 0..MaxBreaks
    BY <1>1, <1>3, PublisherAssumption DEF Break
  <2> QED BY <1>3, <2>1 DEF PubInv, FrameType, Frames, Break
<1>4. ASSUME queue # <<>>
      PROVE  /\ Head(queue) \in Frame /\ Tail(queue) \in Seq(Frame)
             /\ Range(queue) = {Head(queue)} \union Range(Tail(queue))
             /\ Len(Tail(queue)) <= StreamBufferSize /\ publisher # "redis"
             /\ Line(received, Tail(queue)) /\ Line(Append(received, Head(queue)), Tail(queue))
  <2>1. Len(Tail(queue)) = Len(queue) - 1 /\ Len(queue) \in Nat
    BY <1>1, <1>4, HeadTailProperties
  <2> QED BY <1>1, <1>4, <2>1, RangeOps, LinePump, PublisherAssumption DEF PubInv
<1>5. CASE Pump
  <2>1. /\ queue # <<>> /\ received' = Append(received, Head(queue)) /\ queue' = Tail(queue)
        /\ UNCHANGED <<publisher, socket, lost, breaks>>
    BY <1>5 DEF Pump
  <2>2. received' \in Seq(Frame) /\ Range(received') = Range(received) \union {Head(queue)}
    BY <1>1, <1>4, <2>1, RangeOps
  <2>3. Frames' = Frames
    BY <1>4, <2>1, <2>2 DEF Frames
  <2> QED BY <1>1, <1>4, <2>1, <2>2, <2>3 DEF PubInv, FrameType
<1>6. CASE PumpFails
  <2>1. /\ queue # <<>> /\ lost' = lost \union {Head(queue)} /\ queue' = Tail(queue)
        /\ UNCHANGED <<publisher, received, breaks>> /\ socket' \in {"dying", "down"}
    BY <1>6 DEF PumpFails
  <2>2. lost' \in SUBSET Frame
    BY <1>1, <1>4, <2>1
  <2>3. Frames' = Frames
    BY <1>4, <2>1 DEF Frames
  <2> QED BY <1>1, <1>4, <2>1, <2>2, <2>3 DEF PubInv, FrameType
<1> QED BY <1>2, <1>3, <1>5, <1>6 DEF RunStream

----------------------------------------------------------------------------
(* Deltas and frames. *)

(* A delta waits in a coalescer or in chunkStreamer.Add. *)
LEMMA WaitingIs ==
  ASSUME NEW j \in Streams, NEW n
  PROVE  /\ n \in Waiting(j) <=> \/ \E k \in Kinds : n \in Range(buf[j][k])
                                 \/ n = read[j] /\ pending[j] # None
         /\ n \in Waiting(j)' <=> \/ \E k \in Kinds : n \in Range(buf'[j][k])
                                  \/ n = read'[j] /\ pending'[j] # None
<1> USE DEF Waiting, Buffered, InAdd
<1>1. n \in Waiting(j) <=> \/ \E k \in Kinds : n \in Range(buf[j][k])
                           \/ n = read[j] /\ pending[j] # None
  OBVIOUS
<1>2. n \in Waiting(j)' <=> \/ \E k \in Kinds : n \in Range(buf'[j][k])
                            \/ n = read'[j] /\ pending'[j] # None
  OBVIOUS
<1> QED BY <1>1, <1>2

(* Job i is as it was. *)
Same(i) ==
  /\ read'[i] = read[i] /\ pending'[i] = pending[i] /\ buf'[i] = buf[i]
  /\ lastKind'[i] = lastKind[i] /\ seq'[i] = seq[i] /\ phase'[i] = phase[i]

(* What holds of a job that a step leaves alone holds after it. *)
LEMMA SameJob ==
  ASSUME NEW i \in Streams, script' = script, Same(i)
  PROVE  /\ Waiting(i)' = Waiting(i)
         /\ JobInv(i) => JobInv(i)'
         /\ SizeInv(i) => SizeInv(i)'
<1>1. Waiting(i)' = Waiting(i)
  BY DEF Same, Waiting, Buffered, InAdd
<1>2. JobInv(i) => JobInv(i)'
  BY DEF Same, JobInv, Answer
<1>3. SizeInv(i) => SizeInv(i)'
  BY DEF Same, SizeInv
<1> QED BY <1>1, <1>2, <1>3

(* A chunk frame with the next number takes the deltas that waited         *)
(* longest.                                                                *)
LEMMA FlowEmits ==
  ASSUME JobType, JobType', FlowInv, NEW j \in Streams, NEW kind, NEW deltas \in Seq(Nat),
         script' = script, read' = read, phase[j] # "end",
         Emit(j, kind, deltas), kind \in Kinds \union {"stats", "audio"},
         \A i \in Streams \ {j} : Same(i),
         Range(deltas) \subseteq Waiting(j), Range(deltas) \subseteq 1..read[j],
         \A n : n \in Waiting(j)' <=> n \in Waiting(j) /\ n \notin Range(deltas),
         \A m \in Range(deltas), n \in Waiting(j)' : m < n,
         \A m \in Range(deltas) : script[j][m] = kind,
         Rising(deltas)
  PROVE  FlowInv'
<1>0. PICK f : f = Chunk(j, seq[j] + 1, kind, deltas)
  OBVIOUS
<1>1. /\ f.job = j /\ f.type = "chunk" /\ f.seq = seq[j] + 1 /\ f.kind = kind
      /\ f.deltas = deltas /\ f \in Frame /\ PublishChunk(f)
      /\ seq' = [seq EXCEPT ![j] = @ + 1] /\ seq[j] \in Nat
  BY <1>0 DEF Chunk, Emit, Frame, Payload, JobType
<1>2. /\ PubInv
      /\ \A g \in Frames : FrameInv(g)
      /\ \A g, h \in Frames : PairInv(g, h)
      /\ \A i \in Streams : CoverInv(i)
  BY DEF FlowInv
<1>3. \A g \in Frames : g \in Frame
  BY <1>2, RangeOps DEF PubInv, FrameType, Frames
<1>4. \A g \in Frames : g.job = j =>
        /\ g.type # "complete"
        /\ g.type = "chunk" => g.seq \in 1..seq[j] /\ \A m \in Range(g.deltas), n \in Waiting(j) : m < n
  BY <1>2 DEF FrameInv
<1>5. \A g \in Frames : Before(g, f)
  BY <1>1, <1>4 DEF Before
<1>6. PubInv' /\ publisher' = publisher /\ Frames' = Frames \union {f}
  BY <1>1, <1>2, <1>5, ChunkPublished
<1>7. /\ seq'[j] = seq[j] + 1
      /\ \A i \in Streams \ {j} :
           seq'[i] = seq[i] /\ phase'[i] = phase[i] /\ Waiting(i)' = Waiting(i)
  BY <1>1, SameJob DEF Same, JobType
<1>8. ASSUME NEW g \in Frames
      PROVE  FrameInv(g)'
  <2>1. g.job \in Streams /\ FrameInv(g)
    BY <1>2, <1>3 DEF Frame
  <2>2. CASE g.job # j
    BY <1>7, <2>1, <2>2 DEF FrameInv
  <2>3. CASE g.job = j
    BY <1>1, <1>4, <1>7, <2>1, <2>3 DEF FrameInv
  <2> QED BY <2>2, <2>3
<1>9. FrameInv(f)'
  <2>1. f.seq \in 1..seq'[j] /\ f.type # "complete"
    BY <1>1, <1>7
  <2>2. \A m \in Range(f.deltas), n \in Waiting(j)' : m < n
    BY <1>1
  <2>3. \A m \in Range(f.deltas) : script'[j][m] = f.kind
    BY <1>1
  <2>4. f.deltas \in Seq(Nat) /\ Rising(f.deltas) /\ Range(f.deltas) \subseteq 1..read'[j]
    BY <1>1
  <2> QED BY <1>1, <2>1, <2>2, <2>3, <2>4, Zenon DEF FrameInv
<1>10. \A g \in Frames : PairInv(g, f) /\ PairInv(f, g)
  BY <1>1, <1>4 DEF PairInv
<1>11. PairInv(f, f)
  BY <1>1 DEF PairInv
<1>12. (\A g, h \in Frames : PairInv(g, h))'
  BY <1>2, <1>6, <1>10, <1>11 DEF PairInv
<1>13. ASSUME NEW i \in Streams
       PROVE  CoverInv(i)'
  <2> SUFFICES ASSUME SupportsChunks, NEW n \in 1..read[i], script[i][n] = "text",
                      n \notin Waiting(i)'
               PROVE  \E g \in Frames' : g.job = i /\ g.type = "chunk" /\ n \in Range(g.deltas)
    BY <1>6 DEF CoverInv, SupportsChunks
  <2>1. n \in Waiting(i) \/ \E g \in Frames : g.job = i /\ g.type = "chunk" /\ n \in Range(g.deltas)
    BY <1>2 DEF CoverInv
  <2>2. CASE n \in Waiting(i)
    <3>1. i = j /\ n \in Range(deltas)
      BY <1>7, <2>2
    <3> QED BY <1>1, <1>6, <3>1
  <2> QED BY <1>6, <2>1, <2>2
<1>14. \A g \in Frames' : FrameInv(g)'
  BY <1>6, <1>8, <1>9
<1> QED BY <1>6, <1>12, <1>13, <1>14, Zenon DEF FlowInv

(* Job i has read what it had read, or one delta more.                     *)
Reads(i) ==
  \/ read'[i] = read[i] /\ Waiting(i)' = Waiting(i)
  \/ /\ read'[i] = read[i] + 1
     /\ Waiting(i) \subseteq Waiting(i)'
     /\ Waiting(i)' \subseteq Waiting(i) \union {read[i] + 1}
     /\ SupportsChunks /\ script[i][read[i] + 1] = "text" => read[i] + 1 \in Waiting(i)'

(* Steps that send no chunk. *)
LEMMA FlowStays ==
  ASSUME JobType, FlowInv, PubInv', publisher' = publisher, script' = script, seq' = seq,
         Frames \subseteq Frames',
         \A f \in Frames' : f \in Frames \/ (f.type # "chunk" /\ FrameInv(f)'),
         \A i \in Streams : Reads(i) /\ (phase[i] = "end" => phase'[i] = "end")
  PROVE  FlowInv'
<1>1. /\ PubInv
      /\ \A g \in Frames : FrameInv(g)
      /\ \A g, h \in Frames : PairInv(g, h)
      /\ \A i \in Streams : CoverInv(i)
  BY DEF FlowInv
<1>2. \A g \in Frames : g \in Frame
  BY <1>1, RangeOps DEF PubInv, FrameType, Frames
<1>3. ASSUME NEW g \in Frames
      PROVE  FrameInv(g)'
  <2>1. g.job \in Streams /\ FrameInv(g) /\ Reads(g.job) /\ read[g.job] \in Nat
    BY <1>1, <1>2 DEF Frame, JobType
  <2>2. CASE g.type = "chunk"
    <3>1. Range(g.deltas) \subseteq 1..read'[g.job]
      BY <2>1, <2>2 DEF FrameInv, Reads
    <3>2. \A m \in Range(g.deltas), n \in Waiting(g.job)' : m < n
      BY <2>1, <2>2 DEF FrameInv, Reads
    <3> QED BY <2>1, <2>2, <3>1, <3>2 DEF FrameInv
  <2>3. CASE g.type # "chunk"
    BY <2>1, <2>3 DEF FrameInv
  <2> QED BY <2>2, <2>3
<1>4. (\A g, h \in Frames : PairInv(g, h))'
  <2> SUFFICES ASSUME NEW g \in Frames', NEW h \in Frames', g.type = "chunk", h.type = "chunk"
               PROVE  PairInv(g, h)
    BY DEF PairInv
  <2> QED BY <1>1
<1>5. ASSUME NEW i \in Streams
      PROVE  CoverInv(i)'
  <2> SUFFICES ASSUME SupportsChunks, NEW n \in 1..read'[i], script[i][n] = "text",
                      n \notin Waiting(i)'
               PROVE  \E g \in Frames : g.job = i /\ g.type = "chunk" /\ n \in Range(g.deltas)
    BY DEF CoverInv, SupportsChunks
  <2>1. n \in 1..read[i] /\ n \notin Waiting(i)
    <3>1. Reads(i) /\ read[i] \in Nat
      BY DEF JobType
    <3>2. CASE read'[i] = read[i] /\ Waiting(i)' = Waiting(i)
      BY <3>2
    <3>3. CASE /\ read'[i] = read[i] + 1 /\ Waiting(i) \subseteq Waiting(i)'
               /\ SupportsChunks /\ script[i][read[i] + 1] = "text" => read[i] + 1 \in Waiting(i)'
      BY <3>1, <3>3
    <3> QED BY <3>1, <3>2, <3>3 DEF Reads
  <2> QED BY <1>1, <2>1 DEF CoverInv
<1>6. \A g \in Frames' : FrameInv(g)'
  BY <1>3
<1> QED BY <1>4, <1>5, <1>6 DEF FlowInv

----------------------------------------------------------------------------
(* The steps of a job. *)

(* A step of one job leaves the others alone. *)
LEMMA OneJob ==
  ASSUME StreamInv, NEW j \in Streams, script' = script, JobType',
         \A i \in Streams \ {j} : Same(i), SizeInv(j)', JobInv(j)', FlowInv'
  PROVE  StreamInv'
<1>1. ASSUME NEW i \in Streams
      PROVE  SizeInv(i)' /\ JobInv(i)'
  <2>1. CASE i # j
    BY <2>1, SameJob DEF StreamInv
  <2> QED BY <2>1
<1> QED BY <1>1 DEF StreamInv

(* Nothing is sent. *)
LEMMA FlowQuiet ==
  ASSUME JobType, FlowInv, Quiet, script' = script,
         \A i \in Streams : Reads(i) /\ (phase[i] = "end" => phase'[i] = "end")
  PROVE  FlowInv'
<1>1. PubInv' /\ publisher' = publisher /\ seq' = seq /\ Frames' = Frames
  BY DEF FlowInv, Quiet, pubVars, PubInv, FrameType, Frames
<1> QED BY <1>1, FlowStays

(* A frame without deltas is sent: statistics or audio. *)
LEMMA FlowEmpty ==
  ASSUME JobType, JobType', FlowInv, NEW j \in Streams, NEW kind \in {"stats", "audio"},
         Emit(j, kind, <<>>), phase[j] # "end", UNCHANGED <<script, read, pending, buf>>,
         \A i \in Streams \ {j} : Same(i)
  PROVE  FlowInv'
<1>1. Range(<<>>) = {} /\ <<>> \in Seq(Nat) /\ Rising(<<>>)
  <2>1. <<>> \in Seq(Nat) /\ DOMAIN <<>> = {}
    OBVIOUS
  <2> QED BY <2>1 DEF Rising, Range
<1>2. \A n : n \in Waiting(j)' <=> n \in Waiting(j)
  BY DEF Waiting, Buffered, InAdd
<1>3. \A n : n \in Waiting(j)' <=> n \in Waiting(j) /\ n \notin Range(<<>>)
  BY <1>1, <1>2
<1>4. /\ Range(<<>>) \subseteq Waiting(j) /\ Range(<<>>) \subseteq 1..read[j]
      /\ \A m \in Range(<<>>), n \in Waiting(j)' : m < n
      /\ \A m \in Range(<<>>) : script[j][m] = kind
  BY <1>1
<1> QED BY <1>1, <1>3, <1>4, FlowEmits

(* After the flush a job only moves on. *)
LEMMA PhaseStep ==
  ASSUME JobType, NEW j \in Streams, SizeInv(j), JobInv(j), phase[j] \in Flushed,
         NEW p \in Flushed, Goto(j, p) \/ (p = phase[j] /\ phase' = phase),
         UNCHANGED <<script, read, pending, buf, lastKind>>
  PROVE  /\ phase' \in [Streams -> Phases] /\ phase'[j] = p
         /\ \A i \in Streams \ {j} : phase'[i] = phase[i]
         /\ SizeInv(j)' /\ JobInv(j)'
         /\ \A i \in Streams : Waiting(i)' = Waiting(i)
<1>1. /\ phase' \in [Streams -> Phases] /\ phase'[j] = p
      /\ \A i \in Streams \ {j} : phase'[i] = phase[i]
  BY DEF JobType, Goto, Flushed, Phases
<1>2. SizeInv(j)'
  BY DEF SizeInv
<1>3. \A i \in Streams : Waiting(i)' = Waiting(i)
  BY DEF Waiting, Buffered, InAdd
<1>4. pending[j] = None /\ phase[j] # "generate"
  BY DEF JobInv, Flushed
<1>5. JobInv(j)'
  BY <1>1, <1>4 DEF JobInv, Answer
<1> QED BY <1>1, <1>2, <1>3, <1>5

(* The stages after the flush: their frames carry no text, the complete    *)
(* frame carries the answer.                                               *)
LEMMA LateStages ==
  ASSUME StreamInv, NEW j \in Streams,
         \/ RecordStats(j) \/ PublishMetadata(j) \/ AudioHeader(j) \/ AudioFrame(j)
         \/ AudioFinal(j) \/ Respond(j)
  PROVE  StreamInv'
<1>1. JobType /\ SizeInv(j) /\ JobInv(j) /\ FlowInv /\ PubInv
  BY DEF StreamInv, FlowInv
<1>2. /\ UNCHANGED <<script, read, pending, buf, lastKind>>
      /\ phase[j] \in Flushed /\ phase[j] # "end"
  BY DEF RecordStats, PublishMetadata, AudioHeader, AudioFrame, AudioFinal, Respond, Flushed
<1>3. \E p \in Flushed : Goto(j, p) \/ (p = phase[j] /\ phase' = phase)
  BY DEF RecordStats, PublishMetadata, AudioHeader, AudioFrame, AudioFinal, Respond, Flushed
<1>4. /\ phase' \in [Streams -> Phases]
      /\ \A i \in Streams \ {j} : phase'[i] = phase[i]
      /\ SizeInv(j)' /\ JobInv(j)'
      /\ \A i \in Streams : Waiting(i)' = Waiting(i)
  BY <1>1, <1>2, <1>3, PhaseStep
<1>5. sound' \in [Streams -> 0..MaxSound]
  <2>1. CASE AudioFrame(j)
    BY <1>1, <2>1, StreamAssumption DEF AudioFrame, JobType
  <2>2. CASE ~AudioFrame(j)
    BY <1>1, <2>2 DEF RecordStats, PublishMetadata, AudioHeader, AudioFinal, Respond, JobType
  <2> QED BY <2>1, <2>2
<1>6. ASSUME seq' \in [Streams -> Nat], \A i \in Streams \ {j} : seq'[i] = seq[i]
      PROVE  JobType' /\ \A i \in Streams \ {j} : Same(i)
  BY <1>1, <1>2, <1>4, <1>5, <1>6 DEF JobType, Same
<1>7. \A i \in Streams : Reads(i) /\ (phase[i] = "end" => phase'[i] = "end")
  BY <1>2, <1>4 DEF Reads
<1>8. ASSUME NEW kind \in {"stats", "audio"}, Emit(j, kind, <<>>)
      PROVE  StreamInv'
  <2>1. seq' \in [Streams -> Nat] /\ \A i \in Streams \ {j} : seq'[i] = seq[i]
    BY <1>1, <1>8 DEF Emit, JobType
  <2>2. FlowInv'
    BY <1>1, <1>2, <1>6, <1>8, <2>1, FlowEmpty
  <2> QED BY <1>2, <1>4, <1>6, <2>1, <2>2, OneJob
<1>9. ASSUME seq' = seq, FlowInv'
      PROVE  StreamInv'
  <2>1. seq' \in [Streams -> Nat] /\ \A i \in Streams \ {j} : seq'[i] = seq[i]
    BY <1>1, <1>9 DEF JobType
  <2> QED BY <1>2, <1>4, <1>6, <1>9, <2>1, OneJob
<1>10. ASSUME Quiet
       PROVE  StreamInv'
  <2>1. FlowInv' /\ seq' = seq
    BY <1>1, <1>2, <1>7, <1>10, FlowQuiet DEF Quiet
  <2> QED BY <1>9, <2>1
<1>11. CASE RecordStats(j) \/ AudioHeader(j) \/ AudioFrame(j) \/ AudioFinal(j)
  <2>1. Quiet \/ Emit(j, "stats", <<>>) \/ Emit(j, "audio", <<>>)
    BY <1>11 DEF RecordStats, AudioHeader, AudioFrame, AudioFinal
  <2> QED BY <1>8, <1>10, <2>1
<1>12. CASE PublishMetadata(j)
  <2>1. seq' = seq
    BY <1>12 DEF PublishMetadata
  <2>2. CASE UNCHANGED pubVars
    BY <1>10, <2>1, <2>2 DEF Quiet
  <2>3. CASE PublishChunk(Metadata(j))
    <3>1. PICK f : f = Metadata(j)
      OBVIOUS
    <3>2. f \in Frame /\ f.type = "metadata"
      BY <3>1 DEF Metadata, Frame, Payload, Kinds
    <3>3. \A g : Before(g, f)
      BY <3>2 DEF Before
    <3>4. PubInv' /\ publisher' = publisher /\ Frames' = Frames \union {f}
      BY <1>1, <2>3, <3>1, <3>2, <3>3, ChunkPublished
    <3>5. f.type # "chunk" /\ FrameInv(f)'
      BY <3>2 DEF FrameInv
    <3>6. \A g \in Frames' : g \in Frames \/ (g.type # "chunk" /\ FrameInv(g)')
      BY <3>4, <3>5
    <3>7. FlowInv'
      BY <1>1, <1>2, <1>7, <2>1, <3>4, <3>6, FlowStays
    <3> QED BY <1>9, <2>1, <3>7
  <2> QED BY <1>12, <2>2, <2>3 DEF PublishMetadata
<1>13. CASE Respond(j)
  <2>1. seq' = seq /\ seq[j] \in Nat /\ phase[j] = "answer"
    BY <1>1, <1>13 DEF Respond, JobType
  <2>2. read[j] = Len(script[j]) /\ Answer(j) # <<>> /\ script[j] \in Seq(Kinds) /\ read[j] \in Nat
    BY <1>1, <1>2 DEF JobInv, JobType
  <2>3. PICK f : f = Complete(j, TotalFrames(j), Answer(j))
    OBVIOUS
  <2>4. /\ f.job = j /\ f.type = "complete" /\ f.seq = seq[j] + 1
        /\ f.deltas = TextOf(script[j], Len(script[j])) /\ f.deltas # <<>>
    BY <2>2, <2>3 DEF Complete, TotalFrames, Answer
  <2>5. Answer(j) \in Payload
    BY <2>2 DEF Payload, Answer
  <2>6. f \in Frame
    BY <2>1, <2>3, <2>5 DEF Complete, TotalFrames, Frame
  <2>7. PublishResponse(f) /\ Goto(j, "end")
    BY <1>13, <2>3 DEF Respond
  <2>8. PubInv' /\ publisher' = publisher
    BY <1>1, <2>4, <2>6, <2>7, AnswerPublished
  <2>9. PICK g \in Frame : /\ g.job = j /\ g.type = "complete"
                           /\ g.seq = f.seq /\ g.deltas = f.deltas
                           /\ Frames' = Frames \union {g}
    BY <1>1, <2>4, <2>6, <2>7, AnswerPublished
  <2>10. phase'[j] = "end"
    BY <1>1, <2>7 DEF Goto, JobType
  <2>11. g.type # "chunk" /\ FrameInv(g)'
    BY <1>2, <2>1, <2>4, <2>9, <2>10 DEF FrameInv
  <2>12. \A h \in Frames' : h \in Frames \/ (h.type # "chunk" /\ FrameInv(h)')
    BY <2>9, <2>11
  <2>13. FlowInv'
    BY <1>1, <1>2, <1>7, <2>1, <2>8, <2>9, <2>12, FlowStays
  <2> QED BY <1>9, <2>1, <2>13
<1> QED BY <1>11, <1>12, <1>13

(* A line of the body: a delta that is forwarded waits from now on. *)
LEMMA Reading ==
  ASSUME StreamInv, NEW j \in Streams, ReadLine(j)
  PROVE  StreamInv'
<1> DEFINE k == script[j][read[j] + 1]
<1>1. JobType /\ SizeInv(j) /\ JobInv(j) /\ FlowInv
  BY DEF StreamInv
<1>2. /\ phase[j] = "generate" /\ pending[j] = None /\ read[j] < Len(script[j])
      /\ read' = [read EXCEPT ![j] = @ + 1]
      /\ pending' = [pending EXCEPT ![j] = IF Forwards(k) THEN k ELSE None]
      /\ Quiet /\ UNCHANGED <<script, buf, lastKind, sound, phase>>
  BY DEF ReadLine
<1>3. read[j] \in Nat /\ script[j] \in Seq(Kinds) /\ Len(script[j]) \in Nat /\ seq' = seq
  BY <1>1, <1>2 DEF JobType, Quiet
<1>4. read[j] + 1 \in 1..Len(script[j]) /\ k \in Kinds
  BY <1>2, <1>3
<1>5. None \notin Kinds
  BY DEF None, Kinds
<1>6. /\ read'[j] = read[j] + 1 /\ pending'[j] = IF Forwards(k) THEN k ELSE None
      /\ \A i \in Streams \ {j} : Same(i)
  BY <1>1, <1>2, <1>3 DEF JobType, Same
<1>7. JobType'
  BY <1>1, <1>2, <1>3, <1>4 DEF JobType
<1>8. \A l \in Kinds : \A n \in Range(buf[j][l]) : n \in 1..read[j]
  BY <1>1 DEF SizeInv
<1>9. SizeInv(j)'
  <2>1. read'[j] <= Len(script'[j])
    BY <1>2, <1>4, <1>6
  <2>2. \A l \in Kinds : Range(buf'[j][l]) \subseteq 1..read'[j]
    <3>1. \A n \in 1..read[j] : n \in 1..read'[j]
      BY <1>3, <1>6
    <3>2. buf' = buf
      BY <1>2
    <3> QED BY <1>8, <3>1, <3>2
  <2>3. \A l \in Kinds : Len(buf'[j][l]) < ChunkTokens
    BY <1>1, <1>2 DEF SizeInv
  <2> QED BY <2>1, <2>2, <2>3 DEF SizeInv
<1>10. JobInv(j)'
  <2>1. phase'[j] = "generate" /\ phase'[j] \notin Flushed \union {"flush"}
    BY <1>2 DEF Flushed
  <2>2. pending'[j] # None => script'[j][read'[j]] = pending'[j]
    BY <1>2, <1>6
  <2>3. \A l \in Kinds : \A n \in Range(buf'[j][l]) : n < read'[j]
    BY <1>2, <1>3, <1>6, <1>8
  <2>4. read'[j] \in 1..Len(script'[j])
    BY <1>2, <1>4, <1>6
  <2>5. \A l \in Kinds : /\ buf'[j][l] # <<>> => lastKind'[j] = l
                         /\ \A n \in Range(buf'[j][l]) : script'[j][n] = l
                         /\ Rising(buf'[j][l])
    BY <1>1, <1>2 DEF JobInv
  <2> QED BY <2>1, <2>2, <2>3, <2>4, <2>5 DEF JobInv
<1>11. Reads(j)
  <2>1. Waiting(j) \subseteq Waiting(j)'
    BY <1>2, WaitingIs
  <2>2. Waiting(j)' \subseteq Waiting(j) \union {read[j] + 1}
    BY <1>2, <1>6, WaitingIs
  <2>3. ASSUME SupportsChunks, k = "text"
        PROVE  read[j] + 1 \in Waiting(j)'
    <3>1. pending'[j] # None
      BY <1>4, <1>5, <1>6, <2>3 DEF Forwards
    <3> QED BY <1>6, <3>1, WaitingIs
  <2> QED BY <1>6, <2>1, <2>2, <2>3 DEF Reads
<1>12. \A i \in Streams : Reads(i) /\ (phase[i] = "end" => phase'[i] = "end")
  BY <1>2, <1>6, <1>11, SameJob DEF Reads, Same
<1>13. FlowInv'
  BY <1>1, <1>2, <1>12, FlowQuiet
<1> QED BY <1>2, <1>6, <1>7, <1>9, <1>10, <1>13, OneJob

(* The batch of one kind is sent while the other coalescer is empty and    *)
(* whatever still waits was read later.                                    *)
LEMMA Flushing ==
  ASSUME StreamInv, NEW j \in Streams, NEW k \in Kinds, buf[j][k] # <<>>,
         phase[j] \in {"generate", "flush"}, Flush(j, k),
         UNCHANGED <<script, read, pending, lastKind, sound, phase>>
  PROVE  StreamInv'
<1>1. JobType /\ SizeInv(j) /\ JobInv(j) /\ FlowInv
  BY DEF StreamInv
<1>2. PICK d : d = buf[j][k]
  OBVIOUS
<1>3. /\ d \in Seq(Nat) /\ Rising(d) /\ Range(d) \subseteq 1..read[j] /\ read[j] \in Nat
      /\ \A m \in Range(d) : script[j][m] = k
  BY <1>1, <1>2 DEF JobType, SizeInv, JobInv
<1>4. Emit(j, k, d) /\ buf' = [buf EXCEPT ![j][k] = <<>>] /\ seq' = [seq EXCEPT ![j] = @ + 1]
  BY <1>2 DEF Flush, Emit
<1>5. /\ buf'[j][k] = <<>> /\ \A l \in Kinds \ {k} : buf'[j][l] = buf[j][l] /\ buf[j][l] = <<>>
      /\ \A i \in Streams \ {j} : buf'[i] = buf[i] /\ seq'[i] = seq[i]
      /\ buf' \in [Streams -> [Kinds -> Seq(Nat)]] /\ seq' \in [Streams -> Nat]
  <2>1. lastKind[j] = k /\ \A l \in Kinds : buf[j][l] # <<>> => l = lastKind[j]
    BY <1>1 DEF JobInv
  <2> QED BY <1>1, <1>4, <2>1 DEF JobType
<1>6. JobType' /\ \A i \in Streams \ {j} : Same(i)
  BY <1>1, <1>5 DEF JobType, Same
<1>7. Range(<<>>) = {} /\ Rising(<<>>) /\ Len(<<>>) = 0
  <2>1. DOMAIN <<>> = {} /\ Len(<<>>) = 0
    OBVIOUS
  <2> QED BY <2>1 DEF Range, Rising
<1>8. \A l \in Kinds : buf'[j][l] = <<>>
  BY <1>5
<1>9. SizeInv(j)'
  <2>1. \A l \in Kinds : Range(buf'[j][l]) = {} /\ Len(buf'[j][l]) < ChunkTokens
    BY <1>7, <1>8, StreamAssumption
  <2> QED BY <1>1, <2>1 DEF SizeInv
<1>10. JobInv(j)'
  <2>1. \A l \in Kinds : Range(buf'[j][l]) = {} /\ Rising(buf'[j][l])
    BY <1>7, <1>8
  <2>2. phase[j] \notin Flushed
    BY DEF Flushed
  <2> QED BY <1>1, <1>8, <2>1, <2>2 DEF JobInv, Answer
<1>11. \A n : n \in Waiting(j) <=> n \in Range(d) \/ (n = read[j] /\ pending[j] # None)
  <2>1. \A n : (\E l \in Kinds : n \in Range(buf[j][l])) <=> n \in Range(d)
    BY <1>2, <1>5, <1>7
  <2> QED BY <2>1, WaitingIs
<1>12. \A n : n \in Waiting(j)' <=> n = read[j] /\ pending[j] # None
  <2>1. \A n : ~\E l \in Kinds : n \in Range(buf'[j][l])
    BY <1>7, <1>8
  <2> QED BY <2>1, WaitingIs
<1>13. pending[j] # None => \A m \in Range(d) : m < read[j]
  BY <1>1, <1>2 DEF JobInv
<1>14. /\ Range(d) \subseteq Waiting(j)
       /\ \A n : n \in Waiting(j)' <=> n \in Waiting(j) /\ n \notin Range(d)
       /\ \A m \in Range(d), n \in Waiting(j)' : m < n
  BY <1>3, <1>11, <1>12, <1>13
<1>15. FlowInv'
  BY <1>1, <1>3, <1>4, <1>6, <1>14, FlowEmits
<1> QED BY <1>6, <1>9, <1>10, <1>15, OneJob

(* The delta in chunkStreamer.Add joins its batch, which is sent or kept.  *)
LEMMA Adding ==
  ASSUME StreamInv, NEW j \in Streams, AddDelta(j)
  PROVE  StreamInv'
<1>1. JobType /\ SizeInv(j) /\ JobInv(j) /\ FlowInv
  BY DEF StreamInv
<1>2. PICK k : k = pending[j]
  OBVIOUS
<1>3. k \in Kinds /\ pending[j] # None
  BY <1>1, <1>2 DEF AddDelta, JobType
<1>4. PICK d : d = Append(buf[j][k], read[j])
  OBVIOUS
<1>5. /\ ~MustFlush(j)
      /\ \/ Emit(j, k, d) /\ buf' = [buf EXCEPT ![j][k] = <<>>]
         \/ Len(d) < ChunkTokens /\ Quiet /\ buf' = [buf EXCEPT ![j][k] = d]
      /\ lastKind' = [lastKind EXCEPT ![j] = k]
      /\ pending' = [pending EXCEPT ![j] = None]
      /\ UNCHANGED <<script, read, sound, phase>>
  BY <1>2, <1>4 DEF AddDelta
<1>6. /\ phase[j] = "generate" /\ read[j] \in 1..Len(script[j]) /\ script[j][read[j]] = k
      /\ \A n \in Range(buf[j][k]) : n < read[j] /\ script[j][n] = k
      /\ Rising(buf[j][k]) /\ Range(buf[j][k]) \subseteq 1..read[j]
      /\ buf[j][k] \in Seq(Nat) /\ read[j] \in Nat
  BY <1>1, <1>2, <1>3 DEF JobInv, SizeInv, JobType
<1>7. /\ d \in Seq(Nat) /\ Range(d) = Range(buf[j][k]) \union {read[j]} /\ Rising(d)
  BY <1>4, <1>6, RangeOps, RisingAppend
<1>8. Range(d) \subseteq 1..read[j] /\ \A m \in Range(d) : script[j][m] = k
  BY <1>6, <1>7
<1>9. \A l \in Kinds \ {k} : buf[j][l] = <<>>
  <2> SUFFICES ASSUME NEW l \in Kinds, l # k, buf[j][l] # <<>> PROVE FALSE
    OBVIOUS
  <2>1. lastKind[j] = l /\ l # None
    BY <1>1 DEF JobInv, Kinds, None
  <2> QED BY <1>2, <1>5, <2>1 DEF MustFlush
<1>10. Range(<<>>) = {} /\ Rising(<<>>) /\ Len(<<>>) = 0 /\ <<>> \in Seq(Nat)
  <2>1. DOMAIN <<>> = {} /\ Len(<<>>) = 0 /\ <<>> \in Seq(Nat)
    OBVIOUS
  <2> QED BY <2>1 DEF Range, Rising
<1>11. \A n : n \in Waiting(j) <=> n \in Range(d)
  <2>1. \A n : (\E l \in Kinds : n \in Range(buf[j][l])) <=> n \in Range(buf[j][k])
    BY <1>3, <1>9, <1>10
  <2> QED BY <1>3, <1>7, <2>1, WaitingIs
<1>12. pending'[j] = None /\ lastKind'[j] = k
  BY <1>1, <1>5 DEF JobType
<1>13. /\ pending' \in [Streams -> Kinds \union {None}]
       /\ lastKind' \in [Streams -> Kinds \union {None}]
       /\ \A i \in Streams \ {j} : pending'[i] = pending[i] /\ lastKind'[i] = lastKind[i]
  BY <1>1, <1>3, <1>5 DEF JobType
<1>14. ASSUME NEW b \in {<<>>, d}, buf' = [buf EXCEPT ![j][k] = b], Len(b) < ChunkTokens
       PROVE  /\ buf' \in [Streams -> [Kinds -> Seq(Nat)]]
              /\ \A i \in Streams \ {j} : buf'[i] = buf[i]
              /\ SizeInv(j)' /\ JobInv(j)'
              /\ \A n : n \in Waiting(j)' <=> n \in Range(b)
  <2>1. b \in Seq(Nat) /\ Rising(b) /\ Range(b) \subseteq 1..read[j]
        /\ \A m \in Range(b) : script[j][m] = k
    BY <1>7, <1>8, <1>10
  <2>2. /\ buf' \in [Streams -> [Kinds -> Seq(Nat)]]
        /\ \A i \in Streams \ {j} : buf'[i] = buf[i]
        /\ buf'[j][k] = b /\ \A l \in Kinds \ {k} : buf'[j][l] = <<>>
    BY <1>1, <1>3, <1>9, <1>14, <2>1 DEF JobType
  <2>3. SizeInv(j)'
    <3>1. \A l \in Kinds : Range(buf'[j][l]) \subseteq 1..read[j] /\ Len(buf'[j][l]) < ChunkTokens
      BY <1>10, <1>14, <2>1, <2>2, StreamAssumption
    <3> QED BY <1>1, <1>5, <3>1 DEF SizeInv
  <2>4. JobInv(j)'
    <3>1. \A l \in Kinds : /\ buf'[j][l] # <<>> => lastKind'[j] = l
                           /\ \A n \in Range(buf'[j][l]) : script'[j][n] = l
                           /\ Rising(buf'[j][l])
      BY <1>5, <1>10, <1>12, <2>1, <2>2
    <3>2. phase'[j] \notin Flushed \union {"flush"}
      BY <1>5, <1>6 DEF Flushed
    <3> QED BY <1>12, <3>1, <3>2 DEF JobInv
  <2>5. \A n : (\E l \in Kinds : n \in Range(buf'[j][l])) <=> n \in Range(b)
    BY <1>3, <1>10, <2>2
  <2>6. \A n : n \in Waiting(j)' <=> n \in Range(b)
    BY <1>12, <2>5, WaitingIs
  <2> QED BY <2>2, <2>3, <2>4, <2>6
<1>15. CASE Emit(j, k, d) /\ buf' = [buf EXCEPT ![j][k] = <<>>]
  <2>1. seq' \in [Streams -> Nat] /\ \A i \in Streams \ {j} : seq'[i] = seq[i]
    BY <1>1, <1>15 DEF Emit, JobType
  <2>2. /\ buf' \in [Streams -> [Kinds -> Seq(Nat)]]
        /\ \A i \in Streams \ {j} : buf'[i] = buf[i]
        /\ SizeInv(j)' /\ JobInv(j)'
        /\ \A n : n \notin Waiting(j)'
    BY <1>10, <1>14, <1>15, StreamAssumption
  <2>3. JobType' /\ \A i \in Streams \ {j} : Same(i)
    BY <1>1, <1>5, <1>13, <2>1, <2>2 DEF JobType, Same
  <2>4. /\ Range(d) \subseteq Waiting(j)
        /\ \A n : n \in Waiting(j)' <=> n \in Waiting(j) /\ n \notin Range(d)
        /\ \A m \in Range(d), n \in Waiting(j)' : m < n
    BY <1>11, <2>2
  <2>5. FlowInv'
    <3>1. /\ d \in Seq(Nat) /\ Rising(d) /\ phase[j] # "end" /\ Emit(j, k, d)
          /\ k \in Kinds \union {"stats", "audio"} /\ script' = script /\ read' = read
      BY <1>3, <1>5, <1>6, <1>7, <1>15
    <3> QED BY <1>1, <1>8, <2>3, <2>4, <3>1, FlowEmits
  <2> QED BY <1>5, <2>2, <2>3, <2>5, OneJob
<1>16. CASE Len(d) < ChunkTokens /\ Quiet /\ buf' = [buf EXCEPT ![j][k] = d]
  <2>1. seq' = seq
    BY <1>16 DEF Quiet
  <2>2. /\ buf' \in [Streams -> [Kinds -> Seq(Nat)]]
        /\ \A i \in Streams \ {j} : buf'[i] = buf[i]
        /\ SizeInv(j)' /\ JobInv(j)'
        /\ \A n : n \in Waiting(j)' <=> n \in Range(d)
    BY <1>14, <1>16
  <2>3. JobType' /\ \A i \in Streams \ {j} : Same(i)
    BY <1>1, <1>5, <1>13, <2>1, <2>2 DEF JobType, Same
  <2>4. Waiting(j)' = Waiting(j)
    BY <1>11, <2>2
  <2>5. \A i \in Streams : Reads(i) /\ (phase[i] = "end" => phase'[i] = "end")
    BY <1>5, <2>3, <2>4, SameJob DEF Reads, Same
  <2>6. FlowInv'
    BY <1>1, <1>5, <1>16, <2>5, FlowQuiet
  <2> QED BY <1>5, <2>2, <2>3, <2>6, OneJob
<1> QED BY <1>5, <1>15, <1>16

(* A stream that ends well has been read to its end and holds text; any    *)
(* other end fails the job; the last flush leaves the coalescers empty.    *)
LEMMA Ending ==
  ASSUME StreamInv, NEW j \in Streams, NEW p \in Phases, Goto(j, p), Quiet,
         UNCHANGED <<script, read, pending, buf, lastKind, sound>>,
         pending[j] = None, phase[j] # "end",
         \/ p = "failed"
         \/ p = "flush" /\ read[j] = Len(script[j]) /\ Answer(j) # <<>>
         \/ /\ p = "stats" /\ phase[j] = "flush"
            /\ \A k \in Kinds : buf[j][k] = <<>>
  PROVE  StreamInv'
<1>1. JobType /\ SizeInv(j) /\ JobInv(j) /\ FlowInv
  BY DEF StreamInv
<1>2. seq' = seq /\ phase' = [phase EXCEPT ![j] = p] /\ phase'[j] = p
  BY <1>1 DEF Goto, Quiet, JobType
<1>3. JobType' /\ \A i \in Streams \ {j} : Same(i)
  BY <1>1, <1>2 DEF JobType, Same
<1>4. SizeInv(j)'
  BY <1>1 DEF SizeInv
<1>5. Answer(j)' = Answer(j)
  BY DEF Answer
<1>6. JobInv(j)'
  <2>1. \A k \in Kinds : /\ buf'[j][k] # <<>> => lastKind'[j] = k
                         /\ \A n \in Range(buf'[j][k]) : script'[j][n] = k
                         /\ Rising(buf'[j][k])
    BY <1>1 DEF JobInv
  <2>2. phase'[j] \in Flushed => p = "stats"
    BY <1>2 DEF Flushed
  <2>3. phase'[j] \in Flushed \union {"flush"} =>
          read'[j] = Len(script'[j]) /\ Answer(j)' # <<>>
    BY <1>1, <1>2, <1>5, <2>2 DEF JobInv, Flushed
  <2>4. \A k \in Kinds : phase'[j] \in Flushed => buf'[j][k] = <<>>
    BY <2>2
  <2> QED BY <2>1, <2>3, <2>4 DEF JobInv
<1>7. \A i \in Streams : Waiting(i)' = Waiting(i)
  BY DEF Waiting, Buffered, InAdd
<1>8. \A i \in Streams : Reads(i) /\ (phase[i] = "end" => phase'[i] = "end")
  BY <1>3, <1>7 DEF Reads, Same
<1>9. FlowInv'
  BY <1>1, <1>8, FlowQuiet
<1> QED BY <1>3, <1>4, <1>6, <1>9, OneJob

----------------------------------------------------------------------------
(* The invariant. *)

(* Before the first line is read there is no frame and nothing waits.      *)
LEMMA StreamStarts == Init => StreamInv
<1> SUFFICES ASSUME Init PROVE StreamInv
  OBVIOUS
<1>1. DOMAIN <<>> = {} /\ Len(<<>>) = 0 /\ Range(<<>>) = {} /\ Rising(<<>>)
  <2>1. DOMAIN <<>> = {} /\ Len(<<>>) = 0
    OBVIOUS
  <2> QED BY <2>1 DEF Range, Rising
<1>2. script \in [Streams -> Seq(Kinds)]
  <2>1. UNION {[1..n -> Kinds] : n \in 0..MaxDeltas} \subseteq Seq(Kinds)
    <3> SUFFICES ASSUME NEW n \in 0..MaxDeltas, NEW s \in [1..n -> Kinds]
                 PROVE  s \in Seq(Kinds)
      OBVIOUS
    <3>1. n \in Nat
      BY StreamAssumption
    <3> QED BY <3>1, SeqDef
  <2> QED BY <2>1 DEF Init
<1>3. JobType
  <2>1. 0 \in 0..MaxSound /\ "generate" \in Phases /\ <<>> \in Seq(Nat)
    BY StreamAssumption DEF Phases
  <2> QED BY <1>2, <2>1 DEF Init, JobType
<1>4. ASSUME NEW j \in Streams
      PROVE  SizeInv(j) /\ JobInv(j) /\ CoverInv(j)
  <2>1. /\ read[j] = 0 /\ pending[j] = None /\ phase[j] = "generate"
        /\ \A k \in Kinds : buf[j][k] = <<>>
        /\ script[j] \in Seq(Kinds)
    BY <1>2 DEF Init
  <2>2. SizeInv(j)
    BY <1>1, <2>1, StreamAssumption DEF SizeInv
  <2>3. JobInv(j)
    BY <1>1, <2>1 DEF JobInv, Flushed
  <2>4. CoverInv(j)
    BY <2>1 DEF CoverInv
  <2> QED BY <2>2, <2>3, <2>4
<1>5. Frames = {} /\ received = <<>> /\ queue = <<>> /\ lost = {}
  BY <1>1 DEF Init, PublisherInit, Frames
<1>6. PubInv
  <2>1. <<>> \in Seq(Frame) /\ 0 \in 0..MaxBreaks /\ 0 <= StreamBufferSize
    BY PublisherAssumption
  <2>2. Line(received, queue)
    BY <1>1, <1>5 DEF Line
  <2> QED BY <1>1, <1>5, <2>1, <2>2 DEF Init, PublisherInit, PubInv, FrameType
<1> QED BY <1>3, <1>4, <1>5, <1>6 DEF StreamInv, FlowInv

(* Every step of a job and of the publisher keeps the invariant.           *)
LEMMA StreamStep == StreamInv /\ [Next]_vars => StreamInv'
<1> SUFFICES ASSUME StreamInv, [Next]_vars PROVE StreamInv'
  OBVIOUS
<1>1. ASSUME NEW j \in Streams, Produce(j)
      PROVE  StreamInv'
  <2>1. JobType /\ JobInv(j)
    BY DEF StreamInv
  <2>2. CASE ReadLine(j)
    BY <2>2, Reading
  <2>3. CASE SwitchKind(j)
    <3>1. /\ lastKind[j] \in Kinds /\ buf[j][lastKind[j]] # <<>> /\ phase[j] = "generate"
          /\ Flush(j, lastKind[j])
          /\ UNCHANGED <<script, read, pending, lastKind, sound, phase>>
      BY <2>1, <2>3 DEF SwitchKind, MustFlush, JobType, JobInv
    <3> QED BY <3>1, Flushing
  <2>4. CASE AddDelta(j)
    BY <2>4, Adding
  <2>5. CASE ModelDone(j)
    <3>1. \/ Goto(j, "failed")
          \/ Goto(j, "flush") /\ Answer(j) # <<>> /\ read[j] = Len(script[j])
      BY <2>5 DEF ModelDone, Finished
    <3>2. /\ Quiet /\ UNCHANGED <<script, read, pending, buf, lastKind, sound>>
          /\ pending[j] = None /\ phase[j] # "end"
          /\ {"failed", "flush"} \subseteq Phases
      BY <2>5 DEF ModelDone, Phases
    <3> QED BY <3>1, <3>2, Ending
  <2>6. CASE ModelFails(j)
    <3>1. /\ Goto(j, "failed") /\ "failed" \in Phases
          /\ Quiet /\ UNCHANGED <<script, read, pending, buf, lastKind, sound>>
          /\ pending[j] = None /\ phase[j] # "end"
      BY <2>6 DEF ModelFails, Truncated, Phases
    <3> QED BY <3>1, Ending
  <2>7. CASE FlushAll(j)
    <3>1. /\ phase[j] = "flush" /\ pending[j] = None
          /\ UNCHANGED <<script, read, pending, lastKind, sound>>
      BY <2>1, <2>7 DEF FlushAll, JobInv
    <3>2. CASE \A k \in Kinds : buf[j][k] = <<>>
      <4>1. Quiet /\ Goto(j, "stats") /\ UNCHANGED buf /\ "stats" \in Phases
        BY <2>7, <3>2 DEF FlushAll, Phases
      <4> QED BY <3>1, <3>2, <4>1, Ending
    <3>3. CASE ~\A k \in Kinds : buf[j][k] = <<>>
      <4>1. \E k \in Kinds : buf[j][k] # <<>> /\ Flush(j, k)
        BY <2>7, <3>3 DEF FlushAll, Kinds
      <4>2. UNCHANGED phase
        BY <2>7, <3>3 DEF FlushAll
      <4> QED BY <3>1, <4>1, <4>2, Flushing
    <3> QED BY <3>2, <3>3
  <2>8. CASE \/ RecordStats(j) \/ PublishMetadata(j) \/ AudioHeader(j) \/ AudioFrame(j)
             \/ AudioFinal(j) \/ Respond(j)
    BY <2>8, LateStages
  <2> QED BY <1>1, <2>2, <2>3, <2>4, <2>5, <2>6, <2>7, <2>8 DEF Produce
<1>2. ASSUME UNCHANGED jobVars, PubInv', publisher' = publisher, Frames' = Frames
      PROVE  StreamInv'
  <2>1. UNCHANGED <<script, read, pending, buf, lastKind, seq, sound, phase>>
    BY <1>2 DEF jobVars
  <2>2. JobType' /\ \A i \in Streams : Same(i)
    BY <2>1 DEF StreamInv, JobType, Same
  <2>3. \A i \in Streams : SizeInv(i)' /\ JobInv(i)' /\ Waiting(i)' = Waiting(i)
    BY <2>1, <2>2, SameJob DEF StreamInv
  <2>4. \A i \in Streams : Reads(i) /\ (phase[i] = "end" => phase'[i] = "end")
    BY <2>1, <2>3 DEF Reads
  <2>5. FlowInv'
    BY <1>2, <2>1, <2>4, FlowStays DEF StreamInv
  <2> QED BY <2>2, <2>3, <2>5 DEF StreamInv
<1>3. CASE (Break \/ RunStream) /\ UNCHANGED jobVars
  BY <1>2, <1>3, LoopMoves DEF StreamInv, FlowInv
<1>4. CASE UNCHANGED vars
  <2>1. UNCHANGED jobVars /\ UNCHANGED <<publisher, queue, socket, received, lost, breaks>>
    BY <1>4 DEF vars, pubVars
  <2>2. PubInv' /\ Frames' = Frames
    BY <2>1 DEF StreamInv, FlowInv, PubInv, FrameType, Frames
  <2> QED BY <1>2, <2>1, <2>2
<1> QED BY <1>1, <1>3, <1>4 DEF Next

(* The invariant holds in every reachable state. *)
LEMMA StreamHolds == Spec => []StreamInv
  BY StreamStarts, StreamStep, PTL DEF Spec

(* Every variable keeps its type, a coalescer never keeps a full batch     *)
(* (tokenCoalescer.Add) and the frames channel never holds more than       *)
(* streamBufferSize, for any number of jobs.                               *)
THEOREM TypeCorrect == Spec => []TypeOK
<1>1. StreamInv => TypeOK
  BY DEF StreamInv, FlowInv, PubInv, JobType, SizeInv, TypeOK
<1> QED BY <1>1, StreamHolds, PTL

(* The answer in a complete frame is all the text the model had to say and *)
(* is not empty: GenerateStream and ChatStream return no answer from a     *)
(* body that ends before done=true.                                        *)
THEOREM AnswersAreWhole == Spec => []WholeAnswer
<1>1. StreamInv => WholeAnswer
  <2> SUFFICES ASSUME StreamInv, NEW j \in Streams, NEW c \in ReceivedAt(j, "complete")
               PROVE  /\ received[c].deltas # <<>>
                      /\ received[c].deltas = TextOf(script[j], Len(script[j]))
    BY DEF WholeAnswer
  <2>1. received[c] \in Frames /\ received[c].job = j /\ received[c].type = "complete"
    BY DEF ReceivedAt, Frames, Range
  <2>2. FrameInv(received[c])
    BY <2>1 DEF StreamInv, FlowInv
  <2> QED BY <2>1, <2>2 DEF FrameInv
<1> QED BY <1>1, StreamHolds, PTL

(* A complete frame that StreamPublisher queued, or Redis published, comes *)
(* after every chunk of its job: only the HTTP fallback may overtake.      *)
THEOREM CompleteComesLast == Spec => []CompleteLast
<1>1. StreamInv => CompleteLast
  <2> SUFFICES ASSUME StreamInv, NEW j \in Streams, NEW c \in ReceivedAt(j, "complete"),
                      ~received[c].posted, NEW i \in ReceivedAt(j, "chunk")
               PROVE  i < c
    BY DEF CompleteLast
  <2>1. /\ c \in 1..Len(received) /\ received[c].job = j /\ received[c].type = "complete"
        /\ i \in 1..Len(received) /\ received[i].job = j /\ received[i].type = "chunk"
    BY DEF ReceivedAt, StreamInv, FlowInv, PubInv, FrameType
  <2>2. c < i => Before(received[c], received[i])
    BY <2>1 DEF StreamInv, FlowInv, PubInv, Line
  <2>3. c # i /\ c \in Nat /\ i \in Nat
    BY <2>1
  <2> QED BY <2>1, <2>2, <2>3 DEF Before
<1> QED BY <1>1, StreamHolds, PTL

(* The relay's gap detection is sound: the chunk frames of a job arrive in *)
(* the order of their numbers and of their deltas, none has a number past  *)
(* the announced total, and when no announced number is missing the text   *)
(* frames show exactly the text of the script.                             *)
THEOREM GapsAreSeen == Spec => []GapVisible
<1>1. StreamInv => GapVisible
  <2> SUFFICES ASSUME StreamInv, NEW j \in Streams
               PROVE  /\ ShownInOrder(j)
                      /\ \A c \in ReceivedAt(j, "complete") :
                           LET numbers == {received[i].seq : i \in ReceivedAt(j, "chunk")}
                               announced == 1..(received[c].seq - 1)
                           IN /\ numbers \subseteq announced
                              /\ SupportsChunks /\ announced \subseteq numbers => AllTextShown(j)
    BY DEF GapVisible
  <2>1. /\ JobType /\ JobInv(j) /\ CoverInv(j) /\ SizeInv(j) /\ Line(received, queue)
        /\ received \in Seq(Frame)
        /\ \A f \in Frames : FrameInv(f)
        /\ \A f, g \in Frames : PairInv(f, g)
    BY DEF StreamInv, FlowInv, PubInv, FrameType
  <2>2. \A i \in ReceivedAt(j, "chunk") :
          /\ i \in 1..Len(received) /\ received[i] \in Frames
          /\ received[i].job = j /\ received[i].type = "chunk"
    BY <2>1 DEF ReceivedAt, Frames, Range
  <2>3. \A i \in ReceivedAt(j, "chunk") :
          /\ received[i].seq \in 1..seq[j]
          /\ received[i].deltas \in Seq(Nat) /\ Rising(received[i].deltas)
          /\ Range(received[i].deltas) \subseteq 1..read[j]
          /\ \A m \in Range(received[i].deltas) : script[j][m] = received[i].kind
    BY <2>1, <2>2 DEF FrameInv
  <2>4. ShownInOrder(j)
    <3> SUFFICES ASSUME NEW i \in ReceivedAt(j, "chunk"), NEW k \in ReceivedAt(j, "chunk")
                 PROVE  /\ i < k => received[i].seq < received[k].seq
                        /\ \A p \in DOMAIN received[i].deltas, q \in DOMAIN received[k].deltas :
                             (i < k \/ (i = k /\ p < q)) =>
                               received[i].deltas[p] < received[k].deltas[q]
      BY DEF ShownInOrder
    <3>1. i < k => received[i].seq < received[k].seq
      <4>1. i < k => Before(received[i], received[k])
        BY <2>1, <2>2 DEF Line
      <4> QED BY <2>2, <4>1 DEF Before
    <3>2. PairInv(received[i], received[k])
      BY <2>1, <2>2
    <3>3. i < k => \A m \in Range(received[i].deltas), n \in Range(received[k].deltas) : m < n
      BY <2>2, <3>1, <3>2 DEF PairInv
    <3>4. i = k => \A p, q \in DOMAIN received[i].deltas :
                     p < q => received[i].deltas[p] < received[i].deltas[q]
      BY <2>3 DEF Rising
    <3> QED BY <3>1, <3>3, <3>4 DEF Range
  <2>5. ASSUME NEW c \in ReceivedAt(j, "complete")
        PROVE  /\ received[c].seq = seq[j] + 1 /\ seq[j] \in Nat /\ phase[j] = "end"
               /\ read[j] = Len(script[j]) /\ Waiting(j) = {}
    <3>1. received[c] \in Frames /\ received[c].job = j /\ received[c].type = "complete"
      BY DEF ReceivedAt, Frames, Range
    <3>2. received[c].seq = seq[j] + 1 /\ seq[j] \in Nat /\ phase[j] = "end"
      BY <2>1, <3>1 DEF FrameInv, JobType
    <3>3. read[j] = Len(script[j]) /\ pending[j] = None /\ \A k \in Kinds : buf[j][k] = <<>>
      BY <2>1, <3>2 DEF JobInv, Flushed
    <3>4. \A k \in Kinds : Range(buf[j][k]) = {}
      <4>1. DOMAIN <<>> = {}
        OBVIOUS
      <4> QED BY <3>3, <4>1 DEF Range
    <3>5. Waiting(j) = {}
      BY <3>3, <3>4, WaitingIs
    <3> QED BY <3>2, <3>3, <3>5
  <2>6. ASSUME NEW c \in ReceivedAt(j, "complete")
        PROVE  {received[i].seq : i \in ReceivedAt(j, "chunk")} \subseteq 1..(received[c].seq - 1)
    BY <2>3, <2>5
  <2>7. ASSUME NEW c \in ReceivedAt(j, "complete"), SupportsChunks,
               1..(received[c].seq - 1) \subseteq {received[i].seq : i \in ReceivedAt(j, "chunk")}
        PROVE  AllTextShown(j)
    <3>1. ASSUME NEW n \in 1..Len(script[j]), script[j][n] = "text"
          PROVE  \E i \in ReceivedAt(j, "chunk") :
                   received[i].kind = "text" /\ n \in Range(received[i].deltas)
      <4>1. PICK f \in Frames : f.job = j /\ f.type = "chunk" /\ n \in Range(f.deltas)
        BY <2>1, <2>5, <2>7, <3>1 DEF CoverInv
      <4>2. f.seq \in 1..seq[j] /\ script[j][n] = f.kind
        BY <2>1, <4>1 DEF FrameInv
      <4>3. PICK i \in ReceivedAt(j, "chunk") : received[i].seq = f.seq
        BY <2>5, <2>7, <4>2
      <4>4. received[i] = f
        BY <2>1, <2>2, <4>1, <4>3 DEF PairInv
      <4> QED BY <3>1, <4>1, <4>2, <4>4
    <3>2. \A i \in ReceivedAt(j, "chunk") : received[i].kind = "text" =>
            \A n \in Range(received[i].deltas) : n \in 1..Len(script[j]) /\ script[j][n] = "text"
      BY <2>3, <2>5, <2>7
    <3> QED BY <3>1, <3>2 DEF AllTextShown
  <2> QED BY <2>4, <2>6, <2>7
<1> QED BY <1>1, StreamHolds, PTL
==============================================================================
