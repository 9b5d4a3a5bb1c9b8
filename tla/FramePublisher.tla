--------------------------- MODULE FramePublisher ---------------------------
(***************************************************************************)
(* The three ResponsePublishers.  RedisResponsePublisher publishes a frame *)
(* at once.  gatewayResponsePublisher posts the complete frame and cannot  *)
(* carry chunks.  StreamPublisher queues frames for a WebSocket that a     *)
(* background loop dials and writes; its complete frame is queued while    *)
(* the connected flag is set and posted otherwise.                         *)
(***************************************************************************)
EXTENDS Naturals, Sequences, FiniteSets

CONSTANTS Publishers,        \* "redis", "gateway", "stream"
          StreamBufferSize,  \* streamBufferSize
          MaxLost,           \* frames that Redis or the HTTP endpoint loses
          MaxBreaks          \* times the socket breaks

ASSUME PublisherAssumption ==
  /\ Publishers \subseteq {"redis", "gateway", "stream"} /\ Publishers # {}
  /\ StreamBufferSize \in Nat \ {0}
  /\ MaxLost \in Nat /\ MaxBreaks \in Nat

VARIABLES publisher,   \* the one this worker uses
          queue,       \* StreamPublisher.frames
          socket,      \* "down"; "up"; "dying": broken, and the pump has not noticed
          received,    \* the frames that reached the consumer, in order
          lost,        \* the frames that will never arrive
          breaks

pubVars == <<publisher, queue, socket, received, lost, breaks>>

PublisherInit ==
  /\ publisher \in Publishers
  /\ queue = <<>>
  /\ socket = "down"
  /\ received = <<>>
  /\ lost = {} /\ breaks = 0

SupportsChunks == publisher # "gateway"

(* StreamPublisher.connected *)
Connected == socket # "down"

----------------------------------------------------------------------------
Deliver(f) == received' = Append(received, f) /\ UNCHANGED <<queue, lost>>
Drop(f) == lost' = lost \union {f} /\ UNCHANGED <<queue, received>>

HasOneMore == Len(queue) <= StreamBufferSize
HasRoom == Len(queue) < StreamBufferSize
Enqueue(f) == queue' = Append(queue, f) /\ UNCHANGED <<received, lost>>

(* PUBLISH to Redis, or the gateway's HTTP endpoint: at most once. *)
SendNow(f) == Deliver(f) \/ (Cardinality(lost) < MaxLost /\ Drop(f))

(* PublishChunk, PublishMetadata.  A frame that finds the buffer full is   *)
(* dropped.                                                                *)
PublishChunk(f) ==
  /\ IF publisher = "redis" THEN SendNow(f)
     ELSE IF HasRoom THEN Enqueue(f) ELSE Drop(f)
  /\ UNCHANGED <<publisher, socket, breaks>>

(* The complete frame is posted even while chunks wait in the queue. *)
RespondPosted(f) == SendNow(f) /\ UNCHANGED <<publisher, socket, breaks>>

PublishResponse(f) ==
  /\ IF publisher = "stream" /\ Connected /\ HasRoom THEN Enqueue(f)
     ELSE SendNow([f EXCEPT !.posted = (publisher # "redis")])
  /\ UNCHANGED <<publisher, socket, breaks>>

----------------------------------------------------------------------------
(* StreamPublisher.Run and pump; Dial is a dial that succeeds. *)
DialOnce ==
  /\ publisher = "stream" /\ socket = "down" /\ breaks = 0
  /\ socket' = "up"
  /\ UNCHANGED <<publisher, queue, received, lost, breaks>>

Dial ==
  /\ publisher = "stream" /\ socket = "down"
  /\ socket' = "up"
  /\ UNCHANGED <<publisher, queue, received, lost, breaks>>

Break ==
  /\ socket = "up" /\ breaks < MaxBreaks
  /\ socket' = "dying" /\ breaks' = breaks + 1
  /\ UNCHANGED <<publisher, queue, received, lost>>

(* The frame stays at the head of the queue until it is written. *)
Pump ==
  /\ socket = "up" /\ queue # <<>>
  /\ received' = Append(received, Head(queue))
  /\ queue' = Tail(queue)
  /\ UNCHANGED <<publisher, socket, lost, breaks>>

(* A frame taken from the queue for a broken socket is lost, with or       *)
(* without an error of the write.                                          *)
PumpFails ==
  /\ socket = "dying" /\ queue # <<>>
  /\ queue' = Tail(queue)
  /\ lost' = lost \union {Head(queue)}
  /\ socket' \in {"dying", "down"}
  /\ UNCHANGED <<publisher, received, breaks>>

(* The reader goroutine notices first. *)
NoticeBreak ==
  /\ socket = "dying"
  /\ socket' = "down"
  /\ UNCHANGED <<publisher, queue, received, lost, breaks>>

RunStream == Dial \/ Pump \/ PumpFails \/ NoticeBreak
=============================================================================
