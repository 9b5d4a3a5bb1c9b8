------------------------------ MODULE Presence ------------------------------
(***************************************************************************)
(* What the dispatcher reads of a worker in Redis: the heartbeat key that  *)
(* Monitor or the gateway writes, and the drain marker.  Both expire: the  *)
(* heartbeat after three intervals without a write, the marker after the   *)
(* dispute window and a slack.                                             *)
(***************************************************************************)
EXTENDS Naturals

CONSTANTS MaxDrains   \* bound on the operator's drain commands

VARIABLES heartbeat,  \* the heartbeat key is there
          marker,     \* the drain marker is there
          drains

presenceVars == <<heartbeat, marker, drains>>

PresenceTypeOK == heartbeat \in BOOLEAN /\ marker \in BOOLEAN /\ drains \in 0..MaxDrains

PresenceInit == heartbeat = FALSE /\ marker = FALSE /\ drains = 0

(* The dispatcher offers it sessions. *)
Routable == heartbeat /\ ~marker

(* Monitor.emit, SendHeartbeat *)
Emit == heartbeat' = TRUE /\ UNCHANGED <<marker, drains>>

(* markDrainOnShutdown: the write can fail. *)
MarkDraining == marker' \in {marker, TRUE} /\ UNCHANGED <<heartbeat, drains>>

(* lightchain-worker drain and undrain *)
Drain ==
  /\ drains < MaxDrains
  /\ marker' = TRUE /\ drains' = drains + 1
  /\ UNCHANGED heartbeat

Undrain ==
  /\ marker
  /\ marker' = FALSE
  /\ UNCHANGED <<heartbeat, drains>>

(* KeyTTL and the TTL of computeDrainTTL run out. *)
HeartbeatExpires == heartbeat /\ heartbeat' = FALSE /\ UNCHANGED <<marker, drains>>
MarkerExpires == marker /\ marker' = FALSE /\ UNCHANGED <<heartbeat, drains>>
=============================================================================
