--------------------------- MODULE DeadlineGuard ---------------------------
(***************************************************************************)
(* deadlineGuard decides, from the on-chain deadline, whether a job can    *)
(* still be settled.  The contract keeps one deadline: until the           *)
(* acknowledgement it bounds the acknowledgement, afterwards completeJob.  *)
(* The field left is the time until it; a read that fails is the reading NoReading *)
(* and leaves the gate open.                                               *)
(***************************************************************************)
EXTENDS Naturals

CONSTANTS AckWindow,           \* time to acknowledge, from the submission
          CompletionWindow,    \* time to complete, from the acknowledgement
          SettleReserve, CompletionReserve, MinInferenceBudget

ASSUME DeadlineAssumption ==
  /\ AckWindow \in Nat \ {0}
  /\ CompletionWindow \in Nat \ {0}
  /\ SettleReserve \in Nat
  /\ CompletionReserve \in Nat
  /\ MinInferenceBudget \in Nat

(* GetJobDeadline: the time left and whether the job is acknowledged. *)
Reading(left, acked) == [ok |-> TRUE, left |-> left, acked |-> acked]
NoReading == [ok |-> FALSE, left |-> 0, acked |-> FALSE]

InferenceNeed == SettleReserve + MinInferenceBudget

PickupDoomed(r) == r.ok /\ (r.left = 0 \/ (r.acked /\ r.left <= InferenceNeed))

InferenceDoomed(r) == r.ok /\ r.acked /\ r.left <= InferenceNeed

(* gateInference cuts the inference context off at this time left. *)
Clamped(r) == r.ok /\ r.acked

BlobDoomed(r) == r.ok /\ r.left <= CompletionReserve

IsDoomedNow(r) == r.ok /\ r.left = 0
=============================================================================
