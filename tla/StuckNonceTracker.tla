------------------------- MODULE StuckNonceTracker -------------------------
(***************************************************************************)
(* chain.StuckNonceTracker: how often a nonce was refused because the      *)
(* sender was reserved, and how many replacements were tried for the nonce *)
(* that was replaced last.                                                 *)
(***************************************************************************)
EXTENDS TxPool

CONSTANTS
  Threshold,           \* WORKER_STUCK_NONCE_THRESHOLD, 0 for never
  MaxBumps,            \* WORKER_STUCK_NONCE_MAX_BUMPS
  AutoReplace          \* WORKER_STUCK_NONCE_AUTOREPLACE

ASSUME StuckAssumption ==
  /\ Threshold \in Nat
  /\ MaxBumps \in Nat
  /\ AutoReplace \in BOOLEAN

VARIABLES
  hits,                \* refusals per nonce, counted up to Threshold
  bumped,              \* lastBumpNonce, if there is one
  bumpAttempts

stuckVars == <<hits, bumped, bumpAttempts>>

StuckTypeOK ==
  /\ hits \in [0..MaxNonce -> 0..Threshold]
  /\ bumped \in SUBSET Nat
  /\ bumpAttempts \in Nat

StuckInit ==
  /\ hits = [n \in 0..MaxNonce |-> 0]
  /\ bumped = {}
  /\ bumpAttempts = 0

Count(k) == IF k < Threshold THEN k + 1 ELSE k

(* Record: entries past their lifetime go first. *)
Record(n) ==
  /\ \E expired \in SUBSET {m \in 0..MaxNonce : hits[m] > 0} :
       hits' = [m \in 0..MaxNonce |->
                  LET left == IF m \in expired THEN 0 ELSE hits[m]
                  IN IF m = n THEN Count(left) ELSE left]
  /\ UNCHANGED <<bumped, bumpAttempts>>

BumpAttemptsUsedFor(n) == IF n \in bumped THEN bumpAttempts ELSE 0

IncrementBumpAttemptsFor(n) ==
  /\ bumped' = {n}
  /\ bumpAttempts' = BumpAttemptsUsedFor(n) + 1
  /\ UNCHANGED hits

Clear ==
  /\ hits' = [n \in 0..MaxNonce |-> 0]
  /\ bumped' = {}
  /\ bumpAttempts' = 0
=============================================================================
