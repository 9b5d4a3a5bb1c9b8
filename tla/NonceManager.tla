---------------------------- MODULE NonceManager ----------------------------
(***************************************************************************)
(* chain.NonceManager: the counter from which all senders of one process   *)
(* lease nonces.  A method runs under the manager's mutex and is one step. *)
(***************************************************************************)
EXTENDS Naturals

VARIABLES
  pendingNonce,        \* next nonce to hand out, if initialized
  initialized,         \* has the counter been read from the chain?
  outstanding,         \* leases handed out and not released
  resetPending         \* re-read the counter once all leases are released

nonceVars == <<pendingNonce, initialized, outstanding, resetPending>>

NonceTypeOK ==
  /\ pendingNonce \in Nat
  /\ initialized \in BOOLEAN
  /\ outstanding \in Nat
  /\ resetPending \in BOOLEAN

NonceInit ==
  /\ pendingNonce = 0
  /\ initialized = FALSE
  /\ outstanding = 0
  /\ resetPending = FALSE

NewNonceManager ==
  /\ pendingNonce' = 0
  /\ initialized' = FALSE
  /\ outstanding' = 0
  /\ resetPending' = FALSE

(* NextNonce hands out n: the counter, or the pending nonce of the chain   *)
(* if the counter has to be read first.                                    *)
NextNonce(n, isChainPending) ==
  /\ IF initialized THEN n = pendingNonce ELSE isChainPending
  /\ pendingNonce' = n + 1
  /\ initialized' = TRUE
  /\ outstanding' = outstanding + 1
  /\ UNCHANGED resetPending

(* applyPendingResetLocked, with the counter c, the number out of leases   *)
(* left and the reset flag as the calling method leaves them.              *)
ApplyPendingReset(c, out, reset) ==
  IF reset /\ out = 0
    THEN /\ initialized' = FALSE
         /\ pendingNonce' = 0
         /\ resetPending' = FALSE
    ELSE /\ pendingNonce' = c
         /\ resetPending' = reset
         /\ UNCHANGED initialized

(* Faulty variants of ReleaseNonce: the hand-back gives up one nonce too   *)
(* many, and a nonce below the counter is not accounted for.               *)
ReleaseNonceTwo(n, consumed) ==
  LET out == IF outstanding > 0 THEN outstanding - 1 ELSE 0
      top == initialized /\ pendingNonce > 0 /\ n = pendingNonce - 1
  IN /\ outstanding' = out
     /\ ApplyPendingReset(IF ~consumed /\ top THEN n - 1 ELSE pendingNonce, out,
                          resetPending \/ (~consumed /\ ~top))

ReleaseNonceForgets(n, consumed) ==
  LET out == IF outstanding > 0 THEN outstanding - 1 ELSE 0
      top == initialized /\ pendingNonce > 0 /\ n = pendingNonce - 1
  IN /\ outstanding' = out
     /\ ApplyPendingReset(IF ~consumed /\ top THEN n ELSE pendingNonce, out, resetPending)

(* The highest nonce goes straight back; any other leaves a gap. *)
ReleaseNonce(n, consumed) ==
  LET out == IF outstanding > 0 THEN outstanding - 1 ELSE 0
      top == initialized /\ pendingNonce > 0 /\ n = pendingNonce - 1
  IN /\ outstanding' = out
     /\ ApplyPendingReset(IF ~consumed /\ top THEN n ELSE pendingNonce, out,
                          resetPending \/ (~consumed /\ ~top))

(* Faulty variant: the counter is reset underneath the leases. *)
ResetNonceAtOnce ==
  /\ initialized' = FALSE
  /\ pendingNonce' = 0
  /\ UNCHANGED <<outstanding, resetPending>>

ResetNonce ==
  /\ ApplyPendingReset(pendingNonce, outstanding, TRUE)
  /\ UNCHANGED outstanding
=============================================================================
