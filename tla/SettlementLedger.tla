--------------------------- MODULE SettlementLedger ---------------------------
(***************************************************************************)
(* What the settlement loop promises, without cursors, batches, retries or *)
(* crashes.  The contract comes to owe a fee for a job; the worker learns  *)
(* of jobs and forgets them; the part of the event log the worker will     *)
(* never read again grows.  A job is forgotten only when nothing is owed   *)
(* on it, and an event is passed only when its job is known or settled.    *)
(***************************************************************************)
CONSTANT Jobs

VARIABLES
  owed,            \* jobs on which the contract owes the worker a fee
  known,           \* jobs the worker will try to collect
  passed           \* jobs whose completion event will not be read again

ledgerVars == <<owed, known, passed>>

LedgerInit == owed = {} /\ known = {} /\ passed = {}

(* A fee is earned: the event is new, so it is not behind the reader. *)
Earn ==
  \E j \in Jobs \ passed :
    /\ owed' = owed \union {j}
    /\ UNCHANGED <<known, passed>>

(* Fees are paid out, or lost in a dispute. *)
Settle ==
  \E S \in SUBSET owed :
    /\ owed' = owed \ S
    /\ UNCHANGED <<known, passed>>

Learn ==
  \E j \in Jobs :
    /\ known' = known \union {j}
    /\ UNCHANGED <<owed, passed>>

Forget ==
  \E S \in SUBSET known :
    /\ S \intersect owed = {}
    /\ known' = known \ S
    /\ UNCHANGED <<owed, passed>>

Pass ==
  \E S \in SUBSET Jobs :
    /\ S \intersect owed \subseteq known
    /\ passed' = passed \union S
    /\ UNCHANGED <<owed, known>>

(* The worker's memory is erased, with its place in the event log. *)
Restart ==
  /\ known' = {}
  /\ passed' = {}
  /\ UNCHANGED owed

LedgerNext == Earn \/ Settle \/ Learn \/ Forget \/ Pass \/ Restart

LedgerSpec == LedgerInit /\ [][LedgerNext]_ledgerVars
=============================================================================
