------------------------------- MODULE TxPool -------------------------------
(***************************************************************************)
(* The node's transaction pool for the worker's key, as the senders see    *)
(* it: a subpool for blob transactions and one for all others, of which    *)
(* only one may hold the sender at a time.  The node is not part of the    *)
(* repository: this module is written from the errors and the pool rules   *)
(* the worker's code names.                                                *)
(***************************************************************************)
EXTENDS Naturals, FiniteSets

CONSTANT MaxNonce      \* bound: highest nonce of the model

ASSUME NonceAssumption == MaxNonce \in Nat

VARIABLES
  latest,              \* NonceAt: transactions of the key that are mined
  pool                 \* nonces of the transactions in each subpool

poolVars == <<latest, pool>>

Class == {"blob", "legacy"}
Other(c) == IF c = "blob" THEN "legacy" ELSE "blob"

PoolTypeOK ==
  /\ latest \in Nat
  /\ pool \in [Class -> SUBSET Nat]

PoolInit ==
  /\ latest = 0
  /\ pool = [c \in Class |-> {}]

InPool == pool["blob"] \union pool["legacy"]

(* PendingNonceAt: the first nonce that is neither mined nor, without a    *)
(* gap, in the pool.                                                       *)
IsPendingNonce(n) ==
  /\ n >= latest
  /\ n \notin InPool
  /\ \A m \in latest..n : m # n => m \in InPool

(* What SendTransaction says of nonce n: the sender is behind ("nonce"),   *)
(* the other subpool holds it ("reserved"), the blob pool accepts no gap   *)
(* ("nonce"), or another transaction has the nonce, which no code of the   *)
(* worker tells from a lost connection ("ambiguous").                      *)
Verdict(c, n) ==
  IF n < latest THEN "nonce"
  ELSE IF pool[Other(c)] # {} THEN "reserved"
  ELSE IF n \in pool[c] THEN "ambiguous"
  ELSE IF c = "blob" /\ ~IsPendingNonce(n) THEN "nonce"
  ELSE "accepted"

Accept(c, n) ==
  /\ pool' = [pool EXCEPT ![c] = @ \union {n}]
  /\ UNCHANGED latest

(* The next transaction of the key is mined. *)
MineNext ==
  /\ latest \in InPool
  /\ latest' = latest + 1
  /\ pool' = [c \in Class |-> pool[c] \ {latest}]

(* The node evicts a transaction, and from the blob pool its successors.   *)
Evict(c, n) ==
  /\ n \in pool[c]
  /\ pool' = [pool EXCEPT ![c] = IF c = "blob" THEN {m \in @ : m < n} ELSE @ \ {n}]
  /\ UNCHANGED latest
=============================================================================
