------------------------- MODULE SubpoolCoordinator -------------------------
(***************************************************************************)
(* chain.SubpoolCoordinator: broadcasts of one class wait until no         *)
(* broadcast of the other is in flight.  A waiter takes the notify channel *)
(* of the moment and sleeps until it is closed; closing it installs a new  *)
(* one.  Of the channels only this matters: who sleeps on the one that     *)
(* will be closed next (subscribed), and who sleeps on a closed one.       *)
(***************************************************************************)
EXTENDS TxPool

CONSTANTS Legacy, Blob     \* senders of each class

Senders == Legacy \union Blob

ASSUME SendersAssumption ==
  /\ Legacy \intersect Blob = {}
  /\ Senders \intersect Nat = {}
  /\ IsFiniteSet(Senders)

VARIABLES
  inflight,            \* tokens in flight of each class
  subscribed           \* waiters that hold the current notify channel

coordVars == <<inflight, subscribed>>

ClassOf(s) == IF s \in Legacy THEN "legacy" ELSE "blob"

(* A sender's token is named after the sender; seeded tokens are numbers.  *)
Tokens == Senders \union Nat

CoordTypeOK ==
  /\ inflight \in [Class -> SUBSET Tokens]
  /\ subscribed \in SUBSET Senders

CoordInit ==
  /\ inflight = [c \in Class |-> {}]
  /\ subscribed = {}

(* Faulty variant: the other class is not looked at. *)
AdmitAlways(s) ==
  /\ inflight' = [inflight EXCEPT ![ClassOf(s)] = @ \union {s}]
  /\ UNCHANGED subscribed

(* One turn of the loop of Enter, under the mutex. *)
Admit(s) ==
  /\ inflight[Other(ClassOf(s))] = {}
  /\ inflight' = [inflight EXCEPT ![ClassOf(s)] = @ \union {s}]
  /\ UNCHANGED subscribed

Subscribe(s) ==
  /\ inflight[Other(ClassOf(s))] # {}
  /\ subscribed' = subscribed \union {s}
  /\ UNCHANGED inflight

Unsubscribe(s) ==
  /\ subscribed' = subscribed \ {s}
  /\ UNCHANGED inflight

(* release: waiters wake when the class has emptied. *)
ReleaseToken(s) ==
  /\ inflight' = [inflight EXCEPT ![ClassOf(s)] = @ \ {s}]
  /\ subscribed' = IF inflight'[ClassOf(s)] = {} THEN {} ELSE subscribed

(* Faulty variant: nobody is told that the class has emptied. *)
ReapStaleSilent(T) ==
  /\ T # {}
  /\ T \subseteq inflight["blob"] \union inflight["legacy"]
  /\ inflight' = [c \in Class |-> inflight[c] \ T]
  /\ UNCHANGED subscribed

(* reapStale evicts the tokens T: waiters wake when that emptied a class.  *)
ReapStale(T) ==
  /\ T # {}
  /\ T \subseteq inflight["blob"] \union inflight["legacy"]
  /\ inflight' = [c \in Class |-> inflight[c] \ T]
  /\ subscribed' = IF \E c \in Class : T \intersect inflight[c] # {} /\ inflight'[c] = {}
                     THEN {} ELSE subscribed

(* A new coordinator, after Seed with the given number of pending txs. *)
NewCoordinator(gap) ==
  /\ inflight' = [c \in Class |-> IF c = "blob" THEN 1..gap ELSE {}]
  /\ subscribed' = {}
=============================================================================
