-------------------------- MODULE CheckpointStore --------------------------
(***************************************************************************)
(* CheckpointStore keeps one Redis hash per job with the outputs of the    *)
(* pipeline a retry may reuse.  Every method is one Lua script or one      *)
(* MULTI, hence one operator on the record.  A missing key is the record   *)
(* Missing; ttl tells the normal time to live from the short one that      *)
(* Tombstone sets.                                                         *)
(***************************************************************************)
CONSTANTS Ciphertexts,   \* one per inference: each encryption is unique
          Nil            \* no ciphertext, no hash

ASSUME NilAssumption == Nil \notin Ciphertexts

Checkpoints == [ct : Ciphertexts \union {Nil},   \* the canonical ciphertext
                vh : Ciphertexts \union {Nil},   \* the versioned hash: of which ciphertext
                delivered : BOOLEAN,
                tomb : BOOLEAN,
                ttl : {"none", "full", "short"}]

Missing == [ct |-> Nil, vh |-> Nil, delivered |-> FALSE, tomb |-> FALSE, ttl |-> "none"]

HasCiphertext(c) == c.ct # Nil
HasVersionedHash(c) == c.vh # Nil

(* EXPIRE to the normal time to live, unless the record is tombstoned. *)
ExtendAlways(c) == [c EXCEPT !.ttl = "full"]
Extend(c) == IF c.tomb THEN c ELSE [c EXCEPT !.ttl = "full"]

(* The later writer replaces the canonical ciphertext. *)
OverwriteCiphertext(c, x) == [c EXCEPT !.ct = x, !.ttl = "full"]

(* The script of SetCiphertextIfAbsent; the caller goes on with the ct of  *)
(* the record it leaves.                                                   *)
SetCiphertextIfAbsent(c, x) ==
  IF HasCiphertext(c) THEN c ELSE [c EXCEPT !.ct = x, !.ttl = "full"]

SetVersionedHash(c, x) == Extend([c EXCEPT !.vh = x])

(* Only the time to live is refreshed. *)
TouchOnly(c) == Extend(c)

MarkDelivered(c) == Extend([c EXCEPT !.delivered = TRUE])

Tombstone(c) == [c EXCEPT !.tomb = TRUE, !.ttl = "short"]
=============================================================================
