--------------------------- MODULE SessionKeyStore ---------------------------
(***************************************************************************)
(* SessionKeyStore: the session keys in memory and the file behind them.   *)
(* The file is encrypted under a key derived from the passphrase; ZeroAll  *)
(* overwrites that key with zero bytes, which still encrypt.  One session; *)
(* its key is known by its version on chain.                               *)
(***************************************************************************)
EXTENDS Naturals, FiniteSets

CONSTANTS MaxKeys   \* bound on the versions of the session key

ASSUME KeysAssumption == MaxKeys \in Nat \ {0}

NoKey == 0
NoFile == [under |-> "nothing", key |-> NoKey]

VARIABLES keys,     \* SessionKeyStore.keys: the version in memory, or NoKey
          fileKey,  \* "pass" or "zero"
          file      \* the file: what it is encrypted under, and the version in it

keyStoreVars == <<keys, fileKey, file>>

Versions == 0..MaxKeys

KeyStoreTypeOK ==
  /\ keys \in Versions
  /\ fileKey \in {"pass", "zero"}
  /\ file \in [under : {"pass", "zero", "nothing"}, key : Versions]

KeyStoreInit == keys = NoKey /\ fileKey = "pass" /\ file = NoFile

(* persist: the write can fail, and then the old file stays. *)
Persist(k, fk) == file' \in {file, [under |-> fk, key |-> k]}

(* NewSessionKeyStore: a file that the passphrase does not open stops the  *)
(* worker from starting, as does a first file that cannot be written.      *)
CanOpen == file.under # "zero"

OpenKeyStore ==
  /\ CanOpen
  /\ keys' = file.key
  /\ fileKey' = "pass"
  /\ file' = [under |-> "pass", key |-> file.key]

StoreKey(k) == keys' = k /\ Persist(k, fileKey) /\ UNCHANGED fileKey

(* The empty store is written before the file key is gone. *)
ZeroKeys == keys' = NoKey /\ Persist(NoKey, fileKey) /\ fileKey' = "zero"

(* The process is gone; the file is not. *)
ForgetKeys == keys' = NoKey /\ fileKey' = "pass" /\ UNCHANGED file
==============================================================================
