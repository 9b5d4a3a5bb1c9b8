----------------------------- MODULE SessionKeys -----------------------------
(***************************************************************************)
(* Stages 3 and 4 of the pipeline for the jobs of one session: the cache,  *)
(* the single flight that derives the key from the chain, and the refresh  *)
(* that a prompt the cached key does not open calls for.  The consumer can *)
(* rotate the key at any time.                                             *)
(***************************************************************************)
EXTENDS SessionKeyStore

CONSTANTS Jobs

NoLeader == "no leader"

VARIABLES chainKey,  \* the version on chain
          prompt,    \* per job: the version its prompt is encrypted under; NoKey: not submitted
          stage,     \* per job
          jobKey,    \* per job: the version it tries next
          flight     \* keyFetchGroup: the job that derives the key

sessionKeyVars == <<chainKey, prompt, stage, jobKey, flight>>

Stages ==
  {"idle", "lookup", "miss", "follow", "fetch", "store", "decrypt", "refetch", "restore",
   "check", "work", "undecryptable"}

(* The jobs a handler goroutine is working on. *)
Running == {j \in Jobs : stage[j] \notin {"idle", "undecryptable"}}

SessionKeysTypeOK ==
  /\ chainKey \in 1..MaxKeys
  /\ prompt \in [Jobs -> Versions]
  /\ stage \in [Jobs -> Stages]
  /\ jobKey \in [Jobs -> Versions]
  /\ flight \in Jobs \union {NoLeader}

SessionKeysInit ==
  /\ chainKey = 1
  /\ prompt = [j \in Jobs |-> NoKey]
  /\ stage = [j \in Jobs |-> "idle"]
  /\ jobKey = [j \in Jobs |-> NoKey]
  /\ flight = NoLeader

(* The consumer: submitJob under the current key, and updateSessionKey. *)
Submit(j) ==
  /\ prompt[j] = NoKey
  /\ prompt' = [prompt EXCEPT ![j] = chainKey]
  /\ UNCHANGED <<chainKey, stage, jobKey, flight, keyStoreVars>>

Rotate ==
  /\ chainKey < MaxKeys
  /\ chainKey' = chainKey + 1
  /\ UNCHANGED <<prompt, stage, jobKey, flight, keyStoreVars>>

----------------------------------------------------------------------------
Goto(j, s) == stage' = [stage EXCEPT ![j] = s]
Hold(j, k) == jobKey' = [jobKey EXCEPT ![j] = k]

Followers == {j \in Jobs : stage[j] = "follow"}

(* getOrDeriveSessionKey: the cache. *)
LookUp(j) ==
  /\ stage[j] = "lookup"
  /\ IF keys # NoKey THEN Goto(j, "decrypt") /\ Hold(j, keys)
     ELSE Goto(j, "miss") /\ UNCHANGED jobKey
  /\ UNCHANGED <<chainKey, prompt, flight, keyStoreVars>>

(* keyFetchGroup.Do: follow the flight there is, or lead one after another *)
(* look at the cache.                                                      *)
EnterFlight(j) ==
  /\ stage[j] = "miss"
  /\ IF flight # NoLeader THEN Goto(j, "follow") /\ UNCHANGED <<jobKey, flight>>
     ELSE IF keys # NoKey THEN Goto(j, "decrypt") /\ Hold(j, keys) /\ UNCHANGED flight
     ELSE Goto(j, "fetch") /\ flight' = j /\ UNCHANGED jobKey
  /\ UNCHANGED <<chainKey, prompt, keyStoreVars>>

(* deriveAndStoreSessionKey: the read of the chain, for the leader of a    *)
(* flight and for a refresh.                                               *)
FetchKey(j) ==
  /\ stage[j] = "fetch"
  /\ Goto(j, "store") /\ Hold(j, chainKey)
  /\ UNCHANGED <<chainKey, prompt, flight, keyStoreVars>>

RefreshFromCache(j) == IF keys # NoKey THEN keys ELSE chainKey
RefreshKey(j) == chainKey

RefetchKey(j) ==
  /\ stage[j] = "refetch"
  /\ Goto(j, "restore") /\ Hold(j, RefreshKey(j))
  /\ UNCHANGED <<chainKey, prompt, flight, keyStoreVars>>

(* A read that fails ends the job, and every follower of the flight with   *)
(* it.                                                                     *)
FlightStays(j) == flight
FlightAfter(j) == IF stage[j] = "fetch" THEN NoLeader ELSE flight

FetchFails(j) ==
  /\ stage[j] \in {"fetch", "refetch"}
  /\ LET ended == IF stage[j] = "fetch" THEN Followers \union {j} ELSE {j}
     IN stage' = [i \in Jobs |-> IF i \in ended THEN "idle" ELSE stage[i]]
  /\ flight' = FlightAfter(j)
  /\ UNCHANGED <<chainKey, prompt, jobKey, keyStoreVars>>

(* Its write to the store.  The flight ends and its followers get the key. *)
StoreFetched(j) ==
  /\ stage[j] = "store"
  /\ StoreKey(jobKey[j])
  /\ LET served == Followers \union {j}
     IN /\ stage' = [i \in Jobs |-> IF i \in served THEN "decrypt" ELSE stage[i]]
        /\ jobKey' = [i \in Jobs |-> IF i \in served THEN jobKey[j] ELSE jobKey[i]]
  /\ flight' = NoLeader
  /\ UNCHANGED <<chainKey, prompt>>

StoreRefreshed(j) ==
  /\ stage[j] = "restore"
  /\ StoreKey(jobKey[j])
  /\ Goto(j, "check")
  /\ UNCHANGED <<chainKey, prompt, jobKey, flight>>

(* Stage 4: the first try, and the one after the refresh.  What the job    *)
(* holds is followed up to here.                                           *)
Decrypt(j) ==
  /\ stage[j] = "decrypt"
  /\ Goto(j, IF jobKey[j] = prompt[j] THEN "work" ELSE "refetch") /\ Hold(j, NoKey)
  /\ UNCHANGED <<chainKey, prompt, flight, keyStoreVars>>

DecryptAgain(j) ==
  /\ stage[j] = "check"
  /\ Goto(j, IF jobKey[j] = prompt[j] THEN "work" ELSE "undecryptable") /\ Hold(j, NoKey)
  /\ UNCHANGED <<chainKey, prompt, flight, keyStoreVars>>

KeyStep(j) ==
  \/ LookUp(j) \/ EnterFlight(j) \/ FetchKey(j) \/ RefetchKey(j) \/ FetchFails(j)
  \/ StoreFetched(j) \/ StoreRefreshed(j) \/ Decrypt(j) \/ DecryptAgain(j)

(* The process ends under the jobs. *)
DropJobs ==
  /\ stage' = [j \in Jobs |-> IF j \in Running THEN "idle" ELSE stage[j]]
  /\ jobKey' = [j \in Jobs |-> NoKey]
  /\ flight' = NoLeader
  /\ UNCHANGED <<chainKey, prompt>>
==============================================================================
