--------------------------- MODULE SessionManager ---------------------------
(***************************************************************************)
(* What the watchers see of the chain: the head, the session requests of   *)
(* the SessionManager contract and the JobSubmitted events.  The contracts *)
(* are not in the repository; they are modelled from how the chain client  *)
(* uses them.                                                              *)
(***************************************************************************)
EXTENDS CursorStore, FiniteSets

CONSTANTS Requests,        \* ids of session requests; the session has the same id
          Jobs,            \* job ids, in the order of their events
          Confirmations,   \* SORTITION_CONFIRMATIONS
          Lookback,        \* SORTITION_SESSION_LOOKBACK_BLOCKS
          ClaimWait,       \* blocks until the sortition threshold admits us
          ChunkSize,       \* SORTITION_CHUNK_SIZE
          MaxHead,         \* the chain stops here
          MaxPerBlock,     \* JobSubmitted events in one block
          LastRequest,     \* no request comes after this block
          Unsteady,        \* the requests that others may take, or that change state
          Odd,             \* the requests that may ask for more than we offer
          MaxFaults        \* RPC calls that fail, and crashes

ASSUME ChainAssumption ==
  /\ Jobs \subseteq Nat /\ IsFiniteSet(Jobs) /\ IsFiniteSet(Requests) /\ Requests # {}
  /\ Confirmations \in Nat /\ Lookback \in Nat /\ ClaimWait \in Nat
  /\ ChunkSize \in Nat \ {0} /\ MaxHead \in Nat
  /\ MaxPerBlock \in Nat \ {0} /\ MaxFaults \in Nat /\ LastRequest \in Nat
  /\ Unsteady \subseteq Requests /\ Odd \subseteq Requests

VARIABLES head,
          req,      \* per request: block, status, and what it asks of a worker
          job,      \* per job: block (0: not submitted) and session
          faults    \* RPC calls that have failed, and crashes

Blocks == 0..MaxHead

ReqStatus == {"none", "open", "mine", "other", "expired"}

ChainTypeOK ==
  /\ head \in Blocks
  /\ req \in [Requests -> [block : Blocks, status : ReqStatus,
                           covered : BOOLEAN,        \* our capabilities are enough
                           active : BOOLEAN,         \* the session is Active
                           ours : BOOLEAN]]          \* its key is wrapped for our key
  /\ job \in [Jobs -> [block : Blocks, session : Requests]]
  /\ faults \in 0..MaxFaults

ChainInit ==
  /\ head = 0
  /\ req \in [Requests -> [block : {0}, status : {"none"}, covered : {TRUE},
                           active : {FALSE}, ours : {TRUE}]]
  /\ job \in [Jobs -> [block : {0}, session : {CHOOSE r \in Requests : TRUE}]]
  /\ faults = 0

safeHead == SafeHead(head, Confirmations)

RpcFails == faults < MaxFaults /\ faults' = faults + 1

(* The sortition threshold widens with the blocks. *)
EligibleNow(r) == req[r].status = "open" /\ head >= req[r].block + ClaimWait

(* claimSession reverts unless the request is open and we are eligible. *)
Claimable(r) == EligibleNow(r) /\ req[r].covered
Claimed(r) == [req EXCEPT ![r].status = "mine", ![r].active = TRUE]

SessionsIn(lo, hi) == {r \in Requests : req[r].status # "none" /\ req[r].block \in lo..hi}
JobsIn(lo, hi) == {j \in Jobs : job[j].block # 0 /\ job[j].block \in lo..hi}

Mine(j) == req[job[j].session].status = "mine"

----------------------------------------------------------------------------
(* An event is in the next block, so every event of the head and of the    *)
(* blocks before it is there to be read.  The bound: what happens on the   *)
(* chain is confirmed before it stops.                                     *)
NextBlock ==
  /\ head < MaxHead
  /\ head' = head + 1
  /\ UNCHANGED <<req, job, faults>>

RequestSession(r) ==
  /\ req[r].status = "none"
  /\ head + 1 + Confirmations <= MaxHead /\ head + 1 <= LastRequest
  /\ \E covered \in BOOLEAN, ours \in BOOLEAN :
       /\ r \in Odd \/ (covered /\ ours)
       /\ req' = [req EXCEPT ![r] = [@ EXCEPT !.block = head + 1, !.status = "open",
                                              !.covered = covered, !.ours = ours]]
  /\ UNCHANGED <<head, job, faults>>

LoseRequest(r) ==
  /\ r \in Unsteady /\ req[r].status = "open"
  /\ \E s \in {"other", "expired"} :
       req' = [req EXCEPT ![r].status = s, ![r].active = (s = "other")]
  /\ UNCHANGED <<head, job, faults>>

(* The consumer closes the session, or failover makes it Active again. *)
SwitchSession(r) ==
  /\ r \in Unsteady /\ req[r].status = "mine"
  /\ req' = [req EXCEPT ![r].active = ~@]
  /\ UNCHANGED <<head, job, faults>>

SubmitJob(j) ==
  /\ job[j].block = 0
  /\ \A i \in Jobs : i < j => job[i].block # 0
  /\ head + 1 + Confirmations <= MaxHead
  /\ Cardinality(JobsIn(head + 1, head + 1)) < MaxPerBlock
  /\ \E r \in Requests :
       /\ req[r].active
       /\ job' = [job EXCEPT ![j] = [block |-> head + 1, session |-> r]]
  /\ UNCHANGED <<head, req, faults>>
=============================================================================
