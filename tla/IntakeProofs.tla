---------------------------- MODULE IntakeProofs ----------------------------
(***************************************************************************)
(* What the watchers of sortition mode may not lose, for any number of     *)
(* requests and jobs, any confirmations (0, the default, too), look-back,  *)
(* chunk size and limits, and any RPC errors and crashes.                  *)
(***************************************************************************)
EXTENDS Intake, TLAPS

----------------------------------------------------------------------------
(* The chain, and what the watchers may assume of it. *)

RequestRec == [block : Blocks, status : ReqStatus, covered : BOOLEAN, active : BOOLEAN, ours : BOOLEAN]
JobRec == [block : Blocks, session : Requests]

(* A request is in a block that is mined, or will be the next one; only a  *)
(* session that somebody has is active.                                    *)
RequestSafe(r) ==
  /\ req[r].status # "none" => req[r].block >= 1 /\ req[r].block <= head + 1
  /\ req[r].active => req[r].status \in {"mine", "other"}

(* So is a job; its session belongs to us or to another worker for good.   *)
(* The jobs' numbers follow the blocks.                                    *)
JobSafe(j) ==
  job[j].block # 0 =>
    /\ job[j].block <= head + 1
    /\ req[job[j].session].status \in {"mine", "other"}
    /\ \A i \in Jobs : i < j => job[i].block # 0 /\ job[i].block <= job[j].block

ChainSafe ==
  /\ ChainTypeOK
  /\ \A r \in Requests : RequestSafe(r)
  /\ \A j \in Jobs : JobSafe(j)

(* What may happen to a request. *)
RequestMoves(r) ==
  \/ req'[r] = req[r]
  \/ /\ req[r].status = "none" /\ req'[r].status = "open"
     /\ req'[r].block = head + 1 /\ head + 1 \in Blocks /\ req'[r].active = req[r].active
  \/ /\ req[r].status = "open" /\ req'[r].status \in {"mine", "other", "expired"}
     /\ req'[r].block = req[r].block /\ req'[r].covered = req[r].covered
     /\ req'[r].active => req'[r].status \in {"mine", "other"}
  \/ /\ req[r].status = "mine" /\ req'[r].status = "mine"
     /\ req'[r].block = req[r].block /\ req'[r].covered = req[r].covered

RequestsMove ==
  /\ UNCHANGED <<head, job>>
  /\ req' \in [Requests -> RequestRec]
  /\ \A r \in Requests : RequestMoves(r)

HeadMoves == head' = head + 1 /\ head' \in Blocks /\ UNCHANGED <<req, job>>

JobMoves ==
  /\ UNCHANGED <<head, req>>
  /\ \E j \in Jobs, r \in Requests :
       /\ job[j].block = 0 /\ \A i \in Jobs : i < j => job[i].block # 0
       /\ req[r].active /\ head + 1 \in Blocks
       /\ job' = [job EXCEPT ![j] = [block |-> head + 1, session |-> r]]

ChainMoves == HeadMoves \/ RequestsMove \/ JobMoves

(* Blocks are numbers. *)
LEMMA BlocksNat == Blocks \subseteq Nat /\ 0 \in Blocks /\ \A b \in Nat : b <= MaxHead <=> b \in Blocks
BY ChainAssumption DEF Blocks

(* The types of what the chain shows. *)
LEMMA ChainFields ==
  ASSUME ChainTypeOK
  PROVE  /\ head \in Blocks /\ req \in [Requests -> RequestRec] /\ job \in [Jobs -> JobRec]
         /\ \A r \in Requests : /\ req[r].block \in Nat /\ req[r].status \in ReqStatus
                                /\ req[r].covered \in BOOLEAN /\ req[r].active \in BOOLEAN
         /\ \A j \in Jobs : job[j].block \in Blocks /\ job[j].block \in Nat /\ job[j].session \in Requests
         /\ head \in Nat /\ Jobs \subseteq Nat
<1>1. head \in Blocks /\ req \in [Requests -> RequestRec] /\ job \in [Jobs -> JobRec]
  BY Zenon DEF ChainTypeOK, RequestRec, JobRec
<1>2. \A r \in Requests : /\ req[r].block \in Blocks /\ req[r].status \in ReqStatus
                          /\ req[r].covered \in BOOLEAN /\ req[r].active \in BOOLEAN
  BY <1>1, Zenon DEF RequestRec
<1>3. \A j \in Jobs : job[j].block \in Blocks /\ job[j].session \in Requests
  BY <1>1, Zenon DEF JobRec
<1> QED  BY <1>1, <1>2, <1>3, BlocksNat, ChainAssumption

(* An edit of one request. *)
LEMMA RequestEdit ==
  ASSUME ChainTypeOK, NEW r \in Requests, NEW v \in RequestRec, req' = [req EXCEPT ![r] = v]
  PROVE  /\ req' \in [Requests -> RequestRec] /\ req'[r] = v
         /\ \A q \in Requests : q # r => req'[q] = req[q]
BY ChainFields, Zenon

(* The claim of a session. *)
LEMMA ClaimEffect ==
  ASSUME ChainTypeOK, NEW r \in Requests, req' = Claimed(r), req[r].status = "open",
         UNCHANGED <<head, job>>
  PROVE  RequestsMove
<1> DEFINE v == [req[r] EXCEPT !.status = "mine", !.active = TRUE]
<1>1. req[r] \in RequestRec
  BY ChainFields, Zenon
<1>2. v \in RequestRec /\ v.status = "mine" /\ v.block = req[r].block /\ v.covered = req[r].covered
  BY <1>1 DEF RequestRec, ReqStatus
<1>3. req' = [req EXCEPT ![r] = v]
  BY DEF Claimed
<1> HIDE DEF v
<1>4. req' \in [Requests -> RequestRec] /\ req'[r] = v /\ \A q \in Requests : q # r => req'[q] = req[q]
  BY <1>2, <1>3, RequestEdit
<1>5. ASSUME NEW q \in Requests PROVE RequestMoves(q)
  BY <1>2, <1>4 DEF RequestMoves
<1> QED  BY <1>4, <1>5 DEF RequestsMove

(* Every event of the chain is such a move. *)
LEMMA ChainActions ==
  ASSUME ChainTypeOK,
         \/ NextBlock
         \/ \E r \in Requests : RequestSession(r) \/ LoseRequest(r) \/ SwitchSession(r)
         \/ \E j \in Jobs : SubmitJob(j)
  PROVE  ChainMoves /\ UNCHANGED faults
<1>0. head \in Nat /\ ChainTypeOK
  BY ChainFields
<1>1. CASE NextBlock
  BY <1>0, <1>1, BlocksNat, ChainAssumption DEF NextBlock, ChainMoves, HeadMoves
<1>2. ASSUME NEW r \in Requests, RequestSession(r) PROVE ChainMoves /\ UNCHANGED faults
  <2>1. PICK covered \in BOOLEAN, ours \in BOOLEAN :
          req' = [req EXCEPT ![r] = [req[r] EXCEPT !.block = head + 1, !.status = "open",
                                           !.covered = covered, !.ours = ours]]
    BY <1>2 DEF RequestSession
  <2> DEFINE v == [req[r] EXCEPT !.block = head + 1, !.status = "open", !.covered = covered, !.ours = ours]
  <2>2. head + 1 \in Blocks /\ req[r] \in RequestRec /\ "open" \in ReqStatus
    <3>1. head + 1 \in Blocks
      <4>1. head + 1 + Confirmations <= MaxHead
        BY <1>2 DEF RequestSession
      <4> QED  BY <1>0, <4>1, BlocksNat, ChainAssumption
    <3>2. req[r] \in RequestRec /\ "open" \in ReqStatus
      BY ChainFields DEF ReqStatus
    <3> QED  BY <3>1, <3>2
  <2>3. v \in RequestRec
    BY <2>2, Zenon DEF RequestRec
  <2>4. v.status = "open" /\ v.block = head + 1 /\ v.active = req[r].active
    BY <2>2 DEF RequestRec
  <2>5. req' = [req EXCEPT ![r] = v]
    BY <2>1
  <2> HIDE DEF v
  <2>6. req' \in [Requests -> RequestRec] /\ req'[r] = v /\ \A q \in Requests : q # r => req'[q] = req[q]
    BY <2>3, <2>5, RequestEdit
  <2>7. ASSUME NEW q \in Requests PROVE RequestMoves(q)
    BY <1>2, <2>2, <2>4, <2>6 DEF RequestMoves, RequestSession
  <2> QED  BY <1>2, <2>6, <2>7 DEF RequestSession, RequestsMove, ChainMoves
<1>3. ASSUME NEW r \in Requests, LoseRequest(r) PROVE ChainMoves /\ UNCHANGED faults
  <2>1. PICK s \in {"other", "expired"} :
          req' = [req EXCEPT ![r] = [req[r] EXCEPT !.status = s, !.active = (s = "other")]]
    BY <1>3 DEF LoseRequest
  <2> DEFINE v == [req[r] EXCEPT !.status = s, !.active = (s = "other")]
  <2>2. req[r] \in RequestRec
    BY ChainFields
  <2>3. v \in RequestRec
    <3>1. s \in ReqStatus /\ (s = "other") \in BOOLEAN
      BY DEF ReqStatus
    <3> QED  BY <2>2, <3>1, Zenon DEF RequestRec
  <2>4. /\ v.status = s /\ v.block = req[r].block /\ v.active = (s = "other")
        /\ v.covered = req[r].covered
    BY <2>2 DEF RequestRec
  <2>5. req' = [req EXCEPT ![r] = v]
    BY <2>1
  <2> HIDE DEF v
  <2>6. req' \in [Requests -> RequestRec] /\ req'[r] = v /\ \A q \in Requests : q # r => req'[q] = req[q]
    BY <2>3, <2>5, RequestEdit
  <2>7. ASSUME NEW q \in Requests PROVE RequestMoves(q)
    BY <1>3, <2>4, <2>6 DEF RequestMoves, LoseRequest
  <2> QED  BY <1>3, <2>6, <2>7 DEF LoseRequest, RequestsMove, ChainMoves
<1>4. ASSUME NEW r \in Requests, SwitchSession(r) PROVE ChainMoves /\ UNCHANGED faults
  <2> DEFINE v == [req[r] EXCEPT !.active = ~req[r].active]
  <2>2. req[r] \in RequestRec
    BY ChainFields
  <2>3. v \in RequestRec
    BY <2>2, Zenon DEF RequestRec
  <2>4. v.status = req[r].status /\ v.block = req[r].block /\ v.covered = req[r].covered
    BY <2>2 DEF RequestRec
  <2>5. req' = [req EXCEPT ![r] = v]
    BY <1>4 DEF SwitchSession
  <2> HIDE DEF v
  <2>6. req' \in [Requests -> RequestRec] /\ req'[r] = v /\ \A q \in Requests : q # r => req'[q] = req[q]
    BY <2>3, <2>5, RequestEdit
  <2>7. ASSUME NEW q \in Requests PROVE RequestMoves(q)
    BY <1>4, <2>4, <2>6 DEF RequestMoves, SwitchSession
  <2> QED  BY <1>4, <2>6, <2>7 DEF SwitchSession, RequestsMove, ChainMoves
<1>5. ASSUME NEW j \in Jobs, SubmitJob(j) PROVE ChainMoves /\ UNCHANGED faults
  <2>1. head + 1 \in Blocks
    BY <1>0, <1>5, BlocksNat, ChainAssumption DEF SubmitJob
  <2> QED  BY <1>5, <2>1 DEF SubmitJob, ChainMoves, JobMoves
<1> QED  BY <1>1, <1>2, <1>3, <1>4, <1>5 DEF NextBlock

(* Moves keep what is safe. *)
LEMMA ChainMovesSafe ==
  ASSUME ChainSafe, ChainMoves \/ UNCHANGED <<head, req, job>>, faults' \in 0..MaxFaults
  PROVE  ChainSafe'
<1>0. /\ head \in Nat /\ req \in [Requests -> RequestRec] /\ job \in [Jobs -> JobRec] /\ head \in Blocks
      /\ \A r \in Requests : req[r].block \in Nat /\ req[r].status \in ReqStatus
      /\ \A j \in Jobs : job[j].block \in Nat /\ job[j].session \in Requests
      /\ Jobs \subseteq Nat
  BY ChainFields DEF ChainSafe
<1>t. ASSUME head' \in Blocks, req' \in [Requests -> RequestRec], job' \in [Jobs -> JobRec]
      PROVE  ChainTypeOK'
  BY <1>t, Zenon DEF ChainTypeOK, RequestRec, JobRec
<1>1. CASE UNCHANGED <<head, req, job>>
  BY <1>0, <1>1, <1>t DEF ChainSafe, RequestSafe, JobSafe
<1>2. CASE HeadMoves
  <2>1. ChainTypeOK'
    BY <1>0, <1>2, <1>t DEF HeadMoves
  <2> QED  BY <1>0, <1>2, <2>1 DEF HeadMoves, ChainSafe, RequestSafe, JobSafe
<1>3. CASE RequestsMove
  <2>1. ChainTypeOK'
    BY <1>0, <1>3, <1>t DEF RequestsMove
  <2>2. ASSUME NEW r \in Requests PROVE RequestSafe(r)'
    BY <1>0, <1>3 DEF RequestsMove, RequestMoves, ChainSafe, RequestSafe
  <2>3. ASSUME NEW j \in Jobs PROVE JobSafe(j)'
    <3>1. job[j].session \in Requests /\ RequestMoves(job[j].session) /\ JobSafe(j)
      BY <1>0, <1>3 DEF RequestsMove, ChainSafe
    <3>2. job[j].block # 0 => req'[job[j].session].status \in {"mine", "other"}
      BY <3>1 DEF RequestMoves, JobSafe
    <3> QED  BY <1>3, <3>1, <3>2 DEF RequestsMove, JobSafe
  <2> QED  BY <2>1, <2>2, <2>3 DEF ChainSafe
<1>4. CASE JobMoves
  <2>1. PICK j \in Jobs, r \in Requests :
          /\ job[j].block = 0 /\ \A i \in Jobs : i < j => job[i].block # 0
          /\ req[r].active /\ head + 1 \in Blocks
          /\ job' = [job EXCEPT ![j] = [block |-> head + 1, session |-> r]]
    BY <1>4 DEF JobMoves
  <2>2. UNCHANGED <<head, req>>
    BY <1>4 DEF JobMoves
  <2>3. [block |-> head + 1, session |-> r] \in JobRec
    BY <2>1 DEF JobRec
  <2>4. job' \in [Jobs -> JobRec] /\ \A i \in Jobs : i # j => job'[i] = job[i]
    BY <1>0, <2>1, <2>3
  <2>5. job'[j].block = head + 1 /\ job'[j].session = r
    BY <1>0, <2>1
  <2>6. ChainTypeOK'
    BY <1>0, <1>t, <2>2, <2>4
  <2>7. req[r].status \in {"mine", "other"}
    BY <2>1 DEF ChainSafe, RequestSafe
  <2>8. ASSUME NEW i \in Jobs PROVE JobSafe(i)'
    <3>0. JobSafe(i) /\ JobSafe(j) /\ \A k \in Jobs : JobSafe(k)
      BY DEF ChainSafe
    <3>1. CASE i = j
      <4>1. ASSUME NEW k \in Jobs, k < j PROVE job'[k].block # 0 /\ job'[k].block <= head + 1
        BY <1>0, <2>1, <2>4, <3>0, <4>1 DEF JobSafe
      <4> QED  BY <1>0, <2>2, <2>5, <2>7, <3>1, <4>1 DEF JobSafe
    <3>2. CASE i # j
      <4>1. job'[i] = job[i]
        BY <2>4, <3>2
      <4>2. ASSUME job[i].block # 0, NEW k \in Jobs, k < i
            PROVE  job'[k].block # 0 /\ job'[k].block <= job[i].block
        <5>1. job[k].block # 0 /\ job[k].block <= job[i].block
          BY <3>0, <4>2 DEF JobSafe
        <5> QED  BY <2>1, <2>4, <5>1
      <4> QED  BY <2>2, <3>0, <4>1, <4>2 DEF JobSafe
    <3> QED  BY <3>1, <3>2
  <2>9. \A q \in Requests : RequestSafe(q)'
    BY <2>2 DEF ChainSafe, RequestSafe
  <2> QED  BY <2>6, <2>8, <2>9 DEF ChainSafe
<1> QED  BY <1>1, <1>2, <1>3, <1>4 DEF ChainMoves

----------------------------------------------------------------------------
(* The cursors. *)

Cursors == [stored : BOOLEAN, block : Blocks]

(* The safe head and where a scan resumes. *)
LEMMA CursorType ==
  ASSUME ChainTypeOK, NEW c \in Cursors, NEW b \in Blocks
  PROVE  /\ safeHead \in Blocks /\ safeHead <= head
         /\ Set(b) \in Cursors /\ Set(b).block = b /\ Set(b).stored
         /\ c.block \in Blocks /\ c.block \in Nat /\ c.stored \in BOOLEAN
         /\ GetOrSeed(c, safeHead, Lookback) \in Cursors
         /\ c.block <= head => GetOrSeed(c, safeHead, Lookback).block <= head
         /\ GetOrSeed(c, safeHead, Lookback) = c \/ Fresh(c, safeHead, Lookback)
<1>1. safeHead \in Blocks /\ safeHead <= head /\ head \in Nat
  BY ChainFields, ChainAssumption DEF safeHead, SafeHead, Blocks
<1>2. \A x \in Blocks : Set(x) \in Cursors /\ Set(x).block = x /\ Set(x).stored
  BY DEF Set, Cursors
<1>3. c.block \in Blocks /\ c.stored \in BOOLEAN
  BY DEF Cursors
<1>4. safeHead > Lookback => safeHead - Lookback \in Blocks /\ safeHead - Lookback <= head
  BY <1>1, ChainAssumption DEF Blocks
<1>5. GetOrSeed(c, safeHead, Lookback) = c
      \/ /\ safeHead > Lookback /\ Fresh(c, safeHead, Lookback)
         /\ GetOrSeed(c, safeHead, Lookback) = Set(safeHead - Lookback)
  BY <1>1, <1>3, BlocksNat, ChainAssumption DEF GetOrSeed, Fresh
<1>6. c.block \in Nat
  BY <1>3, BlocksNat
<1> HIDE DEF safeHead
<1>7. GetOrSeed(c, safeHead, Lookback) \in Cursors
  BY <1>2, <1>4, <1>5
<1>8. c.block <= head => GetOrSeed(c, safeHead, Lookback).block <= head
  BY <1>2, <1>4, <1>5
<1> QED  BY <1>1, <1>2, <1>3, <1>5, <1>6, <1>7, <1>8

(* A chunk ends at its size or at the safe head. *)
LEMMA ChunkEndBounds ==
  ASSUME NEW lo \in Nat, NEW safe \in Nat, lo <= safe
  PROVE  /\ ChunkEnd(lo, safe) \in Nat /\ lo <= ChunkEnd(lo, safe) /\ ChunkEnd(lo, safe) <= safe
         /\ lo + ChunkSize <= safe => ChunkEnd(lo, safe) = lo + ChunkSize - 1
BY ChainAssumption DEF ChunkEnd

----------------------------------------------------------------------------
(* The session watcher. *)

SessionPasses == [pc : {"idle", "reseed", "discover", "evaluate"}, lo : 0..MaxHead + ChunkSize,
                  safe : Blocks, todo : SUBSET Requests]

(* A pass resumes behind the cursor, which is behind the head; the look    *)
(* back is tried a bounded number of times.                                *)
PassSafe ==
  /\ SessionWatcherTypeOK
  /\ sCursor.block <= head
  /\ sPass.pc \in {"reseed", "discover"} => sPass.lo = sCursor.block + 1 /\ sPass.safe <= head
  /\ sPass.pc = "discover" => sPass.lo <= sPass.safe
  /\ sPass.pc = "reseed" => ~seeded
  /\ ~seeded => reseedTries < ReseedMaxAttempts

(* The types of a pass. *)
LEMMA SessionFields ==
  ASSUME SessionWatcherTypeOK
  PROVE  /\ sCursor \in Cursors /\ sPass \in SessionPasses
         /\ sCursor.block \in Nat /\ sCursor.block \in Blocks
         /\ sPass.lo \in Nat /\ sPass.safe \in Nat /\ sPass.safe \in Blocks
         /\ sPass.todo \subseteq Requests
         /\ NoPass \in SessionPasses /\ NoPass.pc = "idle"
<1>1. sCursor \in Cursors /\ sPass \in SessionPasses
  BY Zenon DEF SessionWatcherTypeOK, Cursors, SessionPasses
<1>2. sCursor.block \in Blocks /\ sPass.lo \in 0..MaxHead + ChunkSize /\ sPass.safe \in Blocks
      /\ sPass.todo \subseteq Requests
  BY <1>1 DEF Cursors, SessionPasses
<1>3. NoPass \in SessionPasses /\ NoPass.pc = "idle"
  BY BlocksNat, ChainAssumption DEF NoPass, SessionPasses
<1>4. sPass.lo \in Nat
  BY <1>2, ChainAssumption
<1> QED  BY <1>1, <1>2, <1>3, <1>4, BlocksNat

(* What follows in a pass. *)
LEMMA ScanFromType ==
  ASSUME NEW lo \in 0..MaxHead + ChunkSize, NEW safe \in Blocks, NEW reqs \in SUBSET Requests
  PROVE  /\ ScanFrom(lo, safe, reqs) \in SessionPasses
         /\ ScanFrom(lo, safe, reqs).pc # "reseed"
         /\ ScanFrom(lo, safe, reqs).pc = "discover" =>
              /\ lo <= safe /\ ScanFrom(lo, safe, reqs).lo = lo /\ ScanFrom(lo, safe, reqs).safe = safe
<1>1. CASE lo <= safe
  BY <1>1 DEF ScanFrom, SessionPasses
<1>2. CASE ~(lo <= safe)
  <2>1. /\ NoPass \in SessionPasses /\ NoPass.pc = "idle"
        /\ [NoPass EXCEPT !.pc = "evaluate", !.todo = reqs] \in SessionPasses
        /\ [NoPass EXCEPT !.pc = "evaluate", !.todo = reqs].pc = "evaluate"
    <3>1. NoPass \in SessionPasses /\ NoPass.pc = "idle"
      BY BlocksNat, ChainAssumption DEF NoPass, SessionPasses
    <3>2. [NoPass EXCEPT !.pc = "evaluate", !.todo = reqs] \in SessionPasses
      BY <3>1 DEF SessionPasses
    <3>3. [NoPass EXCEPT !.pc = "evaluate", !.todo = reqs].pc = "evaluate"
      BY <3>1 DEF SessionPasses
    <3> QED  BY <3>1, <3>2, <3>3
  <2> QED  BY <1>2, <2>1 DEF ScanFrom
<1> QED  BY <1>1, <1>2

(* A failed call is counted. *)
LEMMA FaultsType ==
  ASSUME ChainTypeOK, RpcFails \/ UNCHANGED faults
  PROVE  faults' \in 0..MaxFaults
BY ChainAssumption DEF ChainTypeOK, RpcFails

(* The types of the session watcher from its parts. *)
LEMMA SessionTypeFrom ==
  ASSUME sCursor' \in Cursors, pending' \subseteq Requests, claimTried' \subseteq Requests,
         seeded' \in BOOLEAN, reseedTries' \in 0..ReseedMaxAttempts, sPass' \in SessionPasses
  PROVE  SessionWatcherTypeOK'
BY Zenon DEF SessionWatcherTypeOK, Cursors, SessionPasses

(* The start of a pass. *)
LEMMA StartSessionSafe ==
  ASSUME ChainTypeOK, PassSafe, StartSessionPass
  PROVE  PassSafe'
<1>0. /\ sCursor \in Cursors /\ head \in Nat /\ sCursor.block \in Nat /\ pending \subseteq Requests
      /\ claimTried \subseteq Requests /\ reseedTries \in 0..ReseedMaxAttempts /\ seeded \in BOOLEAN
  BY SessionFields, ChainFields DEF PassSafe, SessionWatcherTypeOK
<1>1. /\ sCursor' \in Cursors /\ sCursor'.block <= head /\ safeHead \in Blocks /\ safeHead <= head
  BY <1>0, CursorType, BlocksNat DEF PassSafe, StartSessionPass
<1>2. sCursor'.block \in Nat /\ sCursor'.block + 1 \in 0..MaxHead + ChunkSize
  <2>1. sCursor'.block \in Blocks
    BY <1>1 DEF Cursors
  <2> QED  BY <2>1, ChainAssumption DEF Blocks
<1> HIDE DEF safeHead
<1>3. UNCHANGED <<head, pending, claimTried, reseedTries>>
  BY DEF StartSessionPass
<1>4. seeded' \in BOOLEAN /\ (seeded => seeded')
  BY <1>0 DEF StartSessionPass, Fresh
<1>5. CASE seeded'
  <2>1. sPass' = ScanFrom(sCursor'.block + 1, safeHead, pending)
    BY <1>5 DEF StartSessionPass
  <2>2. /\ sPass' \in SessionPasses /\ sPass'.pc # "reseed"
        /\ sPass'.pc = "discover" => /\ sCursor'.block + 1 <= safeHead
                                     /\ sPass'.lo = sCursor'.block + 1 /\ sPass'.safe = safeHead
    BY <1>0, <1>1, <1>2, <2>1, ScanFromType
  <2>3. SessionWatcherTypeOK'
    BY <1>0, <1>1, <1>3, <1>4, <2>2, SessionTypeFrom
  <2> QED  BY <1>1, <1>3, <1>5, <2>2, <2>3 DEF PassSafe
<1>6. CASE ~seeded'
  <2>1. sPass' = [pc |-> "reseed", lo |-> sCursor'.block + 1, safe |-> safeHead, todo |-> {}]
    BY <1>6 DEF StartSessionPass
  <2>2. /\ sPass' \in SessionPasses /\ sPass'.pc = "reseed"
        /\ sPass'.lo = sCursor'.block + 1 /\ sPass'.safe = safeHead
    BY <1>1, <1>2, <2>1 DEF SessionPasses
  <2>3. SessionWatcherTypeOK'
    BY <1>0, <1>1, <1>3, <1>4, <2>2, SessionTypeFrom
  <2> QED  BY <1>1, <1>3, <1>4, <1>6, <2>2, <2>3 DEF PassSafe
<1> QED  BY <1>5, <1>6

(* The look back. *)
LEMMA ReseedSafe ==
  ASSUME ChainTypeOK, PassSafe, Reseed
  PROVE  PassSafe'
<1>0. /\ sCursor \in Cursors /\ head \in Nat /\ sCursor.block \in Nat /\ pending \subseteq Requests
      /\ claimTried \subseteq Requests /\ reseedTries \in 0..ReseedMaxAttempts /\ seeded \in BOOLEAN
      /\ sPass.lo \in 0..MaxHead + ChunkSize /\ sPass.safe \in Blocks
  BY SessionFields, ChainFields DEF PassSafe, SessionWatcherTypeOK
<1>1. /\ UNCHANGED <<head, sCursor, claimTried>> /\ sPass' = ScanFrom(sPass.lo, sPass.safe, pending')
      /\ sPass.pc = "reseed"
  BY DEF Reseed
<1>2. LookbackWindow \subseteq Requests
  BY DEF LookbackWindow, SessionsIn
<1>3. pending' \subseteq Requests
  BY <1>0, <1>2 DEF Reseed
<1>4. /\ seeded' \in BOOLEAN /\ reseedTries' \in 0..ReseedMaxAttempts
      /\ ~seeded' => reseedTries' < ReseedMaxAttempts
  <2>1. reseedTries < ReseedMaxAttempts
    BY <1>1 DEF PassSafe
  <2>2. \/ seeded' = TRUE /\ reseedTries' = reseedTries
        \/ reseedTries' = reseedTries + 1 /\ seeded' = (reseedTries' >= ReseedMaxAttempts)
    BY DEF Reseed
  <2>3. CASE seeded' = TRUE /\ reseedTries' = reseedTries
    BY <1>0, <2>3
  <2>4. CASE reseedTries' = reseedTries + 1 /\ seeded' = (reseedTries' >= ReseedMaxAttempts)
    <3>1. reseedTries' \in 0..ReseedMaxAttempts
      BY <1>0, <2>1, <2>4, SessionWatcherAssumption
    <3>2. ~(reseedTries' >= ReseedMaxAttempts) => reseedTries' < ReseedMaxAttempts
      BY <3>1, SessionWatcherAssumption
    <3>3. (reseedTries' >= ReseedMaxAttempts) \in BOOLEAN
      OBVIOUS
    <3> QED  BY <2>4, <3>1, <3>2, <3>3, Zenon
  <2> QED  BY <2>2, <2>3, <2>4
<1>5. /\ sPass' \in SessionPasses /\ sPass'.pc # "reseed"
      /\ sPass'.pc = "discover" => /\ sPass.lo <= sPass.safe
                                   /\ sPass'.lo = sPass.lo /\ sPass'.safe = sPass.safe
  BY <1>0, <1>1, <1>3, ScanFromType
<1>6. SessionWatcherTypeOK'
  BY <1>0, <1>1, <1>3, <1>4, <1>5, SessionTypeFrom
<1> QED  BY <1>1, <1>4, <1>5, <1>6 DEF PassSafe

(* The scan of a chunk. *)
LEMMA DiscoverSafe ==
  ASSUME ChainTypeOK, PassSafe, Discover
  PROVE  PassSafe'
<1>0. /\ sCursor \in Cursors /\ head \in Nat /\ sCursor.block \in Nat /\ pending \subseteq Requests
      /\ claimTried \subseteq Requests /\ reseedTries \in 0..ReseedMaxAttempts /\ seeded \in BOOLEAN
      /\ sPass.lo \in Nat /\ sPass.safe \in Blocks /\ sPass.safe \in Nat /\ sPass.safe <= MaxHead
      /\ NoPass \in SessionPasses /\ NoPass.pc = "idle"
  BY SessionFields, ChainFields, BlocksNat DEF PassSafe, SessionWatcherTypeOK
<1>1. /\ UNCHANGED <<head, seeded, reseedTries, claimTried>> /\ sPass.pc = "discover"
      /\ sPass.lo <= sPass.safe /\ sPass.safe <= head /\ sPass.lo = sCursor.block + 1
  BY DEF Discover, PassSafe
<1> DEFINE hi == ChunkEnd(sPass.lo, sPass.safe)
<1>2. /\ hi \in Nat /\ hi <= sPass.safe /\ hi \in Blocks
      /\ sPass.lo + ChunkSize <= sPass.safe => hi = sPass.lo + ChunkSize - 1
  <2>1. /\ hi \in Nat /\ hi <= sPass.safe
        /\ sPass.lo + ChunkSize <= sPass.safe => hi = sPass.lo + ChunkSize - 1
    BY <1>0, <1>1, ChunkEndBounds
  <2> HIDE DEF hi
  <2>2. hi <= MaxHead
    BY <1>0, <2>1, ChainAssumption
  <2> QED  BY <2>1, <2>2, BlocksNat
<1> HIDE DEF hi
<1>3. CASE /\ pending' = pending \union SessionsIn(sPass.lo, hi) /\ sCursor' = Set(hi)
           /\ sPass' = ScanFrom(sPass.lo + ChunkSize, sPass.safe, pending')
  <2>1. pending' \subseteq Requests
    BY <1>0, <1>3 DEF SessionsIn
  <2>2. sCursor' \in Cursors /\ sCursor'.block = hi
    BY <1>2, <1>3, <1>0, CursorType
  <2>3. sPass.lo + ChunkSize \in 0..MaxHead + ChunkSize
    BY <1>0, <1>1, ChainAssumption
  <2>4. /\ sPass' \in SessionPasses /\ sPass'.pc # "reseed"
        /\ sPass'.pc = "discover" => /\ sPass.lo + ChunkSize <= sPass.safe
                                     /\ sPass'.lo = sPass.lo + ChunkSize /\ sPass'.safe = sPass.safe
    BY <1>0, <1>3, <2>1, <2>3, ScanFromType
  <2>5. SessionWatcherTypeOK'
    BY <1>0, <1>1, <2>1, <2>2, <2>4, SessionTypeFrom
  <2>6. sPass'.pc = "discover" => sPass'.lo = sCursor'.block + 1
    BY <1>0, <1>2, <2>2, <2>4, ChainAssumption
  <2> QED  BY <1>0, <1>1, <1>2, <2>2, <2>4, <2>5, <2>6 DEF PassSafe
<1>4. CASE sPass' = NoPass /\ UNCHANGED <<pending, sCursor>>
  <2>1. SessionWatcherTypeOK'
    BY <1>0, <1>1, <1>4, SessionTypeFrom
  <2> QED  BY <1>0, <1>1, <1>4, <2>1 DEF PassSafe
<1> QED  BY <1>3, <1>4 DEF Discover, hi

(* The evaluation of a request. *)
LEMMA EvaluateSafe ==
  ASSUME ChainTypeOK, PassSafe, NEW r \in Requests, NEW counter, Evaluate(r, counter)
  PROVE  PassSafe'
<1>0. /\ sCursor \in Cursors /\ sPass \in SessionPasses /\ pending \subseteq Requests
      /\ claimTried \subseteq Requests /\ reseedTries \in 0..ReseedMaxAttempts /\ seeded \in BOOLEAN
      /\ NoPass \in SessionPasses /\ NoPass.pc = "idle"
  BY SessionFields DEF PassSafe, SessionWatcherTypeOK
<1>1. UNCHANGED <<head, sCursor, seeded, reseedTries>> /\ sPass.pc = "evaluate"
  BY DEF Evaluate
<1>2. /\ pending' = pending \/ pending' = pending \ {r}
      /\ claimTried' = claimTried \/ claimTried' = claimTried \union {r}
      /\ sPass' = NoPass \/ sPass' = [sPass EXCEPT !.todo = @ \ {r}]
  BY DEF Evaluate, Keep, Drop, ClaimSession, Evaluated
<1>3. [sPass EXCEPT !.todo = @ \ {r}] \in SessionPasses /\ [sPass EXCEPT !.todo = @ \ {r}].pc = "evaluate"
  BY <1>0, <1>1 DEF SessionPasses
<1>4. sPass' \in SessionPasses /\ sPass'.pc \in {"idle", "evaluate"}
  BY <1>0, <1>2, <1>3
<1>5. SessionWatcherTypeOK'
  BY <1>0, <1>1, <1>2, <1>4, SessionTypeFrom
<1> QED  BY <1>1, <1>4, <1>5 DEF PassSafe

(* A pass asks the chain, and changes it only by a claim. *)
LEMMA SessionPassChain ==
  ASSUME ChainTypeOK, NEW counter, SessionPass(counter)
  PROVE  /\ RequestsMove \/ UNCHANGED <<head, req, job>>
         /\ UNCHANGED <<head, job>> /\ faults' \in 0..MaxFaults
<1>1. CASE StartSessionPass \/ Reseed \/ Discover
  <2>1. UNCHANGED <<head, req, job>> /\ (RpcFails \/ UNCHANGED faults)
    BY <1>1 DEF StartSessionPass, Reseed, Discover
  <2> QED  BY <2>1, FaultsType
<1>2. ASSUME NEW r \in Requests, Evaluate(r, counter)
      PROVE  /\ RequestsMove \/ UNCHANGED <<head, req, job>>
             /\ UNCHANGED <<head, job>> /\ (RpcFails \/ UNCHANGED faults)
  <2>1. /\ UNCHANGED <<head, job>> /\ (RpcFails \/ UNCHANGED faults)
        /\ UNCHANGED req \/ (req' = Claimed(r) /\ req[r].status = "open")
    BY <1>2 DEF Evaluate, Admitted, ClaimSession, Claimable, EligibleNow
  <2> QED  BY <2>1, ClaimEffect
<1> QED  BY <1>1, <1>2, FaultsType DEF SessionPass

(* The pass keeps its own invariant. *)
LEMMA SessionPassSafe ==
  ASSUME ChainTypeOK, PassSafe, NEW counter, SessionPass(counter)
  PROVE  PassSafe'
BY StartSessionSafe, ReseedSafe, DiscoverSafe, EvaluateSafe DEF SessionPass

(* So does a growing chain. *)
LEMMA PassSafeFrame ==
  ASSUME PassSafe, UNCHANGED swVars, head \in Nat, head' = head \/ head' = head + 1
  PROVE  PassSafe'
<1>1. sCursor.block \in Nat /\ sPass.safe \in Nat
  BY SessionFields DEF PassSafe
<1> QED  BY <1>1 DEF PassSafe, SessionWatcherTypeOK, swVars

----------------------------------------------------------------------------
(* The requests behind the cursor. *)

(* RequestsKept is inductive with what the passes and the chain keep. *)
KeptInv == ChainSafe /\ PassSafe /\ floor \in Blocks /\ RequestsKept

(* The floor only rises, to what the pass forgets. *)
LEMMA FloorRises ==
  ASSUME ChainTypeOK, PassSafe, PassSafe', floor \in Blocks, RunSessionWatcher
  PROVE  floor' \in Blocks /\ floor' \in Nat /\ floor \in Nat /\ floor <= floor'
         /\ Forgets \in Nat /\ Forgets <= floor'
<1>0. sCursor.block \in Blocks /\ sCursor.block \in Nat
  BY SessionFields DEF PassSafe
<1>1. sCursor'.block \in Blocks
  <2>1. sCursor' \in Cursors
    BY DEF PassSafe, SessionWatcherTypeOK, Cursors
  <2> QED  BY <2>1 DEF Cursors
<1>2. sPass.pc = "reseed" => sPass.lo = sCursor.block + 1
  BY DEF PassSafe
<1>3. CASE sPass.pc = "reseed" /\ seeded'
  <2>1. sPass.lo - 1 \in Blocks /\ sPass.lo - 1 \in Nat
    BY <1>0, <1>2, <1>3
  <2>2. sPass.lo - 1 > Lookback => sPass.lo - 1 - Lookback \in Blocks
    BY <1>0, <1>2, <1>3, ChainAssumption DEF Blocks
  <2>3. Forgets \in Blocks
    BY <1>3, <2>1, <2>2, BlocksNat DEF Forgets
  <2> HIDE DEF Forgets
  <2> QED  BY <2>3, BlocksNat DEF RunSessionWatcher
<1>4. CASE ~(sPass.pc = "reseed" /\ seeded')
  <2>3. Forgets \in Blocks
    BY <1>1, <1>4, BlocksNat DEF Forgets
  <2> HIDE DEF Forgets
  <2> QED  BY <2>3, BlocksNat DEF RunSessionWatcher
<1> QED  BY <1>3, <1>4

(* The start of a pass: a fresh cursor forgets what is before it. *)
LEMMA StartKept ==
  ASSUME KeptInv, PassSafe', RunSessionWatcher, StartSessionPass
  PROVE  RequestsKept'
<1>0. /\ ChainTypeOK /\ PassSafe /\ floor \in Blocks /\ sCursor \in Cursors
      /\ \A r \in Requests : req[r].block \in Nat
  BY SessionFields, ChainFields DEF KeptInv, ChainSafe, PassSafe
<1>1. floor' \in Nat /\ floor \in Nat /\ floor <= floor' /\ Forgets \in Nat /\ Forgets <= floor'
  BY <1>0, FloorRises
<1>2. UNCHANGED <<req, pending, claimTried>> /\ sPass.pc = "idle"
  BY DEF StartSessionPass
<1>3. sCursor.block \in Nat /\ sCursor'.block \in Nat
  <2>1. sCursor' \in Cursors
    BY DEF PassSafe, SessionWatcherTypeOK, Cursors
  <2> QED  BY <1>0, <2>1, BlocksNat DEF Cursors
<1>4. CASE Fresh(sCursor, safeHead, Lookback)
  <2>1. Forgets = sCursor'.block
    BY <1>2, <1>4 DEF Forgets, Fresh
  <2> HIDE DEF Forgets
  <2> QED  BY <1>0, <1>1, <1>2, <1>3, <2>1 DEF RequestsKept
<1>5. CASE ~Fresh(sCursor, safeHead, Lookback)
  <2>1. sCursor' = sCursor
    BY <1>0, <1>5, CursorType DEF StartSessionPass
  <2>2. seeded' => seeded
    BY <1>5 DEF StartSessionPass
  <2> QED  BY <1>0, <1>1, <1>2, <1>3, <2>1, <2>2 DEF RequestsKept, KeptInv
<1> QED  BY <1>4, <1>5

(* The look back finds the requests above the floor, or gives up on them. *)
LEMMA ReseedKept ==
  ASSUME KeptInv, PassSafe', RunSessionWatcher, Reseed
  PROVE  RequestsKept'
<1>0. /\ ChainTypeOK /\ PassSafe /\ floor \in Blocks /\ Lookback \in Nat
      /\ \A r \in Requests : req[r].block \in Nat /\ RequestSafe(r)
      /\ sCursor.block \in Nat /\ reseedTries \in Nat
  BY SessionFields, ChainFields, ChainAssumption DEF KeptInv, ChainSafe, PassSafe, SessionWatcherTypeOK
<1>1. floor' \in Nat /\ floor \in Nat /\ floor <= floor' /\ Forgets \in Nat /\ Forgets <= floor'
  BY <1>0, FloorRises
<1>2. UNCHANGED <<req, sCursor, claimTried>> /\ sPass.pc = "reseed" /\ pending \subseteq pending'
  BY DEF Reseed
<1>3. sPass.lo = sCursor.block + 1 /\ reseedTries < ReseedMaxAttempts
  BY <1>0, <1>2 DEF PassSafe
<1>4. CASE seeded' /\ reseedTries' >= ReseedMaxAttempts
  <2>1. Forgets = sCursor.block
    BY <1>0, <1>2, <1>3, <1>4 DEF Forgets
  <2> HIDE DEF Forgets
  <2> QED  BY <1>0, <1>1, <1>2, <2>1 DEF RequestsKept
<1>5. CASE seeded' /\ ~(reseedTries' >= ReseedMaxAttempts)
  <2>1. pending' = pending \union LookbackWindow
    BY <1>5 DEF Reseed
  <2>2. Forgets = IF sCursor.block > Lookback THEN sCursor.block - Lookback ELSE 0
    BY <1>0, <1>2, <1>3, <1>5 DEF Forgets
  <2> HIDE DEF Forgets
  <2>3. ASSUME NEW r \in Requests, req[r].status = "open", req[r].block \in floor' + 1..sCursor.block
        PROVE  r \in LookbackWindow
    <3>1. Lookback # 0
      BY <1>0, <1>1, <2>2, <2>3
    <3>2. req[r].block \in (IF sPass.lo - 1 > Lookback THEN sPass.lo - Lookback ELSE 1)..sPass.lo - 1
      BY <1>0, <1>1, <1>3, <2>2, <2>3
    <3> QED  BY <2>3, <3>1, <3>2 DEF LookbackWindow, SessionsIn
  <2> QED  BY <1>2, <2>1, <2>3 DEF RequestsKept
<1>6. CASE ~seeded'
  BY <1>6 DEF RequestsKept
<1> QED  BY <1>4, <1>5, <1>6

(* Discovery adds what it moves the cursor over. *)
LEMMA DiscoverKept ==
  ASSUME KeptInv, PassSafe', RunSessionWatcher, Discover
  PROVE  RequestsKept'
<1>0. /\ ChainTypeOK /\ PassSafe /\ floor \in Blocks
      /\ \A r \in Requests : req[r].block \in Nat
      /\ sCursor.block \in Nat /\ sPass.lo \in Nat /\ sPass.safe \in Nat
  BY SessionFields, ChainFields DEF KeptInv, ChainSafe, PassSafe, SessionWatcherTypeOK
<1>1. floor' \in Nat /\ floor \in Nat /\ floor <= floor'
  BY <1>0, FloorRises
<1>2. UNCHANGED <<req, seeded, claimTried>> /\ sPass.pc = "discover"
  BY DEF Discover
<1>3. sPass.lo = sCursor.block + 1 /\ sPass.lo <= sPass.safe
  BY <1>0, <1>2 DEF PassSafe
<1>4. CASE UNCHANGED <<pending, sCursor>>
  BY <1>0, <1>1, <1>2, <1>4 DEF RequestsKept, KeptInv
<1> DEFINE hi == ChunkEnd(sPass.lo, sPass.safe)
<1>5. CASE pending' = pending \union SessionsIn(sPass.lo, hi) /\ sCursor' = Set(hi)
  <2>1. hi \in Nat
    BY <1>0, <1>3, ChunkEndBounds
  <2>2. sCursor'.block = hi
    BY <1>5 DEF Set
  <2> HIDE DEF hi
  <2>3. ASSUME NEW r \in Requests, req[r].status = "open", req[r].covered, seeded,
               req[r].block \in floor' + 1..hi
        PROVE  r \in pending' \union claimTried
    <3>1. CASE req[r].block <= sCursor.block
      BY <1>0, <1>1, <1>5, <2>1, <2>3, <3>1 DEF RequestsKept, KeptInv
    <3>2. CASE ~(req[r].block <= sCursor.block)
      <4>1. req[r].block \in sPass.lo..hi
        BY <1>0, <1>1, <1>3, <2>1, <2>3, <3>2
      <4> QED  BY <1>5, <2>3, <4>1 DEF SessionsIn
    <3> QED  BY <3>1, <3>2
  <2> QED  BY <1>2, <2>2, <2>3 DEF RequestsKept
<1> QED  BY <1>4, <1>5 DEF Discover

(* Evaluation drops a request only when it may. *)
LEMMA EvaluateKept ==
  ASSUME KeptInv, PassSafe', RunSessionWatcher, NEW r \in Requests, NEW counter, Evaluate(r, counter)
  PROVE  RequestsKept'
<1>0. /\ ChainTypeOK /\ PassSafe /\ floor \in Blocks /\ sCursor.block \in Nat
      /\ \A q \in Requests : req[q].block \in Nat
      /\ req \in [Requests -> RequestRec]
  BY SessionFields, ChainFields DEF KeptInv, ChainSafe, PassSafe
<1>1. floor' \in Nat /\ floor \in Nat /\ floor <= floor'
  BY <1>0, FloorRises
<1>2. UNCHANGED <<sCursor, seeded>>
  BY DEF Evaluate
<1>3. \A q \in Requests : q # r => req'[q] = req[q] /\ (q \in pending => q \in pending')
  <2>1. req' = req \/ req' = Claimed(r)
    BY DEF Evaluate, ClaimSession
  <2>2. \A q \in Requests : q # r => Claimed(r)[q] = req[q]
    BY <1>0, Zenon DEF Claimed
  <2>3. pending' = pending \/ pending' = pending \ {r}
    BY DEF Evaluate, Keep, Drop, ClaimSession
  <2> QED  BY <2>1, <2>2, <2>3
<1>4. claimTried \subseteq claimTried'
  BY DEF Evaluate, Keep, Drop, ClaimSession
<1>5. \/ req' = req /\ pending' = pending
      \/ req' = req /\ ~(req[r].status = "open" /\ req[r].covered)
      \/ r \in claimTried'
  BY DEF Evaluate, Keep, Drop, ClaimSession, Claimable
<1>6. ASSUME seeded, NEW q \in Requests, req'[q].status = "open", req'[q].covered,
             req'[q].block \in floor' + 1..sCursor.block
      PROVE  q \in pending' \union claimTried'
  <2>1. CASE req'[q] = req[q]
    <3>1. req[q].block \in floor + 1..sCursor.block
      BY <1>0, <1>1, <1>6, <2>1
    <3>2. q \in pending \union claimTried
      BY <1>6, <2>1, <3>1 DEF KeptInv, RequestsKept
    <3>3. CASE q = r
      BY <1>4, <1>5, <1>6, <3>2, <3>3
    <3> QED  BY <1>3, <1>4, <3>2, <3>3
  <2>2. CASE req'[q] # req[q]
    BY <1>3, <1>5, <2>2
  <2> QED  BY <2>1, <2>2
<1> QED  BY <1>2, <1>6 DEF RequestsKept

(* A new request is in front of the cursor. *)
LEMMA ChainKept ==
  ASSUME KeptInv, UNCHANGED <<swVars, floor>>, ChainMoves \/ UNCHANGED <<head, req, job>>
  PROVE  RequestsKept'
<1>0. /\ ChainTypeOK /\ floor \in Nat /\ sCursor.block \in Nat /\ head \in Nat
      /\ sCursor.block <= head /\ \A q \in Requests : req[q].block \in Nat
  BY SessionFields, ChainFields, BlocksNat DEF KeptInv, ChainSafe, PassSafe
<1>1. UNCHANGED <<sCursor, pending, claimTried, seeded, floor>>
  BY DEF swVars
<1>2. CASE UNCHANGED req
  BY <1>1, <1>2 DEF KeptInv, RequestsKept
<1>3. CASE RequestsMove
  <2>1. ASSUME NEW q \in Requests, req'[q].status = "open", req'[q].block <= sCursor.block
        PROVE  req'[q] = req[q]
    BY <1>0, <1>3, <2>1 DEF RequestsMove, RequestMoves
  <2>2. ASSUME NEW q \in Requests, req'[q].block \in floor + 1..sCursor.block
        PROVE  req'[q].block <= sCursor.block
    BY <1>0, <2>2
  <2> QED  BY <1>1, <2>1, <2>2 DEF KeptInv, RequestsKept
<1> QED  BY <1>2, <1>3 DEF ChainMoves, HeadMoves, JobMoves

----------------------------------------------------------------------------
(* The job watcher. *)

JobPasses == [pc : {"idle", "events"}, lo : 0..MaxHead + ChunkSize,
              hi : Blocks, safe : Blocks, todo : SUBSET Jobs]

Retries == [Jobs -> 0..SessionRetryLimit - 1]

Over == handed \union refused

(* The events of a chunk are those behind the cursor; those that are ours  *)
(* and not waiting have been dealt with.                                   *)
ScanSafe ==
  /\ jPass.lo = jCursor.block + 1 /\ jPass.lo <= jPass.safe /\ jPass.safe <= head
  /\ jPass.hi = ChunkEnd(jPass.lo, jPass.safe)
  /\ jPass.todo \subseteq JobsIn(jPass.lo, jPass.hi)
  /\ \A j \in JobsIn(jPass.lo, jPass.hi) : Mine(j) => j \in jPass.todo \/ j \in Over

(* NoJobSkipped is inductive with the state of the scan. *)
JobInv ==
  /\ JobWatcherTypeOK
  /\ jCursor.block <= head
  /\ jPass.pc = "events" => ScanSafe
  /\ NoJobSkipped

(* The types of the job watcher. *)
LEMMA JobFields ==
  ASSUME JobWatcherTypeOK
  PROVE  /\ jCursor \in Cursors /\ jPass \in JobPasses /\ notActiveRetries \in Retries
         /\ jCursor.block \in Nat /\ jCursor.block \in Blocks /\ jStart \in Nat
         /\ jPass.lo \in Nat /\ jPass.safe \in Nat /\ jPass.safe \in Blocks
         /\ jPass.hi \in Nat /\ jPass.hi \in Blocks
         /\ jPass.todo \subseteq Jobs
         /\ NoJobPass \in JobPasses /\ NoJobPass.pc = "idle"
         /\ started \subseteq Jobs /\ running \in [Jobs -> Nat]
         /\ handed \subseteq Jobs /\ refused \subseteq Jobs /\ jStart \in Blocks
<1>1. /\ jCursor \in Cursors /\ jPass \in JobPasses /\ notActiveRetries \in Retries
      /\ started \subseteq Jobs /\ running \in [Jobs -> Nat]
      /\ handed \subseteq Jobs /\ refused \subseteq Jobs /\ jStart \in Blocks
  BY Zenon DEF JobWatcherTypeOK, Cursors, JobPasses, Retries
<1>2. jCursor.block \in Blocks /\ jPass.lo \in 0..MaxHead + ChunkSize /\ jPass.safe \in Blocks
      /\ jPass.hi \in Blocks /\ jPass.todo \subseteq Jobs
  BY <1>1 DEF Cursors, JobPasses
<1>3. NoJobPass \in JobPasses /\ NoJobPass.pc = "idle"
  BY BlocksNat, ChainAssumption DEF NoJobPass, JobPasses
<1>4. jPass.lo \in Nat
  BY <1>2, ChainAssumption
<1> QED  BY <1>1, <1>2, <1>3, <1>4, BlocksNat

(* The types of the job watcher from its parts. *)
LEMMA JobTypeFrom ==
  ASSUME jCursor' \in Cursors, notActiveRetries' \in Retries, jPass' \in JobPasses,
         started' \subseteq Jobs, running' \in [Jobs -> Nat],
         handed' \subseteq Jobs, refused' \subseteq Jobs, jStart' \in Blocks
  PROVE  JobWatcherTypeOK'
BY Zenon DEF JobWatcherTypeOK, Cursors, JobPasses, Retries

(* Jobs that are in a block stay as they are, and nobody takes their       *)
(* session away; a new job is in front of the head.                        *)
LEMMA JobsStable ==
  ASSUME ChainSafe, ChainMoves \/ UNCHANGED <<head, req, job>>, NEW j \in Jobs,
         job'[j].block # 0, job'[j].block <= head
  PROVE  job'[j] = job[j] /\ (Mine(j)' <=> Mine(j))
<1>0. head \in Nat /\ job \in [Jobs -> JobRec] /\ job[j].session \in Requests /\ JobSafe(j)
  BY ChainFields DEF ChainSafe
<1>1. job'[j] = job[j]
  <2>1. CASE UNCHANGED job
    BY <2>1
  <2>2. CASE JobMoves
    <3>1. PICK i \in Jobs, r \in Requests : job' = [job EXCEPT ![i] = [block |-> head + 1, session |-> r]]
      BY <2>2 DEF JobMoves
    <3>2. i = j => job'[j].block = head + 1
      BY <1>0, <3>1
    <3> QED  BY <1>0, <3>1, <3>2
  <2> QED  BY <2>1, <2>2 DEF ChainMoves, HeadMoves, RequestsMove
<1>2. CASE UNCHANGED req
  BY <1>1, <1>2 DEF Mine
<1>3. CASE RequestsMove
  <2>1. RequestMoves(job[j].session) /\ req[job[j].session].status \in {"mine", "other"}
    BY <1>0, <1>1, <1>3 DEF RequestsMove, JobSafe
  <2> QED  BY <1>1, <2>1 DEF Mine, RequestMoves
<1> QED  BY <1>2, <1>3 DEF ChainMoves, HeadMoves, JobMoves

(* A step of the chain or of the session watcher does not touch the scan. *)
LEMMA JobFrame ==
  ASSUME ChainSafe, JobInv, UNCHANGED jwVars, ChainMoves \/ UNCHANGED <<head, req, job>>
  PROVE  JobInv'
<1>0. /\ head \in Nat /\ head' \in Nat /\ head <= head' /\ jCursor.block \in Nat
      /\ jPass.lo \in Nat /\ jPass.safe \in Nat /\ jPass.hi \in Nat
      /\ \A j \in Jobs : job[j].block \in Nat
  <2>1. head \in Nat /\ \A j \in Jobs : job[j].block \in Nat
    BY ChainFields DEF ChainSafe
  <2>2. head' = head \/ head' = head + 1
    BY DEF ChainMoves, HeadMoves, RequestsMove, JobMoves
  <2> QED  BY <2>1, <2>2, JobFields DEF JobInv
<1>0a. \A j \in Jobs : job'[j].block \in Nat
  <2>1. CASE UNCHANGED job
    BY <1>0, <2>1
  <2>2. CASE JobMoves
    <3>1. PICK i \in Jobs, r \in Requests : job' = [job EXCEPT ![i] = [block |-> head + 1, session |-> r]]
      BY <2>2 DEF JobMoves
    <3>2. job \in [Jobs -> JobRec]
      BY ChainFields DEF ChainSafe
    <3> QED  BY <1>0, <3>1, <3>2
  <2> QED  BY <2>1, <2>2 DEF ChainMoves, HeadMoves, RequestsMove
<1>1. UNCHANGED <<jCursor, notActiveRetries, jPass, started, running, handed, refused, jStart>>
  BY DEF jwVars
<1>2. JobWatcherTypeOK'
  BY <1>1 DEF JobInv, JobWatcherTypeOK
<1>3. jCursor'.block <= head'
  BY <1>0, <1>1 DEF JobInv
<1>4. NoJobSkipped'
  <2>1. ASSUME NEW j \in Jobs, job'[j].block # 0, job'[j].block <= jCursor.block
        PROVE  job'[j] = job[j] /\ (Mine(j)' <=> Mine(j))
    BY <1>0, <1>0a, <2>1, JobsStable DEF JobInv
  <2> QED  BY <1>1, <2>1 DEF JobInv, NoJobSkipped
<1>5. ASSUME jPass.pc = "events" PROVE ScanSafe'
  <2>1. ScanSafe
    BY <1>5 DEF JobInv
  <2>2. jPass.hi <= head
    <3>1. /\ jPass.lo <= jPass.safe /\ jPass.safe <= head
          /\ jPass.hi = ChunkEnd(jPass.lo, jPass.safe)
      BY <2>1 DEF ScanSafe
    <3>2. ChunkEnd(jPass.lo, jPass.safe) <= jPass.safe
      BY <1>0, <3>1, ChunkEndBounds
    <3> QED  BY <1>0, <3>1, <3>2
  <2>3. ASSUME NEW j \in JobsIn(jPass.lo, jPass.hi)' PROVE j \in JobsIn(jPass.lo, jPass.hi) /\ (Mine(j)' <=> Mine(j))
    <3>1. j \in Jobs /\ job'[j].block # 0 /\ job'[j].block \in jPass.lo..jPass.hi
      BY <1>1, <2>3 DEF JobsIn
    <3>2. job'[j].block <= head
      BY <1>0, <1>0a, <2>2, <3>1
    <3>3. job'[j] = job[j] /\ (Mine(j)' <=> Mine(j))
      BY <3>1, <3>2, JobsStable
    <3> QED  BY <3>1, <3>3 DEF JobsIn
  <2>4. ASSUME NEW j \in JobsIn(jPass.lo, jPass.hi) PROVE j \in JobsIn(jPass.lo, jPass.hi)'
    <3>1. j \in Jobs /\ job[j].block # 0 /\ job[j].block \in jPass.lo..jPass.hi
      BY <2>4 DEF JobsIn
    <3>2. job'[j] = job[j]
      <4>1. CASE JobMoves
        BY <3>1, <4>1, ChainFields DEF JobMoves, ChainSafe
      <4> QED  BY <4>1 DEF ChainMoves, HeadMoves, RequestsMove
    <3> QED  BY <1>1, <3>1, <3>2 DEF JobsIn
  <2>5. /\ jPass'.lo = jCursor'.block + 1 /\ jPass'.lo <= jPass'.safe /\ jPass'.safe <= head'
        /\ jPass'.hi = ChunkEnd(jPass'.lo, jPass'.safe)
    BY <1>0, <1>1, <2>1 DEF ScanSafe
  <2>6. jPass'.todo \subseteq JobsIn(jPass.lo, jPass.hi)'
    BY <1>1, <2>1, <2>4 DEF ScanSafe
  <2>7. \A j \in JobsIn(jPass.lo, jPass.hi)' : Mine(j)' => j \in jPass'.todo \/ j \in Over'
    BY <1>1, <2>1, <2>3 DEF ScanSafe, Over
  <2> QED  BY <2>5, <2>6, <2>7 DEF ScanSafe
<1> QED  BY <1>1, <1>2, <1>3, <1>4, <1>5 DEF JobInv

(* The next chunk of a pass is scanned from the cursor on. *)
LEMMA ScanChunkSafe ==
  ASSUME ChainTypeOK, NEW lo \in Nat, NEW safe \in Blocks, safe <= head, UNCHANGED chainOf,
         lo <= safe => lo = jCursor'.block + 1, ScanChunk(lo, safe)
  PROVE  /\ jPass' \in JobPasses /\ (jPass'.pc = "events" => ScanSafe')
         /\ faults' \in 0..MaxFaults
<1>0. /\ head \in Nat /\ safe \in Nat /\ safe <= MaxHead /\ MaxHead \in Nat /\ ChunkSize \in Nat
      /\ NoJobPass \in JobPasses /\ NoJobPass.pc = "idle"
  <2>1. NoJobPass \in JobPasses /\ NoJobPass.pc = "idle"
    BY BlocksNat, ChainAssumption DEF NoJobPass, JobPasses
  <2> QED  BY <2>1, ChainFields, BlocksNat, ChainAssumption
<1>1. CASE jPass' = NoJobPass /\ (RpcFails \/ UNCHANGED faults)
  BY <1>0, <1>1, FaultsType
<1> DEFINE hi == ChunkEnd(lo, safe)
<1>2. CASE /\ lo <= safe /\ UNCHANGED faults
           /\ jPass' = [pc |-> "events", lo |-> lo, hi |-> hi, safe |-> safe, todo |-> JobsIn(lo, hi)]
  <2>1. hi \in Nat /\ lo <= hi /\ hi <= safe
    BY <1>0, <1>2, ChunkEndBounds
  <2>2. JobsIn(lo, hi)' = JobsIn(lo, hi) /\ JobsIn(lo, hi) \subseteq Jobs
    BY DEF JobsIn, chainOf
  <2>3. hi \in Blocks /\ lo \in 0..MaxHead + ChunkSize
    <3> HIDE DEF hi
    <3>1. hi <= MaxHead
      BY <1>0, <2>1
    <3> QED  BY <1>0, <2>1, <3>1, BlocksNat
  <2>5. hi' = hi
    BY DEF hi, ChunkEnd
  <2> HIDE DEF hi
  <2>4. /\ jPass' \in JobPasses /\ jPass'.lo = lo /\ jPass'.hi = hi /\ jPass'.safe = safe
        /\ jPass'.todo = JobsIn(lo, hi)
    BY <1>2, <2>2, <2>3 DEF JobPasses
  <2>6. ScanSafe'
    <3>1. hi = ChunkEnd(lo, safe)
      BY DEF hi
    <3>2. JobsIn(jPass.lo, jPass.hi)' = JobsIn(lo, hi)
      BY <2>4 DEF JobsIn, chainOf
    <3>3. head' = head
      BY DEF chainOf
    <3> QED  BY <1>2, <2>4, <3>1, <3>2, <3>3 DEF ScanSafe
  <2>7. faults' \in 0..MaxFaults
    BY <1>2, FaultsType
  <2> QED  BY <2>4, <2>6, <2>7
<1>3. ~(lo > safe) => lo <= safe
  BY <1>0
<1> QED  BY <1>1, <1>2, <1>3 DEF ScanChunk

(* The start of a pass: a fresh cursor starts behind the safe head. *)
LEMMA StartJobSafe ==
  ASSUME ChainSafe, JobInv, StartJobPass
  PROVE  JobInv' /\ faults' \in 0..MaxFaults
<1>0. /\ ChainTypeOK /\ head \in Nat /\ jCursor \in Cursors /\ jCursor.block \in Nat
      /\ notActiveRetries \in Retries /\ started \subseteq Jobs /\ running \in [Jobs -> Nat]
      /\ handed \subseteq Jobs /\ refused \subseteq Jobs /\ jStart \in Blocks /\ jCursor.block <= head
      /\ \A j \in Jobs : job[j].block \in Nat
  BY JobFields, ChainFields DEF JobInv, ChainSafe
<1>1. /\ jCursor' \in Cursors /\ jCursor'.block <= head /\ safeHead \in Blocks /\ safeHead <= head
      /\ jCursor' = jCursor \/ Fresh(jCursor, safeHead, Lookback)
  BY <1>0, CursorType, BlocksNat DEF StartJobPass
<1>2. jCursor'.block \in Blocks /\ jCursor'.block \in Nat
  BY <1>1, BlocksNat DEF Cursors
<1> HIDE DEF safeHead
<1>3. /\ UNCHANGED <<head, req, job, notActiveRetries, started, running, handed, refused>>
      /\ ScanChunk(jCursor'.block + 1, safeHead) /\ UNCHANGED chainOf
      /\ jStart' = IF Fresh(jCursor, safeHead, Lookback) THEN jCursor'.block ELSE jStart
  BY DEF StartJobPass, chainOf
<1>4. /\ jPass' \in JobPasses /\ (jPass'.pc = "events" => ScanSafe') /\ faults' \in 0..MaxFaults
  BY <1>0, <1>1, <1>2, <1>3, ScanChunkSafe
<1>5. JobWatcherTypeOK'
  BY <1>0, <1>1, <1>2, <1>3, <1>4, JobTypeFrom
<1>6. NoJobSkipped'
  <2>1. \A j \in Jobs : Mine(j)' <=> Mine(j)
    BY <1>3 DEF Mine
  <2>2. CASE Fresh(jCursor, safeHead, Lookback)
    BY <1>0, <1>2, <1>3, <2>2 DEF NoJobSkipped
  <2>3. CASE ~Fresh(jCursor, safeHead, Lookback)
    BY <1>1, <1>3, <2>1, <2>3 DEF NoJobSkipped, JobInv
  <2> QED  BY <2>2, <2>3
<1> QED  BY <1>1, <1>3, <1>4, <1>5, <1>6 DEF JobInv

(* The end of a chunk moves the cursor over events that are dealt with. *)
LEMMA EndChunkSafe ==
  ASSUME ChainSafe, JobInv, EndChunk
  PROVE  JobInv' /\ faults' \in 0..MaxFaults
<1>0. /\ ChainTypeOK /\ head \in Nat /\ jCursor \in Cursors /\ jCursor.block \in Nat
      /\ notActiveRetries \in Retries /\ started \subseteq Jobs /\ running \in [Jobs -> Nat]
      /\ handed \subseteq Jobs /\ refused \subseteq Jobs /\ jStart \in Blocks
      /\ jPass.lo \in Nat /\ jPass.hi \in Blocks /\ jPass.hi \in Nat
      /\ jPass.safe \in Nat /\ jPass.safe \in Blocks
      /\ \A j \in Jobs : job[j].block \in Nat
  BY JobFields, ChainFields DEF JobInv, ChainSafe
<1>1. /\ UNCHANGED <<head, req, job, notActiveRetries, started, running, handed, refused, jStart>>
      /\ ScanChunk(jPass.lo + ChunkSize, jPass.safe) /\ UNCHANGED chainOf
      /\ jPass.pc = "events" /\ jPass.todo = {} /\ jCursor' = Set(jPass.hi)
  BY DEF EndChunk, chainOf
<1>2. ScanSafe
  BY <1>1 DEF JobInv
<1>3. jCursor' \in Cursors /\ jCursor'.block = jPass.hi
  BY <1>0, <1>1, CursorType
<1>4. /\ jPass.lo = jCursor.block + 1 /\ jPass.lo <= jPass.safe /\ jPass.safe <= head
      /\ jPass.hi = ChunkEnd(jPass.lo, jPass.safe)
  BY <1>2 DEF ScanSafe
<1>5. /\ jPass.hi <= jPass.safe /\ jPass.lo <= jPass.hi
      /\ jPass.lo + ChunkSize <= jPass.safe => jPass.hi = jPass.lo + ChunkSize - 1
  BY <1>0, <1>4, ChunkEndBounds
<1>6. /\ jPass' \in JobPasses /\ (jPass'.pc = "events" => ScanSafe') /\ faults' \in 0..MaxFaults
  <2>1. jPass.lo + ChunkSize \in Nat
    BY <1>0, ChainAssumption
  <2>2. jPass.lo + ChunkSize <= jPass.safe => jPass.lo + ChunkSize = jCursor'.block + 1
    BY <1>0, <1>3, <1>5, ChainAssumption
  <2> QED  BY <1>0, <1>1, <1>4, <2>1, <2>2, ScanChunkSafe
<1>7. JobWatcherTypeOK'
  BY <1>0, <1>1, <1>3, <1>6, JobTypeFrom
<1>8. NoJobSkipped'
  <2>1. \A j \in Jobs : Mine(j)' <=> Mine(j)
    BY <1>1 DEF Mine
  <2>2. ASSUME NEW j \in Jobs, job[j].block # 0, Mine(j), job[j].block <= jPass.hi, job[j].block > jStart
        PROVE  j \in Over
    <3>1. CASE job[j].block <= jCursor.block
      BY <2>2, <3>1 DEF JobInv, NoJobSkipped, Over
    <3>2. CASE ~(job[j].block <= jCursor.block)
      <4>1. job[j].block \in jPass.lo..jPass.hi
        BY <1>0, <1>4, <2>2, <3>2
      <4>2. j \in JobsIn(jPass.lo, jPass.hi)
        BY <2>2, <4>1 DEF JobsIn
      <4> QED  BY <1>1, <1>2, <2>2, <4>2 DEF ScanSafe
    <3> QED  BY <3>1, <3>2
  <2> QED  BY <1>1, <1>3, <2>1, <2>2 DEF NoJobSkipped, Over
<1>9. jCursor'.block <= head'
  BY <1>0, <1>1, <1>3, <1>4, <1>5
<1> QED  BY <1>6, <1>7, <1>8, <1>9 DEF JobInv

(* An event that is past: it is not ours, or it is dealt with. *)
LEMMA PastEventSafe ==
  ASSUME ChainSafe, JobInv, NEW j \in Jobs, NextEvent(j), PastEvent(j),
         UNCHANGED <<head, req, job, faults, jCursor, running, jStart>>,
         notActiveRetries' \in Retries, started' \subseteq Jobs,
         handed' \subseteq Jobs, refused' \subseteq Jobs,
         handed \subseteq handed', refused \subseteq refused', ~Mine(j) \/ j \in Over'
  PROVE  JobInv' /\ faults' \in 0..MaxFaults
<1>0. /\ ChainTypeOK /\ jCursor \in Cursors /\ running \in [Jobs -> Nat] /\ jStart \in Blocks
      /\ jPass \in JobPasses
  BY JobFields DEF JobInv, ChainSafe
<1>1. jPass.pc = "events" /\ ScanSafe /\ jPass' = [jPass EXCEPT !.todo = @ \ {j}]
  BY DEF NextEvent, PastEvent, JobInv
<1>2. /\ jPass' \in JobPasses /\ jPass'.pc = "events" /\ jPass'.lo = jPass.lo /\ jPass'.hi = jPass.hi
      /\ jPass'.safe = jPass.safe /\ jPass'.todo = jPass.todo \ {j}
  BY <1>0, <1>1 DEF JobPasses
<1>3. JobWatcherTypeOK'
  BY <1>0, <1>2, JobTypeFrom
<1>4. \A i \in Jobs : Mine(i)' <=> Mine(i)
  BY DEF Mine
<1>5. NoJobSkipped'
  BY <1>4 DEF JobInv, NoJobSkipped
<1>6. JobsIn(jPass.lo, jPass.hi)' = JobsIn(jPass.lo, jPass.hi) /\ JobsIn(jPass.lo, jPass.hi) \subseteq Jobs
  BY <1>2 DEF JobsIn
<1>7. ScanSafe'
  <2>1. /\ jPass'.lo = jCursor'.block + 1 /\ jPass'.lo <= jPass'.safe /\ jPass'.safe <= head'
        /\ jPass'.hi = ChunkEnd(jPass'.lo, jPass'.safe)
    BY <1>1, <1>2 DEF ScanSafe
  <2>2. jPass'.todo \subseteq JobsIn(jPass.lo, jPass.hi)'
    BY <1>1, <1>2, <1>6 DEF ScanSafe
  <2>3. ASSUME NEW i \in JobsIn(jPass.lo, jPass.hi), Mine(i) PROVE i \in jPass'.todo \/ i \in Over'
    BY <1>1, <1>2, <2>3 DEF ScanSafe, Over
  <2> QED  BY <1>4, <1>6, <2>1, <2>2, <2>3 DEF ScanSafe
<1>8. faults' \in 0..MaxFaults
  BY <1>0, FaultsType
<1> QED  BY <1>3, <1>5, <1>7, <1>8 DEF JobInv

(* A pass that stops before an event: the events are in the order of their *)
(* blocks, so those in front of it are dealt with.                         *)
LEMMA StopAndRetrySafe ==
  ASSUME ChainSafe, JobInv, NEW j \in Jobs, NextEvent(j), StopAndRetry(j), RpcFails \/ UNCHANGED faults,
         UNCHANGED <<head, req, job, started, running, handed, refused, jStart>>,
         notActiveRetries' \in Retries
  PROVE  JobInv' /\ faults' \in 0..MaxFaults
<1>0. /\ ChainTypeOK /\ head \in Nat /\ jCursor \in Cursors /\ jCursor.block \in Nat
      /\ started \subseteq Jobs /\ running \in [Jobs -> Nat]
      /\ handed \subseteq Jobs /\ refused \subseteq Jobs /\ jStart \in Blocks
      /\ jPass.lo \in Nat /\ jPass.hi \in Nat /\ jPass.safe \in Nat
      /\ NoJobPass \in JobPasses /\ NoJobPass.pc = "idle"
      /\ Jobs \subseteq Nat
      /\ \A i \in Jobs : job[i].block \in Nat /\ job[i].block \in Blocks
  BY JobFields, ChainFields DEF JobInv, ChainSafe
<1>1. /\ jPass.pc = "events" /\ ScanSafe /\ j \in jPass.todo /\ \A i \in jPass.todo : j <= i
      /\ jCursor' = Set(job[j].block - 1) /\ jPass' = NoJobPass
  BY DEF NextEvent, StopAndRetry, JobInv
<1>2. /\ jPass.lo = jCursor.block + 1 /\ jPass.lo <= jPass.safe /\ jPass.safe <= head
      /\ jPass.hi = ChunkEnd(jPass.lo, jPass.safe) /\ j \in JobsIn(jPass.lo, jPass.hi)
  BY <1>1 DEF ScanSafe
<1>3. jPass.hi <= head
  <2>1. ChunkEnd(jPass.lo, jPass.safe) <= jPass.safe
    BY <1>0, <1>2, ChunkEndBounds
  <2> QED  BY <1>0, <1>2, <2>1
<1>4. job[j].block # 0 /\ job[j].block \in jPass.lo..jPass.hi
  BY <1>2 DEF JobsIn
<1>5. job[j].block - 1 \in Blocks /\ job[j].block - 1 <= head
  <2>1. job[j].block \in Blocks /\ job[j].block # 0
    BY <1>0, <1>4
  <2>2. job[j].block - 1 \in Blocks
    BY <2>1, ChainAssumption DEF Blocks
  <2> QED  BY <1>0, <1>3, <1>4, <2>2
<1>6. jCursor' \in Cursors /\ jCursor'.block = job[j].block - 1
  BY <1>0, <1>1, <1>5, CursorType
<1>7. JobWatcherTypeOK'
  BY <1>0, <1>1, <1>6, JobTypeFrom
<1>8. ASSUME NEW i \in Jobs, job[i].block # 0, Mine(i), job[i].block <= job[j].block - 1,
             job[i].block > jStart
      PROVE  i \in Over
  <2>1. CASE job[i].block <= jCursor.block
    BY <1>8, <2>1 DEF JobInv, NoJobSkipped, Over
  <2>2. CASE ~(job[i].block <= jCursor.block)
    <3>1. job[i].block \in jPass.lo..jPass.hi
      BY <1>0, <1>2, <1>4, <1>8, <2>2
    <3>2. i \in JobsIn(jPass.lo, jPass.hi)
      BY <1>8, <3>1 DEF JobsIn
    <3>3. i \notin jPass.todo
      <4>1. SUFFICES ASSUME i \in jPass.todo PROVE FALSE
        OBVIOUS
      <4>2. j <= i /\ i # j
        BY <1>0, <1>1, <1>8, <4>1
      <4>3. job[j].block <= job[i].block
        BY <1>0, <1>8, <4>2 DEF ChainSafe, JobSafe
      <4> QED  BY <1>0, <1>8, <4>3
    <3> QED  BY <1>1, <1>8, <3>2, <3>3 DEF ScanSafe
  <2> QED  BY <2>1, <2>2
<1>9. NoJobSkipped'
  <2>1. \A i \in Jobs : Mine(i)' <=> Mine(i)
    BY DEF Mine
  <2> QED  BY <1>6, <1>8, <2>1 DEF NoJobSkipped, Over
<1>10. faults' \in 0..MaxFaults
  BY <1>0, FaultsType
<1> QED  BY <1>0, <1>1, <1>5, <1>6, <1>7, <1>9, <1>10 DEF JobInv

(* Every event of a pass. *)
LEMMA JobPassSafe ==
  ASSUME ChainSafe, JobInv, JobPass
  PROVE  JobInv' /\ UNCHANGED <<head, req, job>> /\ faults' \in 0..MaxFaults
<1>0. /\ notActiveRetries \in Retries /\ started \subseteq Jobs
      /\ handed \subseteq Jobs /\ refused \subseteq Jobs
  BY JobFields DEF JobInv
<1>1. \A j \in Jobs : [notActiveRetries EXCEPT ![j] = 0] \in Retries
  BY <1>0, JobWatcherAssumption DEF Retries
<1>2. \A j \in Jobs : notActiveRetries[j] + 1 < SessionRetryLimit =>
        [notActiveRetries EXCEPT ![j] = @ + 1] \in Retries
  BY <1>0, JobWatcherAssumption DEF Retries
<1>3. CASE StartJobPass
  BY <1>3, StartJobSafe DEF StartJobPass, chainOf
<1>4. CASE EndChunk
  BY <1>4, EndChunkSafe DEF EndChunk, chainOf
<1>5. ASSUME NEW j \in Jobs, SkipForeign(j) PROVE JobInv' /\ UNCHANGED <<head, req, job>> /\ faults' \in 0..MaxFaults
  BY <1>0, <1>5, PastEventSafe DEF SkipForeign, chainOf
<1>6. ASSUME NEW j \in Jobs, AtCapacity(j) PROVE JobInv' /\ UNCHANGED <<head, req, job>> /\ faults' \in 0..MaxFaults
  BY <1>0, <1>6, StopAndRetrySafe DEF AtCapacity, chainOf
<1>7. ASSUME NEW j \in Jobs, ReadFails(j) PROVE JobInv' /\ UNCHANGED <<head, req, job>> /\ faults' \in 0..MaxFaults
  <2>1. notActiveRetries' \in Retries
    BY <1>0, <1>1, <1>7 DEF ReadFails
  <2> QED  BY <1>7, <2>1, StopAndRetrySafe DEF ReadFails, Taken, chainOf
<1>8. ASSUME NEW j \in Jobs, SessionNotActive(j) PROVE JobInv' /\ UNCHANGED <<head, req, job>> /\ faults' \in 0..MaxFaults
  <2>1. CASE notActiveRetries[j] + 1 < SessionRetryLimit
    <3>1. notActiveRetries' \in Retries
      BY <1>2, <1>8, <2>1 DEF SessionNotActive
    <3> QED  BY <1>8, <2>1, <3>1, StopAndRetrySafe DEF SessionNotActive, Taken, chainOf
  <2>2. CASE ~(notActiveRetries[j] + 1 < SessionRetryLimit)
    <3>1. notActiveRetries' \in Retries /\ refused' = refused \union {j}
      BY <1>1, <1>8, <2>2 DEF SessionNotActive
    <3>2. j \in Over' /\ refused' \subseteq Jobs
      BY <1>0, <3>1 DEF Over
    <3> QED  BY <1>0, <1>8, <2>2, <3>1, <3>2, PastEventSafe DEF SessionNotActive, Taken, chainOf
  <2> QED  BY <2>1, <2>2
<1>9. ASSUME NEW j \in Jobs, KeyUndecryptable(j) PROVE JobInv' /\ UNCHANGED <<head, req, job>> /\ faults' \in 0..MaxFaults
  <2>1. notActiveRetries' \in Retries /\ refused' = refused \union {j}
    BY <1>1, <1>9 DEF KeyUndecryptable
  <2>2. j \in Over' /\ refused' \subseteq Jobs
    BY <1>0, <2>1 DEF Over
  <2> QED  BY <1>0, <1>9, <2>1, <2>2, PastEventSafe DEF KeyUndecryptable, Taken, chainOf
<1>10. ASSUME NEW j \in Jobs, ServeJob(j) PROVE JobInv' /\ UNCHANGED <<head, req, job>> /\ faults' \in 0..MaxFaults
  <2>1. /\ notActiveRetries' \in Retries /\ handed' = handed \union {j}
        /\ started' = started \union {j}
    BY <1>1, <1>10 DEF ServeJob
  <2>2. j \in Over' /\ handed' \subseteq Jobs /\ started' \subseteq Jobs
    BY <1>0, <2>1 DEF Over
  <2> QED  BY <1>0, <1>10, <2>1, <2>2, PastEventSafe DEF ServeJob, Taken, chainOf
<1> QED  BY <1>3, <1>4, <1>5, <1>6, <1>7, <1>8, <1>9, <1>10 DEF JobPass

(* The goroutines of the jobs do not touch the scan. *)
LEMMA RunJobSafe ==
  ASSUME ChainSafe, JobInv, NEW j \in Jobs, BeginJob(j) \/ EndJob(j)
  PROVE  JobInv' /\ UNCHANGED <<head, req, job, faults>>
<1>0. /\ jCursor \in Cursors /\ notActiveRetries \in Retries /\ jPass \in JobPasses
      /\ started \subseteq Jobs /\ running \in [Jobs -> Nat]
      /\ handed \subseteq Jobs /\ refused \subseteq Jobs /\ jStart \in Blocks
  BY JobFields DEF JobInv
<1>1. UNCHANGED <<head, req, job, faults, jCursor, notActiveRetries, jPass, handed, refused, jStart>>
  BY DEF BeginJob, EndJob, chainOf
<1>2. started' \subseteq Jobs /\ running' \in [Jobs -> Nat]
  BY <1>0 DEF BeginJob, EndJob
<1>3. JobWatcherTypeOK'
  BY <1>0, <1>1, <1>2, JobTypeFrom
<1>4. ScanSafe' <=> ScanSafe
  BY <1>1 DEF ScanSafe, JobsIn, Mine, Over
<1>5. NoJobSkipped' <=> NoJobSkipped
  BY <1>1 DEF NoJobSkipped, Mine
<1> QED  BY <1>1, <1>3, <1>4, <1>5 DEF JobInv

(* A crash ends the passes and the goroutines; the cursors stay. *)
LEMMA CrashSafe ==
  ASSUME KeptInv, JobInv, Crash
  PROVE  KeptInv' /\ JobInv'
<1>0. /\ jCursor \in Cursors /\ sCursor \in Cursors /\ claimTried \subseteq Requests
      /\ handed \subseteq Jobs /\ refused \subseteq Jobs /\ jStart \in Blocks
      /\ NoJobPass \in JobPasses /\ NoJobPass.pc = "idle"
      /\ NoPass \in SessionPasses /\ NoPass.pc = "idle" /\ ChainTypeOK
  BY JobFields, SessionFields DEF JobInv, KeptInv, PassSafe, SessionWatcherTypeOK, ChainSafe
<1>1. /\ UNCHANGED <<head, req, job, floor, sCursor, claimTried, jCursor, handed, refused, jStart>>
      /\ pending' = {} /\ seeded' = FALSE /\ reseedTries' = 0 /\ sPass' = NoPass
      /\ notActiveRetries' = [j \in Jobs |-> 0] /\ jPass' = NoJobPass
      /\ started' = {} /\ running' = [j \in Jobs |-> 0]
  BY DEF Crash, SessionWatcherCrash, JobWatcherCrash
<1>2. faults' \in 0..MaxFaults
  BY <1>0, FaultsType DEF Crash, RpcFails
<1>3. ChainSafe'
  BY <1>1, <1>2, ChainMovesSafe DEF KeptInv
<1>4. notActiveRetries' \in Retries /\ running' \in [Jobs -> Nat] /\ started' \subseteq Jobs
  BY <1>1, JobWatcherAssumption DEF Retries
<1>5. JobWatcherTypeOK'
  BY <1>0, <1>1, <1>4, JobTypeFrom
<1>6. reseedTries' \in 0..ReseedMaxAttempts /\ reseedTries' < ReseedMaxAttempts
  BY <1>1, SessionWatcherAssumption
<1>7. SessionWatcherTypeOK'
  BY <1>0, <1>1, <1>6, SessionTypeFrom
<1>8. PassSafe'
  BY <1>0, <1>1, <1>6, <1>7 DEF KeptInv, PassSafe
<1>9. NoJobSkipped'
  BY <1>1 DEF JobInv, NoJobSkipped, Mine
<1> QED  BY <1>0, <1>1, <1>3, <1>5, <1>8, <1>9 DEF KeptInv, JobInv, RequestsKept

----------------------------------------------------------------------------
(* The two watchers together. *)

IntakeInv == KeptInv /\ JobInv

(* A new worker has nothing behind its cursors. *)
LEMMA IntakeStarts ==
  ASSUME Init
  PROVE  IntakeInv
<1>0. MaxHead \in Nat /\ ChunkSize \in Nat /\ 0 \in Blocks /\ Unset \in Cursors /\ Unset.block = 0
      /\ NoPass \in SessionPasses /\ NoPass.pc = "idle"
      /\ NoJobPass \in JobPasses /\ NoJobPass.pc = "idle"
  BY ChainAssumption, BlocksNat DEF Unset, Cursors, NoPass, SessionPasses, NoJobPass, JobPasses
<1>1. /\ head = 0 /\ faults = 0 /\ floor = 0
      /\ sCursor = Unset /\ pending = {} /\ claimTried = {} /\ seeded = FALSE /\ reseedTries = 0
      /\ sPass = NoPass /\ jCursor = Unset /\ notActiveRetries = [j \in Jobs |-> 0]
      /\ jPass = NoJobPass /\ started = {} /\ running = [j \in Jobs |-> 0]
      /\ handed = {} /\ refused = {} /\ jStart = 0
  BY DEF Init, ChainInit, SessionWatcherInit, JobWatcherInit
<1>2. /\ req \in [Requests -> [block : {0}, status : {"none"}, covered : {TRUE},
                               active : {FALSE}, ours : {TRUE}]]
      /\ job \in [Jobs -> [block : {0}, session : {CHOOSE r \in Requests : TRUE}]]
  BY DEF Init, ChainInit
<1>3. (CHOOSE r \in Requests : TRUE) \in Requests
  BY ChainAssumption
<1>4. req \in [Requests -> RequestRec] /\ job \in [Jobs -> JobRec]
  <2>1. \A r \in Requests : req[r] \in RequestRec
    BY <1>0, <1>2 DEF RequestRec, ReqStatus
  <2>2. \A j \in Jobs : job[j] \in JobRec
    BY <1>0, <1>2, <1>3 DEF JobRec
  <2> QED  BY <1>2, <2>1, <2>2
<1>5. \A r \in Requests : req[r].status = "none" /\ req[r].active = FALSE /\ req[r].block = 0
  BY <1>2
<1>6. \A j \in Jobs : job[j].block = 0
  BY <1>2
<1>7. ChainTypeOK
  <2>1. faults \in 0..MaxFaults /\ head \in Blocks
    BY <1>0, <1>1, ChainAssumption
  <2> QED  BY <1>4, <2>1, Zenon DEF ChainTypeOK, RequestRec, JobRec
<1>8. ChainSafe
  BY <1>5, <1>6, <1>7 DEF ChainSafe, RequestSafe, JobSafe
<1>9. SessionWatcherTypeOK
  <2>1. reseedTries \in 0..ReseedMaxAttempts
    BY <1>1, SessionWatcherAssumption
  <2>2. seeded \in BOOLEAN
    BY <1>1, Zenon
  <2> QED  BY <1>0, <1>1, <2>1, <2>2 DEF SessionWatcherTypeOK, Cursors, SessionPasses
<1>10. PassSafe
  BY <1>0, <1>1, <1>9, SessionWatcherAssumption DEF PassSafe
<1>11. JobWatcherTypeOK
  <2>1. notActiveRetries \in Retries /\ running \in [Jobs -> Nat]
    BY <1>1, JobWatcherAssumption DEF Retries
  <2> QED  BY <1>0, <1>1, <2>1 DEF JobWatcherTypeOK, Cursors, JobPasses, Retries
<1>12. NoJobSkipped
  BY <1>6 DEF NoJobSkipped
<1> QED  BY <1>0, <1>1, <1>8, <1>10, <1>11, <1>12 DEF IntakeInv, KeptInv, JobInv, RequestsKept

(* Every step keeps what the watchers may not lose. *)
LEMMA IntakeStep ==
  ASSUME IntakeInv, [Next]_vars
  PROVE  IntakeInv'
<1>0. ChainSafe /\ ChainTypeOK /\ PassSafe /\ KeptInv /\ JobInv /\ head \in Nat /\ floor \in Blocks
  BY ChainFields DEF IntakeInv, KeptInv, ChainSafe
<1>1. CASE RunSessionWatcher
  <2>1. SessionPass(Counter) /\ UNCHANGED jwVars
    BY <1>1 DEF RunSessionWatcher
  <2>2. /\ RequestsMove \/ UNCHANGED <<head, req, job>>
        /\ faults' \in 0..MaxFaults
    BY <1>0, <2>1, SessionPassChain
  <2>3. PassSafe'
    BY <1>0, <2>1, SessionPassSafe
  <2>4. ChainSafe'
    BY <1>0, <2>2, ChainMovesSafe DEF ChainMoves
  <2>5. floor' \in Blocks
    BY <1>0, <1>1, <2>3, FloorRises
  <2>6. RequestsKept'
    BY <1>0, <1>1, <2>1, <2>3, StartKept, ReseedKept, DiscoverKept, EvaluateKept DEF SessionPass
  <2>7. JobInv'
    BY <1>0, <2>1, <2>2, JobFrame DEF ChainMoves
  <2> QED  BY <2>3, <2>4, <2>5, <2>6, <2>7 DEF IntakeInv, KeptInv
<1>2. CASE UNCHANGED <<head, req, job, swVars, floor>> /\ faults' \in 0..MaxFaults /\ JobInv'
  <2>1. ChainSafe'
    BY <1>0, <1>2, ChainMovesSafe
  <2>2. PassSafe'
    BY <1>0, <1>2, PassSafeFrame
  <2>3. RequestsKept'
    BY <1>0, <1>2, ChainKept
  <2> QED  BY <1>0, <1>2, <2>1, <2>2, <2>3 DEF IntakeInv, KeptInv
<1>3. CASE RunJobWatcher
  BY <1>0, <1>2, <1>3, JobPassSafe DEF RunJobWatcher
<1>4. CASE RunJobs
  <2>1. JobInv' /\ UNCHANGED <<head, req, job, faults>>
    BY <1>0, <1>4, RunJobSafe DEF RunJobs
  <2>2. faults' \in 0..MaxFaults
    BY <1>0, <2>1, FaultsType
  <2> QED  BY <1>2, <1>4, <2>1, <2>2 DEF RunJobs
<1>5. CASE Chain
  <2>1. ChainMoves /\ UNCHANGED faults /\ UNCHANGED <<swVars, jwVars, floor>>
    BY <1>0, <1>5, ChainActions DEF Chain
  <2>2. faults' \in 0..MaxFaults
    BY <1>0, <2>1, FaultsType
  <2>3. ChainSafe'
    BY <1>0, <2>1, <2>2, ChainMovesSafe
  <2>4. head' = head \/ head' = head + 1
    BY <2>1 DEF ChainMoves, HeadMoves, RequestsMove, JobMoves
  <2>5. PassSafe'
    BY <1>0, <2>1, <2>4, PassSafeFrame
  <2>6. RequestsKept'
    BY <1>0, <2>1, ChainKept
  <2>7. JobInv'
    BY <1>0, <2>1, JobFrame
  <2> QED  BY <1>0, <2>1, <2>3, <2>5, <2>6, <2>7 DEF IntakeInv, KeptInv
<1>6. CASE Crash
  BY <1>0, <1>6, CrashSafe DEF IntakeInv
<1>7. CASE UNCHANGED vars
  <2>1. UNCHANGED <<head, req, job, faults, swVars, jwVars, floor>>
    BY <1>7 DEF vars
  <2>2. faults' \in 0..MaxFaults
    BY <1>0, <2>1, FaultsType
  <2>3. JobInv'
    BY <1>0, <2>1, JobFrame
  <2> QED  BY <1>2, <2>1, <2>2, <2>3
<1> QED  BY <1>1, <1>3, <1>4, <1>5, <1>6, <1>7 DEF Next

(* The invariant of both watchers holds in every behaviour. *)
LEMMA IntakeHolds == Spec => []IntakeInv
BY IntakeStarts, IntakeStep, PTL DEF Spec

(* The watchers, their cursors and what they see of the chain keep their   *)
(* types.                                                                  *)
THEOREM TypeCorrect == Spec => []TypeOK
<1>1. IntakeInv => TypeOK
  BY DEF IntakeInv, KeptInv, ChainSafe, PassSafe, JobInv, TypeOK
<1> QED  BY <1>1, IntakeHolds, PTL

(* JobWatcher.runOnce: however a pass ends, the cursor on disk has passed  *)
(* no job of this worker that was neither handed on nor given up on.       *)
THEOREM CursorPassesNoJob == Spec => []NoJobSkipped
<1>1. IntakeInv => NoJobSkipped
  BY DEF IntakeInv, JobInv
<1> QED  BY <1>1, IntakeHolds, PTL

(* SessionWatcher.reseed: a request that is open and behind the cursor is  *)
(* in the pending set, after any crash that the look-back reaches over.    *)
THEOREM OpenRequestsStay == Spec => []RequestsKept
<1>1. IntakeInv => RequestsKept
  BY DEF IntakeInv, KeptInv
<1> QED  BY <1>1, IntakeHolds, PTL
==============================================================================
