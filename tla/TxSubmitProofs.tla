--------------------------- MODULE TxSubmitProofs ---------------------------
(***************************************************************************)
(* The senders of the key keep to their lanes and to their nonces, for any *)
(* number of senders of either class and any faults.                       *)
(***************************************************************************)
EXTENDS TxSubmit, TLAPS, FiniteSetTheorems

----------------------------------------------------------------------------
(* Types. *)

(* TypeOK but for the history variable. *)
LaneTypeOK ==
  /\ PoolTypeOK /\ NonceTypeOK /\ CoordTypeOK /\ StuckTypeOK
  /\ snd \in [Senders -> SendRec]

(* NextNonce keeps the nonce manager's types. *)
LEMMA NextNonceType ==
  ASSUME NonceTypeOK, NEW n \in Nat, NEW P, NextNonce(n, P)
  PROVE  NonceTypeOK'
<1>1. pendingNonce' \in Nat /\ outstanding' \in Nat
  BY DEF NonceTypeOK, NextNonce
<1>2. initialized' \in BOOLEAN /\ resetPending' \in BOOLEAN
  BY Zenon DEF NonceTypeOK, NextNonce
<1> QED  BY <1>1, <1>2 DEF NonceTypeOK

(* So does applyPendingResetLocked. *)
LEMMA ApplyType ==
  ASSUME NonceTypeOK, NEW c \in Nat, NEW out \in Nat, NEW reset \in BOOLEAN,
         ApplyPendingReset(c, out, reset)
  PROVE  pendingNonce' \in Nat /\ initialized' \in BOOLEAN /\ resetPending' \in BOOLEAN
<1>1. CASE reset /\ out = 0
  BY <1>1, Zenon DEF ApplyPendingReset
<1>2. CASE ~(reset /\ out = 0)
  BY <1>2, Zenon DEF ApplyPendingReset, NonceTypeOK
<1> QED  BY <1>1, <1>2

(* So does ReleaseNonce. *)
LEMMA ReleaseType ==
  ASSUME NonceTypeOK, NEW n \in Nat, NEW used \in BOOLEAN, ReleaseNonce(n, used)
  PROVE  NonceTypeOK'
<1> DEFINE out == IF outstanding > 0 THEN outstanding - 1 ELSE 0
           top == initialized /\ pendingNonce > 0 /\ n = pendingNonce - 1
           c == IF ~used /\ top THEN n ELSE pendingNonce
           r == resetPending \/ (~used /\ ~top)
<1>1. out \in Nat /\ c \in Nat
  BY DEF NonceTypeOK
<1>2. r \in BOOLEAN
  BY Zenon DEF NonceTypeOK
<1>3. outstanding' = out /\ ApplyPendingReset(c, out, r)
  BY Zenon DEF ReleaseNonce
<1>4. pendingNonce' \in Nat /\ initialized' \in BOOLEAN /\ resetPending' \in BOOLEAN
  <2> HIDE DEF out, c, r
  <2> QED  BY <1>1, <1>2, <1>3, ApplyType, Zenon
<1> QED  BY <1>1, <1>3, <1>4 DEF NonceTypeOK

(* So does ResetNonce. *)
LEMMA ResetType ==
  ASSUME NonceTypeOK, ResetNonce
  PROVE  NonceTypeOK'
<1>1. pendingNonce' \in Nat /\ initialized' \in BOOLEAN /\ resetPending' \in BOOLEAN
  BY ApplyType, Zenon DEF ResetNonce, NonceTypeOK
<1> QED  BY <1>1 DEF NonceTypeOK, ResetNonce

(* The tracker's operations keep its types. *)
LEMMA StuckType ==
  ASSUME StuckTypeOK, NEW n \in Nat,
         Record(n) \/ Clear \/ IncrementBumpAttemptsFor(n)
  PROVE  StuckTypeOK'
<1>1. CASE Record(n)
  BY <1>1, StuckAssumption, NonceAssumption DEF Record, Count, StuckTypeOK
<1>2. CASE Clear
  BY <1>2, StuckAssumption, NonceAssumption DEF Clear, StuckTypeOK
<1>3. CASE IncrementBumpAttemptsFor(n)
  BY <1>3 DEF IncrementBumpAttemptsFor, BumpAttemptsUsedFor, StuckTypeOK
<1> QED  BY <1>1, <1>2, <1>3

(* Accepting a transaction keeps the pool's types. *)
LEMMA AcceptType ==
  ASSUME PoolTypeOK, NEW c \in Class, NEW n \in Nat, Accept(c, n)
  PROVE  PoolTypeOK'
BY DEF PoolTypeOK, Accept, Class

(* A sender is of one class and waits for the other. *)
LEMMA ClassOfType == \A s : ClassOf(s) \in Class /\ Other(ClassOf(s)) \in Class
BY DEF ClassOf, Class, Other

(* Edits of a sender's locals keep their types. *)
LEMMA EditType ==
  ASSUME NEW r \in SendRec, NEW p \in PC, NEW n \in Nat, NEW u \in BOOLEAN,
         NEW e \in {"nil", "nonce", "reserved", "reject", "ambiguous"},
         NEW f \in {"none", "pending", "mined", "gone"}
  PROVE  /\ [r EXCEPT !.pc = p] \in SendRec
         /\ [r EXCEPT !.pc = p, !.nonce = n] \in SendRec
         /\ [r EXCEPT !.pc = p, !.fresh = n] \in SendRec
         /\ [r EXCEPT !.pc = p, !.fate = f] \in SendRec
         /\ [r EXCEPT !.pc = p, !.used = u, !.fate = f] \in SendRec
         /\ [r EXCEPT !.pc = p, !.used = u, !.err = e] \in SendRec
         /\ [r EXCEPT !.pc = p, !.nonce = n, !.used = u, !.err = e] \in SendRec
BY Zenon DEF SendRec

(* So does a change of the transaction's fate by the node. *)
LEMMA FateType ==
  ASSUME NEW r \in SendRec, NEW f \in {"none", "pending", "mined", "gone"}
  PROVE  [r EXCEPT !.fate = f] \in SendRec
BY Zenon DEF SendRec

(* The type of the locals after a step of one sender. *)
LEMMA BecomesType ==
  ASSUME snd \in [Senders -> SendRec], NEW s \in Senders
  PROVE  /\ \A r \in SendRec : Becomes(s, r) => snd' \in [Senders -> SendRec]
         /\ \A p \in PC : Goto(s, p) => snd' \in [Senders -> SendRec]
<1>1. \A r \in SendRec : Becomes(s, r) => snd' \in [Senders -> SendRec]
  BY Zenon DEF Becomes
<1>2. ASSUME NEW p \in PC, Goto(s, p) PROVE snd' \in [Senders -> SendRec]
  <2>1. [snd[s] EXCEPT !.pc = p] \in SendRec
    BY EditType, Zenon
  <2>2. snd' = [snd EXCEPT ![s] = [snd[s] EXCEPT !.pc = p]]
    BY <1>2, Zenon DEF Goto
  <2> QED  BY <2>1, <2>2, Zenon
<1> QED  BY <1>1, <1>2

(* The places a sender may be at. *)
LEMMA PCType ==
  {"idle", "enter", "wait", "nonce", "build", "reseed", "fresh", "resend", "unsend",
   "handback", "reset", "replace", "release", "await", "abandon"} \subseteq PC
BY DEF PC

(* A sender that begins has no lease, no error and no transaction. *)
LEMMA IdleType == Idle \in SendRec /\ [Idle EXCEPT !.pc = "enter"] \in SendRec
BY DEF Idle, SendRec, PC

(* A new process starts with empty lanes, no lease and idle senders. *)
LEMMA InitType == Init => LaneTypeOK
<1> SUFFICES ASSUME Init PROVE LaneTypeOK
  OBVIOUS
<1>1. PoolTypeOK /\ CoordTypeOK
  BY DEF Init, PoolInit, PoolTypeOK, CoordInit, CoordTypeOK
<1>2. NonceTypeOK
  BY DEF Init, NonceInit, NonceTypeOK
<1>3. StuckTypeOK
  BY StuckAssumption, NonceAssumption DEF Init, StuckInit, StuckTypeOK
<1>4. snd \in [Senders -> SendRec]
  BY DEF Init, Idle, SendRec, PC
<1> QED  BY <1>1, <1>2, <1>3, <1>4 DEF LaneTypeOK

(* The slot: Enter and its wait, and the release. *)
LEMMA SlotType ==
  ASSUME LaneTypeOK, NEW s \in Senders,
         Start(s) \/ Enter(s) \/ Wake(s) \/ EnterCancelled(s) \/ Done(s)
  PROVE  LaneTypeOK'
<1>1. PoolTypeOK' /\ NonceTypeOK' /\ StuckTypeOK'
  BY DEF LaneTypeOK, PoolTypeOK, NonceTypeOK, StuckTypeOK, poolVars, nonceVars, stuckVars,
         Start, Enter, Wake, EnterCancelled, Done
<1>2. snd' \in [Senders -> SendRec]
  BY BecomesType, PCType, IdleType DEF LaneTypeOK, Start, Enter, Wake, EnterCancelled, Done
<1>3. CoordTypeOK'
  BY ClassOfType DEF LaneTypeOK, CoordTypeOK, coordVars, Tokens, Start, Enter, Wake, EnterCancelled,
         Done, Admit, Subscribe, Unsubscribe, ReleaseToken
<1> QED  BY <1>1, <1>2, <1>3 DEF LaneTypeOK

(* The lease and the failures that only move the sender on. *)
LEMMA LeaseType ==
  ASSUME LaneTypeOK, NEW s \in Senders,
         LeaseNonce(s) \/ FreshNonce(s) \/ NonceFails(s) \/ BuildFails(s) \/ FreshNonceFails(s)
         \/ ReplaceFails(s)
  PROVE  LaneTypeOK'
<1>1. PoolTypeOK' /\ CoordTypeOK' /\ StuckTypeOK'
  BY DEF LaneTypeOK, PoolTypeOK, CoordTypeOK, StuckTypeOK, poolVars, coordVars, stuckVars,
         LeaseNonce, FreshNonce, NonceFails, BuildFails, FreshNonceFails, ReplaceFails
<1>2. snd' \in [Senders -> SendRec]
  <2>1. 0..MaxNonce \subseteq Nat /\ snd[s] \in SendRec
    BY NonceAssumption DEF LaneTypeOK
  <2> QED
    BY <2>1, BecomesType, EditType, PCType DEF LaneTypeOK, LeaseNonce, FreshNonce, NonceFails,
           BuildFails, FreshNonceFails, ReplaceFails
<1>3. NonceTypeOK'
  <2>1. CASE LeaseNonce(s) \/ FreshNonce(s)
    <3>1. PICK n \in 0..MaxNonce : NextNonce(n, IsPendingNonce(n))
      BY <2>1 DEF LeaseNonce, FreshNonce
    <3> QED  BY <3>1, NextNonceType, NonceAssumption DEF LaneTypeOK
  <2>2. CASE NonceFails(s) \/ BuildFails(s) \/ FreshNonceFails(s) \/ ReplaceFails(s)
    BY <2>2 DEF LaneTypeOK, NonceTypeOK, nonceVars, NonceFails, BuildFails, FreshNonceFails, ReplaceFails
  <2> QED  BY <2>1, <2>2
<1> QED  BY <1>1, <1>2, <1>3 DEF LaneTypeOK

(* Sends, accepted or not. *)
LEMMA SendType ==
  ASSUME LaneTypeOK, NEW s \in Senders,
         SendAccepted(s) \/ SendFails(s) \/ ResendAccepted(s) \/ ResendFails(s)
  PROVE  LaneTypeOK'
<1>1. NonceTypeOK' /\ CoordTypeOK' /\ StuckTypeOK'
  BY DEF LaneTypeOK, NonceTypeOK, CoordTypeOK, StuckTypeOK, nonceVars, coordVars, stuckVars,
         SendAccepted, SendFails, ResendAccepted, ResendFails
<1>2. snd[s].nonce \in Nat /\ snd[s].fresh \in Nat
  BY DEF LaneTypeOK, SendRec
<1>3. \/ UNCHANGED poolVars
      \/ \E c \in Class, n \in Nat : Accept(c, n)
  BY <1>2, ClassOfType DEF SendAccepted, SendFails, ResendAccepted, ResendFails, Failed, Class
<1>4. PoolTypeOK'
  BY <1>3, AcceptType DEF LaneTypeOK, PoolTypeOK, poolVars
<1>5. snd' \in [Senders -> SendRec]
  <2>0. snd[s] \in SendRec
    BY DEF LaneTypeOK
  <2>1. CASE SendAccepted(s)
    BY <2>0, <2>1, BecomesType, EditType, PCType DEF LaneTypeOK, SendAccepted
  <2>2. CASE SendFails(s)
    <3>1. PICK e \in SendErrors(s, snd[s].nonce) :
            Becomes(s, [snd[s] EXCEPT
              !.pc = IF e = "ambiguous" THEN "release"
                     ELSE IF e # "reject" /\ s \in Legacy THEN "reseed" ELSE "reset",
              !.used = s \in Blob \/ e = "ambiguous",
              !.err = e])
      BY <2>2 DEF SendFails
    <3>2. e \in {"nil", "nonce", "reserved", "reject", "ambiguous"}
      BY DEF SendErrors, Verdict
    <3>3. (s \in Blob \/ e = "ambiguous") \in BOOLEAN
      OBVIOUS
    <3>4. (IF e = "ambiguous" THEN "release"
           ELSE IF e # "reject" /\ s \in Legacy THEN "reseed" ELSE "reset") \in PC
      BY DEF PC
    <3> QED  BY <2>0, <3>1, <3>2, <3>3, <3>4, BecomesType, EditType, Zenon DEF LaneTypeOK
  <2>3. CASE ResendAccepted(s) \/ ResendFails(s)
    BY <2>0, <2>3, BecomesType, EditType, PCType DEF LaneTypeOK, ResendAccepted, ResendFails
  <2> QED  BY <2>1, <2>2, <2>3
<1> QED  BY <1>1, <1>4, <1>5 DEF LaneTypeOK

(* Resets, hand-backs and releases of leases. *)
LEMMA ReturnType ==
  ASSUME LaneTypeOK, NEW s \in Senders,
         Reseed(s) \/ ReleaseFresh(s) \/ HandBack(s) \/ ResetAndRecord(s) \/ Release(s)
         \/ WaitFails(s)
  PROVE  LaneTypeOK'
<1>1. PoolTypeOK' /\ CoordTypeOK'
  BY DEF LaneTypeOK, PoolTypeOK, CoordTypeOK, poolVars, coordVars,
         Reseed, ReleaseFresh, HandBack, ResetAndRecord, Release, WaitFails
<1>2. snd[s].nonce \in Nat /\ snd[s].fresh \in Nat /\ snd[s].used \in BOOLEAN
  BY DEF LaneTypeOK, SendRec
<1>3. StuckTypeOK'
  <2>1. CASE ResetAndRecord(s) /\ snd[s].err = "reserved"
    BY <2>1, <1>2, StuckType DEF LaneTypeOK, ResetAndRecord
  <2>2. CASE UNCHANGED stuckVars
    BY <2>2 DEF LaneTypeOK, StuckTypeOK, stuckVars
  <2> QED  BY <2>1, <2>2 DEF Reseed, ReleaseFresh, HandBack, ResetAndRecord, Release, WaitFails
<1>4. NonceTypeOK'
  <2>1. CASE ResetNonce
    BY <2>1, ResetType DEF LaneTypeOK
  <2>2. CASE \E n \in Nat, used \in BOOLEAN : ReleaseNonce(n, used)
    BY <2>2, ReleaseType DEF LaneTypeOK
  <2> QED
    BY <2>1, <2>2, <1>2 DEF Reseed, ReleaseFresh, HandBack, ResetAndRecord, Release, WaitFails
<1>5. snd' \in [Senders -> SendRec]
  <2>1. snd[s] \in SendRec
    BY DEF LaneTypeOK
  <2>2. CASE HandBack(s)
    BY <1>2, <2>1, <2>2, BecomesType, EditType, PCType DEF LaneTypeOK, HandBack
  <2>3. CASE ~HandBack(s)
    BY <2>3, BecomesType, PCType DEF LaneTypeOK, Reseed, ReleaseFresh, ResetAndRecord, Release,
           WaitFails, AfterWait
  <2> QED  BY <2>2, <2>3
<1> QED  BY <1>1, <1>3, <1>4, <1>5 DEF LaneTypeOK

(* A replacement, and a receipt. *)
LEMMA ReceiptType ==
  ASSUME LaneTypeOK, NEW s \in Senders, Replace(s) \/ Mined(s)
  PROVE  LaneTypeOK'
<1>1. NonceTypeOK' /\ CoordTypeOK'
  BY DEF LaneTypeOK, NonceTypeOK, CoordTypeOK, nonceVars, coordVars, Replace, Mined
<1>2. snd[s].nonce \in Nat
  BY DEF LaneTypeOK, SendRec
<1>3. PoolTypeOK'
  <2>1. CASE UNCHANGED poolVars
    BY <2>1 DEF LaneTypeOK, PoolTypeOK, poolVars
  <2>2. CASE Accept("blob", snd[s].nonce)
    BY <2>2, <1>2, AcceptType DEF LaneTypeOK, Class
  <2> QED  BY <2>1, <2>2 DEF Replace, Mined
<1>4. StuckTypeOK'
  <2>1. CASE UNCHANGED stuckVars
    BY <2>1 DEF LaneTypeOK, StuckTypeOK, stuckVars
  <2> QED  BY <2>1, <1>2, StuckType DEF LaneTypeOK, Replace, Mined
<1>5. snd' \in [Senders -> SendRec]
  <2>1. CASE \E p \in PC : Goto(s, p)
    BY <2>1, BecomesType DEF LaneTypeOK
  <2>2. CASE snd' = [r \in Senders |->
                       IF r = s THEN [snd[s] EXCEPT !.pc = "release"]
                       ELSE IF Awaits(r, snd[s].nonce) THEN [snd[r] EXCEPT !.fate = "gone"]
                       ELSE snd[r]]
    <3>1. ASSUME NEW r \in Senders PROVE snd'[r] \in SendRec
      BY <2>2, EditType, FateType, PCType DEF LaneTypeOK
    <3> QED  BY <2>2, <3>1
  <2> QED  BY <2>1, <2>2, PCType DEF Replace, Mined, AfterWait
<1> QED  BY <1>1, <1>3, <1>4, <1>5 DEF LaneTypeOK

(* The node, the CLI, the janitor and a restart. *)
LEMMA WorldType ==
  ASSUME LaneTypeOK, Mine \/ PoolEvicts \/ CliSends \/ Janitor \/ Restart
  PROVE  LaneTypeOK'
<1>1. CASE Mine
  <2>1. PoolTypeOK'
    BY <1>1 DEF LaneTypeOK, PoolTypeOK, Mine, MineNext
  <2>2. ASSUME NEW s \in Senders PROVE snd'[s] \in SendRec
    BY <1>1, FateType DEF LaneTypeOK, Mine
  <2>3. snd' \in [Senders -> SendRec]
    BY <1>1, <2>2 DEF Mine
  <2> QED
    BY <1>1, <2>1, <2>3 DEF LaneTypeOK, Mine, NonceTypeOK, CoordTypeOK, StuckTypeOK,
           nonceVars, coordVars, stuckVars
<1>2. CASE PoolEvicts
  <2>1. PoolTypeOK'
    BY <1>2 DEF LaneTypeOK, PoolTypeOK, PoolEvicts, Evict
  <2>2. ASSUME NEW s \in Senders PROVE snd'[s] \in SendRec
    BY <1>2, FateType DEF LaneTypeOK, PoolEvicts
  <2>3. snd' \in [Senders -> SendRec]
    BY <1>2, <2>2 DEF PoolEvicts
  <2> QED
    BY <1>2, <2>1, <2>3 DEF LaneTypeOK, PoolEvicts, NonceTypeOK, CoordTypeOK, StuckTypeOK,
           nonceVars, coordVars, stuckVars
<1>3. CASE CliSends
  <2>1. PICK n \in 0..MaxNonce : Accept("legacy", n)
    BY <1>3 DEF CliSends
  <2>2. PoolTypeOK'
    BY <2>1, AcceptType, NonceAssumption DEF LaneTypeOK, Class
  <2> QED
    BY <1>3, <2>2 DEF LaneTypeOK, CliSends, NonceTypeOK, CoordTypeOK, StuckTypeOK,
           nonceVars, coordVars, stuckVars
<1>4. CASE Janitor
  <2>1. PICK T : ReapStale(T)
    BY <1>4 DEF Janitor
  <2>2. CoordTypeOK'
    BY <2>1 DEF LaneTypeOK, CoordTypeOK, ReapStale
  <2> QED
    BY <1>4, <2>2 DEF LaneTypeOK, Janitor, PoolTypeOK, NonceTypeOK, StuckTypeOK,
           poolVars, nonceVars, stuckVars
<1>5. CASE Restart
  <2>1. NonceTypeOK'
    BY <1>5 DEF Restart, NewNonceManager, NonceTypeOK
  <2>2. PICK gap \in Int : NewCoordinator(gap)
    BY <1>5, NonceAssumption DEF Restart, LaneTypeOK, PoolTypeOK
  <2>3. CoordTypeOK'
    BY <2>2 DEF NewCoordinator, CoordTypeOK, Tokens
  <2>4. StuckTypeOK'
    BY <1>5, StuckType DEF LaneTypeOK, Restart
  <2>5. snd' \in [Senders -> SendRec]
    BY <1>5 DEF Restart, Idle, SendRec, PC
  <2>6. PoolTypeOK'
    BY <1>5 DEF Restart, LaneTypeOK, PoolTypeOK, poolVars
  <2> QED  BY <2>1, <2>3, <2>4, <2>5, <2>6 DEF LaneTypeOK
<1> QED  BY <1>1, <1>2, <1>3, <1>4, <1>5

(* Every step keeps the types. *)
LEMMA TypeStep == LaneTypeOK /\ [Next]_vars => LaneTypeOK'
<1> SUFFICES ASSUME LaneTypeOK, [Next]_vars PROVE LaneTypeOK'
  OBVIOUS
<1>1. ASSUME NEW s \in Senders, Start(s) \/ Work(s) PROVE LaneTypeOK'
  BY <1>1, SlotType, LeaseType, SendType, ReturnType, ReceiptType DEF Work
<1>2. CASE Mine \/ PoolEvicts \/ CliSends \/ Janitor \/ Restart
  BY <1>2, WorldType
<1>3. CASE UNCHANGED vars
  BY <1>3 DEF LaneTypeOK, vars, PoolTypeOK, NonceTypeOK, CoordTypeOK, StuckTypeOK,
         poolVars, nonceVars, coordVars, stuckVars
<1> QED  BY <1>1, <1>2, <1>3 DEF Next

(* The lane has its types throughout. *)
LEMMA LaneTypes == Spec => []LaneTypeOK
BY InitType, TypeStep, PTL DEF Spec

HistoryTypeOK == disturbed \in BOOLEAN

(* A step keeps the history variable, or sets it. *)
LEMMA HistoryType == HistoryTypeOK /\ [Next]_vars => HistoryTypeOK'
<1> SUFFICES ASSUME disturbed \in BOOLEAN, [Next]_vars PROVE disturbed' \in BOOLEAN
  BY DEF HistoryTypeOK
<1>1. ASSUME NEW s \in Senders, Start(s) \/ Work(s) PROVE disturbed' \in BOOLEAN
  <2>1. CASE WaitFails(s)
    BY <2>1, Zenon DEF WaitFails
  <2>2. CASE SendFails(s) \/ ResendFails(s)
    BY <2>2, Zenon DEF SendFails, ResendFails, Failed
  <2>3. CASE Replace(s)
    BY <2>3, Zenon DEF Replace
  <2>4. CASE ~WaitFails(s) /\ ~SendFails(s) /\ ~ResendFails(s) /\ ~Replace(s)
    <3>1. disturbed' = disturbed
      BY <1>1, <2>4, Zenon DEF Start, Work, Enter, Wake, EnterCancelled, Done, LeaseNonce, NonceFails,
         BuildFails, SendAccepted, Reseed, FreshNonce, FreshNonceFails, ResendAccepted, ReleaseFresh,
         HandBack, ResetAndRecord, ReplaceFails, Release, Mined
    <3> QED  BY <3>1
  <2> QED  BY <2>1, <2>2, <2>3, <2>4
<1>2. CASE Mine \/ PoolEvicts \/ CliSends \/ Restart
  BY <1>2, Zenon DEF Mine, PoolEvicts, CliSends, Restart
<1>3. CASE Janitor
  BY <1>3, Zenon DEF Janitor
<1>4. CASE UNCHANGED vars
  BY <1>4 DEF vars
<1> QED  BY <1>1, <1>2, <1>3, <1>4 DEF Next

(* Every variable of the submission lane keeps its type: leases, counters, *)
(* tokens, refusals and the senders' local state.                          *)
THEOREM TypeCorrect == Spec => []TypeOK
<1>1. Init => HistoryTypeOK
  BY DEF Init, HistoryTypeOK
<1>2. LaneTypeOK /\ HistoryTypeOK => TypeOK
  BY DEF LaneTypeOK, HistoryTypeOK, TypeOK
<1> QED  BY <1>1, <1>2, LaneTypes, HistoryType, PTL DEF Spec

----------------------------------------------------------------------------
(* Lanes. *)

LaneInv == ClassExclusion /\ NoLostWakeup

(* A step of one sender leaves the others where they are, with the leases  *)
(* they have.                                                              *)
LEMMA OthersStay ==
  ASSUME LaneTypeOK, NEW s \in Senders, Start(s) \/ Work(s),
         NEW t \in Senders, t # s
  PROVE  snd'[t].pc = snd[t].pc /\ snd'[t].nonce = snd[t].nonce /\ snd'[t].fresh = snd[t].fresh
<1>1. CASE Replace(s)
  BY <1>1 DEF LaneTypeOK, SendRec, Replace, Goto
<1>2. CASE \E p : Goto(s, p)
  BY <1>2 DEF LaneTypeOK, Goto
<1>3. CASE \E r : Becomes(s, r)
  BY <1>3 DEF LaneTypeOK, Becomes
<1>4. Replace(s) \/ (\E p : Goto(s, p)) \/ (\E r : Becomes(s, r))
  BY Zenon DEF Start, Work, Enter, Wake, EnterCancelled, Done, LeaseNonce, NonceFails, BuildFails,
     SendAccepted, SendFails, Reseed, FreshNonce, FreshNonceFails, ResendAccepted, ResendFails,
     ReleaseFresh, HandBack, ResetAndRecord, ReplaceFails, Release, Mined, WaitFails
<1> QED  BY <1>1, <1>2, <1>3, <1>4

(* Enter admits a sender to an empty road only. *)
LEMMA EnterLane ==
  ASSUME LaneTypeOK, LaneInv, NEW s \in Senders, Enter(s)
  PROVE  LaneInv'
<1>1. \A t \in Senders : t # s => snd'[t].pc = snd[t].pc
  BY OthersStay DEF Work
<1>2. s \notin subscribed
  BY DEF LaneInv, NoLostWakeup, Enter, At
<1>3. CASE Admit(s) /\ Goto(s, "nonce")
  <2>1. ClassExclusion'
    BY <1>3, SendersAssumption
    DEF LaneInv, ClassExclusion, Admit, LaneTypeOK, CoordTypeOK, Class, ClassOf, Other
  <2>2. NoLostWakeup'
    BY <1>1, <1>2, <1>3
    DEF LaneInv, NoLostWakeup, Admit, LaneTypeOK, CoordTypeOK, Class, ClassOf, Other, At
  <2> QED  BY <2>1, <2>2 DEF LaneInv
<1>4. CASE Subscribe(s) /\ Goto(s, "wait")
  <2>1. snd'[s].pc = "wait"
    BY <1>4 DEF Goto, LaneTypeOK, SendRec
  <2>2. NoLostWakeup'
    BY <1>1, <1>4, <2>1
    DEF LaneInv, NoLostWakeup, Subscribe, LaneTypeOK, CoordTypeOK, At
  <2> QED  BY <1>4, <2>2 DEF LaneInv, ClassExclusion, Subscribe
<1> QED  BY <1>3, <1>4 DEF Enter

(* release wakes the waiters when, and only when, it empties its class. *)
LEMMA DoneLane ==
  ASSUME LaneTypeOK, LaneInv, NEW s \in Senders, Done(s)
  PROVE  LaneInv'
<1>1. \A t \in Senders : t # s => snd'[t].pc = snd[t].pc
  BY OthersStay DEF Work
<1>2. s \notin subscribed
  BY DEF LaneInv, NoLostWakeup, Done, At
<1>3. ReleaseToken(s)
  BY DEF Done
<1>4. ClassExclusion'
  BY <1>3 DEF LaneInv, ClassExclusion, ReleaseToken, LaneTypeOK, CoordTypeOK, Class, ClassOf
<1>5. NoLostWakeup'
  BY <1>1, <1>2, <1>3
  DEF LaneInv, NoLostWakeup, ReleaseToken, LaneTypeOK, CoordTypeOK, Class, ClassOf, Other, At
<1> QED  BY <1>4, <1>5 DEF LaneInv

(* reapStale too. *)
LEMMA JanitorLane ==
  ASSUME LaneTypeOK, LaneInv, Janitor
  PROVE  LaneInv'
<1>1. PICK T : ReapStale(T)
  BY DEF Janitor
<1>2. ClassExclusion'
  BY <1>1 DEF LaneInv, ClassExclusion, ReapStale, LaneTypeOK, CoordTypeOK, Class
<1>3. ASSUME NEW t \in subscribed' PROVE At(t, "wait")' /\ inflight'[Other(ClassOf(t))] # {}
  <2>1. t \in subscribed /\ ~\E c \in Class : T \intersect inflight[c] # {} /\ inflight'[c] = {}
    BY <1>1, <1>3 DEF ReapStale
  <2>2. At(t, "wait")' /\ inflight[Other(ClassOf(t))] # {}
    BY <2>1 DEF LaneInv, NoLostWakeup, Janitor, At
  <2> DEFINE c == Other(ClassOf(t))
  <2>3. c \in Class /\ inflight'[c] = inflight[c] \ T
    BY <1>1, ClassOfType DEF ReapStale
  <2>4. CASE T \intersect inflight[c] = {}
    BY <2>2, <2>3, <2>4
  <2>5. CASE T \intersect inflight[c] # {}
    BY <2>1, <2>2, <2>3, <2>5
  <2> QED  BY <2>4, <2>5
<1> QED  BY <1>2, <1>3 DEF LaneInv, NoLostWakeup

(* Every step keeps the lanes apart and wakes who can go on. *)
LEMMA LaneStep == LaneTypeOK /\ LaneInv /\ [Next]_vars => LaneInv'
<1> SUFFICES ASSUME LaneTypeOK, LaneInv, [Next]_vars PROVE LaneInv'
  OBVIOUS
<1>0. ASSUME UNCHANGED coordVars, \A t \in subscribed : snd'[t].pc = "wait" PROVE LaneInv'
  BY <1>0 DEF LaneInv, ClassExclusion, NoLostWakeup, coordVars, At
<1>1. ASSUME NEW s \in Senders, Start(s) \/ Work(s) PROVE LaneInv'
  <2>1. \A t \in Senders : t # s => snd'[t].pc = snd[t].pc
    BY <1>1, OthersStay
  <2>2. subscribed \subseteq Senders /\ \A t \in subscribed : snd[t].pc = "wait"
    BY DEF LaneInv, NoLostWakeup, At, LaneTypeOK, CoordTypeOK
  <2>3. CASE Enter(s) \/ Done(s)
    BY <2>3, EnterLane, DoneLane
  <2>4. CASE EnterCancelled(s)
    BY <2>1, <2>4
    DEF LaneInv, ClassExclusion, NoLostWakeup, EnterCancelled, Unsubscribe, LaneTypeOK, CoordTypeOK, At
  <2>5. CASE Wake(s)
    BY <2>1, <2>2, <2>5, <1>0 DEF Wake
  <2>6. CASE ~(Enter(s) \/ Done(s) \/ EnterCancelled(s) \/ Wake(s))
    <3>1. UNCHANGED coordVars /\ snd[s].pc # "wait"
      BY <1>1, <2>6 DEF Start, Work, LeaseNonce, NonceFails, BuildFails, SendAccepted, SendFails,
         Reseed, FreshNonce, FreshNonceFails, ResendAccepted, ResendFails, ReleaseFresh, HandBack,
         ResetAndRecord, Replace, ReplaceFails, Release, Mined, WaitFails, At
    <3> QED  BY <2>1, <2>2, <3>1, <1>0
  <2> QED  BY <2>3, <2>4, <2>5, <2>6
<1>2. CASE Mine \/ PoolEvicts \/ CliSends \/ UNCHANGED vars
  <2>1. UNCHANGED coordVars
    BY <1>2 DEF Mine, PoolEvicts, CliSends, vars
  <2>2. \A t \in Senders : snd'[t].pc = snd[t].pc
    BY <1>2 DEF LaneTypeOK, SendRec, Mine, PoolEvicts, CliSends, vars
  <2> QED  BY <1>0, <2>1, <2>2 DEF LaneInv, NoLostWakeup, At, LaneTypeOK, CoordTypeOK
<1>3. CASE Janitor
  BY <1>3, JanitorLane
<1>4. CASE Restart
  BY <1>4 DEF Restart, NewCoordinator, LaneInv, ClassExclusion, NoLostWakeup, Class
<1> QED  BY <1>1, <1>2, <1>3, <1>4 DEF Next

(* SubpoolCoordinator keeps its promise for any number of senders: tokens  *)
(* of the two classes are never in flight together, and no waiter is left  *)
(* on a channel nobody closes, whatever Enter, Done, the janitor, Seed and *)
(* cancelled contexts do in between.                                       *)
THEOREM LanesHold == Spec => [](ClassExclusion /\ NoLostWakeup)
<1>1. Init => LaneInv
  BY DEF Init, CoordInit, LaneInv, ClassExclusion, NoLostWakeup, Class
<1>2. Spec => []LaneInv
  BY <1>1, LaneStep, LaneTypes, PTL DEF Spec
<1> QED  BY <1>2, PTL DEF LaneInv

(* Enter's waiters: whoever sleeps on the current channel waits for a      *)
(* token that is still there, and whose release or eviction closes it.     *)
THEOREM WaitersAreWoken == Spec => []NoLostWakeup
BY LanesHold, PTL

----------------------------------------------------------------------------
(* Leases. *)

(* The manager counts the leases, and while there is one its counter is    *)
(* valid and above all of them.  That is what makes the hand-back of the   *)
(* highest nonce, and a new lease, safe: without it LeasesDistinct is not  *)
(* inductive.                                                              *)
LeaseInv ==
  /\ outstanding = Cardinality(Held) + Cardinality(Fresh)
  /\ Held # {} => initialized
  /\ \A s \in Held : snd[s].nonce < pendingNonce
  /\ \A s \in Fresh : snd[s].fresh < pendingNonce
  /\ LeasesDistinct

(* Leases can be counted, and a sender that resends has two. *)
LEMMA LeaseSets ==
  /\ Fresh \subseteq Held
  /\ IsFiniteSet(Held) /\ IsFiniteSet(Fresh)
  /\ Cardinality(Held) \in Nat /\ Cardinality(Fresh) \in Nat
<1>1. Fresh \subseteq Held /\ Held \subseteq Senders
  BY DEF Held, Fresh
<1>2. IsFiniteSet(Held) /\ IsFiniteSet(Fresh)
  BY <1>1, SendersAssumption, FS_Subset
<1> QED  BY <1>1, <1>2, FS_CardinalityType

(* The count is zero when there is no lease, and only then. *)
LEMMA NoLease ==
  ASSUME Cardinality(Held) + Cardinality(Fresh) = 0
  PROVE  Held = {} /\ Fresh = {}
<1>1. Cardinality(Held) = 0 /\ Cardinality(Fresh) = 0
  BY LeaseSets
<1> QED  BY <1>1, LeaseSets, FS_EmptySet

(* A step that gives or takes no lease, ResetNonce included. *)
LEMMA LeaseSame ==
  ASSUME LaneTypeOK, LeaseInv, Held' = Held, Fresh' = Fresh,
         \A s \in Held : snd'[s].nonce = snd[s].nonce,
         \A s \in Fresh : snd'[s].fresh = snd[s].fresh,
         UNCHANGED nonceVars \/ ResetNonce
  PROVE  LeaseInv'
<1>1. LeasesDistinct'
  BY DEF LeaseInv, LeasesDistinct
<1>2. outstanding' = outstanding
  BY DEF nonceVars, ResetNonce
<1>3. CASE outstanding = 0
  BY <1>1, <1>2, <1>3, NoLease DEF LeaseInv
<1>4. CASE outstanding # 0
  <2>1. pendingNonce' = pendingNonce /\ initialized' = initialized
    BY <1>4 DEF nonceVars, ResetNonce, ApplyPendingReset
  <2> QED  BY <1>1, <1>2, <2>1 DEF LeaseInv
<1> QED  BY <1>3, <1>4

(* NextNonce hands out a nonce above every lease. *)
LEMMA NewLease ==
  ASSUME LaneTypeOK, LeaseInv, NEW n \in Nat, NEW P, NextNonce(n, P)
  PROVE  /\ outstanding' = outstanding + 1 /\ initialized' /\ pendingNonce' = n + 1
         /\ \A s \in Held : snd[s].nonce < n
         /\ \A s \in Fresh : snd[s].fresh < n
<1>1. outstanding' = outstanding + 1 /\ initialized' /\ pendingNonce' = n + 1
  BY DEF NextNonce
<1>2. CASE initialized
  BY <1>1, <1>2 DEF LeaseInv, NextNonce
<1>3. CASE ~initialized
  BY <1>1, <1>3, LeaseSets DEF LeaseInv
<1> QED  BY <1>1, <1>2, <1>3

(* ReleaseNonce leaves the counter above every other lease. *)
LEMMA LeaseReturned ==
  ASSUME LaneTypeOK, LeaseInv, Held # {}, NEW n \in Nat, n < pendingNonce,
         NEW used \in BOOLEAN, ReleaseNonce(n, used)
  PROVE  /\ outstanding' = outstanding - 1
         /\ outstanding' # 0 =>
              /\ initialized'
              /\ \A m \in Nat : m < pendingNonce /\ m # n => m < pendingNonce'
<1>1. initialized /\ outstanding \in Nat /\ outstanding # 0 /\ pendingNonce \in Nat
  BY NoLease DEF LeaseInv, LaneTypeOK, NonceTypeOK
<1>2. outstanding' = outstanding - 1
  BY <1>1 DEF ReleaseNonce
<1>3. ASSUME outstanding' # 0
      PROVE  initialized' = initialized /\ pendingNonce' \in {pendingNonce, n}
             /\ (pendingNonce' # pendingNonce => n = pendingNonce - 1)
  BY <1>1, <1>2, <1>3 DEF ReleaseNonce, ApplyPendingReset
<1>4. ASSUME outstanding' # 0 PROVE initialized'
  BY <1>1, <1>3, <1>4, Zenon
<1>5. ASSUME outstanding' # 0, NEW m \in Nat, m < pendingNonce, m # n PROVE m < pendingNonce'
  BY <1>1, <1>3, <1>5
<1> QED  BY <1>2, <1>4, <1>5

(* The first lease of a sender. *)
LEMMA LeaseNonceLeases ==
  ASSUME LaneTypeOK, LeaseInv, NEW s \in Senders, LeaseNonce(s)
  PROVE  LeaseInv'
<1>1. PICK n \in 0..MaxNonce :
        NextNonce(n, IsPendingNonce(n)) /\ Becomes(s, [snd[s] EXCEPT !.pc = "build", !.nonce = n])
  BY DEF LeaseNonce
<1>2. n \in Nat
  BY NonceAssumption
<1>3. /\ snd'[s].pc = "build" /\ snd'[s].nonce = n
      /\ \A t \in Senders : t # s => snd'[t] = snd[t]
  BY <1>1 DEF Becomes, LaneTypeOK, SendRec
<1>4. s \notin Held /\ s \notin Fresh
  BY DEF Held, Fresh, LeaseNonce, At
<1>5. Held' = Held \union {s} /\ Fresh' = Fresh
  BY <1>3, <1>4 DEF Held, Fresh
<1>6. Cardinality(Held') = Cardinality(Held) + 1
  BY <1>4, <1>5, LeaseSets, FS_AddElement
<1>7. Held \subseteq Senders /\ Fresh \subseteq Senders
  BY DEF Held, Fresh
<1>8. \A t \in Senders : snd[t].nonce \in Nat /\ snd[t].fresh \in Nat
  BY DEF LaneTypeOK, SendRec
<1> QED
  BY <1>1, <1>2, <1>3, <1>4, <1>5, <1>6, <1>7, <1>8, NewLease, LeaseSets
  DEF LeaseInv, LeasesDistinct

(* The second lease, of resendWithFreshNonce. *)
LEMMA FreshNonceLeases ==
  ASSUME LaneTypeOK, LeaseInv, NEW s \in Senders, FreshNonce(s)
  PROVE  LeaseInv'
<1>1. PICK n \in 0..MaxNonce :
        NextNonce(n, IsPendingNonce(n)) /\ Becomes(s, [snd[s] EXCEPT !.pc = "resend", !.fresh = n])
  BY DEF FreshNonce
<1>2. n \in Nat
  BY NonceAssumption
<1>3. /\ snd'[s].pc = "resend" /\ snd'[s].fresh = n /\ snd'[s].nonce = snd[s].nonce
      /\ \A t \in Senders : t # s => snd'[t] = snd[t]
  BY <1>1 DEF Becomes, LaneTypeOK, SendRec
<1>4. s \in Held /\ s \notin Fresh
  BY DEF Held, Fresh, FreshNonce, At
<1>5. Held' = Held /\ Fresh' = Fresh \union {s}
  BY <1>3, <1>4 DEF Held, Fresh
<1>6. Cardinality(Fresh') = Cardinality(Fresh) + 1
  BY <1>4, <1>5, LeaseSets, FS_AddElement
<1>7. Held \subseteq Senders /\ Fresh \subseteq Senders
  BY DEF Held, Fresh
<1>8. \A t \in Senders : snd[t].nonce \in Nat /\ snd[t].fresh \in Nat
  BY DEF LaneTypeOK, SendRec
<1> QED
  BY <1>1, <1>2, <1>3, <1>4, <1>5, <1>6, <1>7, <1>8, NewLease, LeaseSets
  DEF LeaseInv, LeasesDistinct

(* The deferred ReleaseNonce. *)
LEMMA ReleaseLeases ==
  ASSUME LaneTypeOK, LeaseInv, NEW s \in Senders, Release(s)
  PROVE  LeaseInv'
<1>1. /\ snd[s].nonce \in Nat /\ snd[s].used \in BOOLEAN
      /\ \A t \in Senders : snd[t].nonce \in Nat /\ snd[t].fresh \in Nat
  BY DEF LaneTypeOK, SendRec
<1>2. /\ snd'[s].pc \in {"abandon", "await"} /\ (snd'[s].pc = "await" => s \in Legacy)
      /\ \A t \in Senders : t # s => snd'[t] = snd[t]
  BY DEF Release, Goto, LaneTypeOK, SendRec
<1>3. s \in Held /\ s \notin Fresh /\ Held \subseteq Senders /\ Fresh \subseteq Senders
  BY DEF Held, Fresh, Release, At
<1>4. Held' = Held \ {s} /\ Fresh' = Fresh
  BY <1>2, <1>3, SendersAssumption DEF Held, Fresh, Senders
<1>5. Cardinality(Held') = Cardinality(Held) - 1
  BY <1>3, <1>4, LeaseSets, FS_RemoveElement
<1>6. /\ outstanding' = outstanding - 1
      /\ outstanding' # 0 =>
           /\ initialized'
           /\ \A m \in Nat : m < pendingNonce /\ m # snd[s].nonce => m < pendingNonce'
  BY <1>1, <1>3, LeaseReturned DEF LeaseInv, Release
<1>7. outstanding' = Cardinality(Held') + Cardinality(Fresh')
  BY <1>4, <1>5, <1>6, LeaseSets DEF LeaseInv
<1>8. LeasesDistinct'
  BY <1>2, <1>3, <1>4 DEF LeaseInv, LeasesDistinct
<1>9. CASE outstanding' = 0
  <2>1. Held' = {} /\ Fresh' = {}
    <3>1. IsFiniteSet(Held \ {s}) /\ Cardinality(Held \ {s}) \in Nat
      BY LeaseSets, FS_RemoveElement, FS_CardinalityType
    <3>2. Cardinality(Held \ {s}) = 0 /\ Cardinality(Fresh) = 0
      BY <1>4, <1>7, <1>9, <3>1, LeaseSets
    <3> QED  BY <1>4, <3>1, <3>2, LeaseSets, FS_EmptySet
  <2> QED  BY <1>7, <1>8, <2>1 DEF LeaseInv
<1>10. CASE outstanding' # 0
  BY <1>1, <1>2, <1>3, <1>4, <1>6, <1>7, <1>8, <1>10 DEF LeaseInv, LeasesDistinct
<1> QED  BY <1>9, <1>10

(* The resend failed: its lease goes back. *)
LEMMA ReleaseFreshLeases ==
  ASSUME LaneTypeOK, LeaseInv, NEW s \in Senders, ReleaseFresh(s)
  PROVE  LeaseInv'
<1>1. /\ snd[s].fresh \in Nat
      /\ \A t \in Senders : snd[t].nonce \in Nat /\ snd[t].fresh \in Nat
  BY DEF LaneTypeOK, SendRec
<1>2. /\ snd'[s].pc = "reset" /\ snd'[s].nonce = snd[s].nonce
      /\ \A t \in Senders : t # s => snd'[t] = snd[t]
  BY DEF ReleaseFresh, Goto, LaneTypeOK, SendRec
<1>3. s \in Held /\ s \in Fresh /\ Held \subseteq Senders /\ Fresh \subseteq Senders
  BY DEF Held, Fresh, ReleaseFresh, At
<1>4. Held' = Held /\ Fresh' = Fresh \ {s}
  BY <1>2, <1>3 DEF Held, Fresh
<1>5. Cardinality(Fresh') = Cardinality(Fresh) - 1
  BY <1>3, <1>4, LeaseSets, FS_RemoveElement
<1>6. /\ outstanding' = outstanding - 1
      /\ outstanding' # 0 =>
           /\ initialized'
           /\ \A m \in Nat : m < pendingNonce /\ m # snd[s].fresh => m < pendingNonce'
  BY <1>1, <1>3, LeaseReturned DEF LeaseInv, ReleaseFresh
<1>7. outstanding' = Cardinality(Held') + Cardinality(Fresh')
  BY <1>4, <1>5, <1>6, LeaseSets DEF LeaseInv
<1>8. LeasesDistinct'
  BY <1>2, <1>3, <1>4 DEF LeaseInv, LeasesDistinct
<1>9. outstanding' # 0
  <2>1. Cardinality(Held) # 0
    BY <1>3, LeaseSets, FS_EmptySet
  <2> QED  BY <1>4, <1>5, <1>7, <2>1, <1>3, LeaseSets, FS_EmptySet
<1> QED  BY <1>1, <1>2, <1>3, <1>4, <1>6, <1>7, <1>8, <1>9 DEF LeaseInv, LeasesDistinct

(* The resend was accepted: the stale nonce goes back, the fresh one is    *)
(* the sender's.                                                           *)
LEMMA HandBackLeases ==
  ASSUME LaneTypeOK, LeaseInv, NEW s \in Senders, HandBack(s)
  PROVE  LeaseInv'
<1>1. /\ snd[s].nonce \in Nat
      /\ \A t \in Senders : snd[t].nonce \in Nat /\ snd[t].fresh \in Nat
  BY DEF LaneTypeOK, SendRec
<1>2. /\ snd'[s].pc = "release" /\ snd'[s].nonce = snd[s].fresh
      /\ \A t \in Senders : t # s => snd'[t] = snd[t]
  BY DEF HandBack, Becomes, LaneTypeOK, SendRec
<1>3. s \in Held /\ s \in Fresh /\ Held \subseteq Senders /\ Fresh \subseteq Senders
  BY DEF Held, Fresh, HandBack, At
<1>4. Held' = Held /\ Fresh' = Fresh \ {s}
  BY <1>2, <1>3 DEF Held, Fresh
<1>5. Cardinality(Fresh') = Cardinality(Fresh) - 1
  BY <1>3, <1>4, LeaseSets, FS_RemoveElement
<1>6. /\ outstanding' = outstanding - 1
      /\ outstanding' # 0 =>
           /\ initialized'
           /\ \A m \in Nat : m < pendingNonce /\ m # snd[s].nonce => m < pendingNonce'
  BY <1>1, <1>3, LeaseReturned DEF LeaseInv, HandBack
<1>7. outstanding' = Cardinality(Held') + Cardinality(Fresh')
  BY <1>4, <1>5, <1>6, LeaseSets DEF LeaseInv
<1>8. LeasesDistinct'
  BY <1>2, <1>3, <1>4 DEF LeaseInv, LeasesDistinct
<1>9. outstanding' # 0
  <2>1. Cardinality(Held) # 0
    BY <1>3, LeaseSets, FS_EmptySet
  <2> QED  BY <1>4, <1>5, <1>7, <2>1, <1>3, LeaseSets, FS_EmptySet
<1> QED  BY <1>1, <1>2, <1>3, <1>4, <1>6, <1>7, <1>8, <1>9 DEF LeaseInv, LeasesDistinct

(* All other steps of a sender. *)
LEMMA QuietSteps ==
  ASSUME LaneTypeOK, NEW s \in Senders, Start(s) \/ Work(s),
         ~(LeaseNonce(s) \/ FreshNonce(s) \/ Release(s) \/ ReleaseFresh(s) \/ HandBack(s))
  PROVE  /\ Held' = Held /\ Fresh' = Fresh
         /\ \A t \in Held : snd'[t].nonce = snd[t].nonce
         /\ \A t \in Fresh : snd'[t].fresh = snd[t].fresh
         /\ UNCHANGED nonceVars \/ ResetNonce
<1>1. \A t \in Senders : t # s =>
        snd'[t].pc = snd[t].pc /\ snd'[t].nonce = snd[t].nonce /\ snd'[t].fresh = snd[t].fresh
  BY OthersStay
<1>2. /\ s \in Held' <=> s \in Held
      /\ s \in Fresh' <=> s \in Fresh
      /\ s \in Held => snd'[s].nonce = snd[s].nonce
      /\ s \in Fresh => snd'[s].fresh = snd[s].fresh
  <2> USE SendersAssumption
      DEF LaneTypeOK, SendRec, Held, Fresh, At, Goto, Becomes
  <2>1. CASE Start(s) \/ Enter(s) \/ Wake(s) \/ EnterCancelled(s) \/ Done(s) \/ NonceFails(s)
    BY <2>1 DEF Start, Enter, Wake, EnterCancelled, Done, NonceFails, Idle
  <2>2. CASE BuildFails(s) \/ Reseed(s) \/ FreshNonceFails(s) \/ ReplaceFails(s)
    BY <2>2 DEF BuildFails, Reseed, FreshNonceFails, ReplaceFails
  <2>3. CASE SendAccepted(s)
    <3>1. CASE s \in Blob
      BY <2>3, <3>1 DEF SendAccepted
    <3>2. CASE s \notin Blob
      BY <2>3, <3>2 DEF SendAccepted
    <3> QED  BY <3>1, <3>2
  <2>4. CASE SendFails(s)
    BY <2>4 DEF SendFails
  <2>5. CASE ResetAndRecord(s) \/ Replace(s)
    BY <2>5 DEF ResetAndRecord, Replace
  <2>6. CASE Mined(s) \/ WaitFails(s)
    BY <2>6 DEF Mined, WaitFails, AfterWait, Senders
  <2>7. CASE ResendAccepted(s)
    BY <2>7 DEF ResendAccepted
  <2>8. CASE ResendFails(s)
    BY <2>8 DEF ResendFails
  <2> QED  BY <2>1, <2>2, <2>3, <2>4, <2>5, <2>6, <2>7, <2>8 DEF Work
<1>3. Held' = Held /\ Fresh' = Fresh
  BY <1>1, <1>2 DEF Held, Fresh
<1>4. UNCHANGED nonceVars \/ ResetNonce
  BY DEF Start, Work, Enter, Wake, EnterCancelled, Done, NonceFails, BuildFails, SendAccepted,
     SendFails, Reseed, FreshNonceFails, ResendAccepted, ResendFails, ResetAndRecord, Replace,
     ReplaceFails, Mined, WaitFails
<1>5. Held \subseteq Senders /\ Fresh \subseteq Senders
  BY DEF Held, Fresh
<1> QED  BY <1>1, <1>2, <1>3, <1>4, <1>5

(* Every step keeps the leases counted, covered and distinct. *)
LEMMA LeaseStep == LaneTypeOK /\ LeaseInv /\ [Next]_vars => LeaseInv'
<1> SUFFICES ASSUME LaneTypeOK, LeaseInv, [Next]_vars PROVE LeaseInv'
  OBVIOUS
<1>1. ASSUME NEW s \in Senders, Start(s) \/ Work(s) PROVE LeaseInv'
  BY <1>1, LeaseNonceLeases, FreshNonceLeases, ReleaseLeases, ReleaseFreshLeases, HandBackLeases,
     QuietSteps, LeaseSame
<1>2. CASE Mine \/ PoolEvicts \/ CliSends \/ Janitor \/ UNCHANGED vars
  <2>1. \A t \in Senders :
          snd'[t].pc = snd[t].pc /\ snd'[t].nonce = snd[t].nonce /\ snd'[t].fresh = snd[t].fresh
    BY <1>2 DEF LaneTypeOK, SendRec, Mine, PoolEvicts, CliSends, Janitor, vars
  <2>2. Held' = Held /\ Fresh' = Fresh /\ Held \subseteq Senders /\ Fresh \subseteq Senders
    BY <2>1 DEF Held, Fresh
  <2>3. UNCHANGED nonceVars
    BY <1>2 DEF Mine, PoolEvicts, CliSends, Janitor, vars
  <2> QED  BY <2>1, <2>2, <2>3, LeaseSame
<1>3. CASE Restart
  <2>1. Held' = {} /\ Fresh' = {}
    BY <1>3 DEF Restart, Idle, Held, Fresh
  <2>2. outstanding' = 0
    BY <1>3 DEF Restart, NewNonceManager
  <2> QED  BY <2>1, <2>2, FS_EmptySet DEF LeaseInv, LeasesDistinct
<1> QED  BY <1>1, <1>2, <1>3 DEF Next

(* The leases are counted, covered and distinct in every behaviour. *)
LEMMA LeasesHold == Spec => []LeaseInv
<1>1. Init => LeaseInv
  <2> SUFFICES ASSUME Init PROVE LeaseInv
    OBVIOUS
  <2>1. Held = {} /\ Fresh = {}
    BY DEF Init, Idle, Held, Fresh
  <2> QED  BY <2>1, FS_EmptySet DEF Init, NonceInit, LeaseInv, LeasesDistinct
<1> QED  BY <1>1, LeaseStep, LaneTypes, PTL DEF Spec

(* No two transactions of the process are built on the same nonce, for any *)
(* number of senders: resets wait for the leases, a handed-back nonce is   *)
(* the highest, and a resend's two leases count as two.                    *)
THEOREM NoSharedNonce == Spec => []LeasesDistinct
<1>1. LeaseInv => LeasesDistinct
  BY DEF LeaseInv
<1> QED  BY <1>1, LeasesHold, PTL

----------------------------------------------------------------------------
(* Replacements. *)

(* Who has decided on a replacement still has an attempt left for its      *)
(* nonce: the nonce is its lease, so no other sender counts for it.        *)
BumpInv ==
  /\ BumpBudget
  /\ \A s \in Senders : snd[s].pc = "replace" => BumpAttemptsUsedFor(snd[s].nonce) < MaxBumps

(* The counted attempt. *)
LEMMA ReplaceBumps ==
  ASSUME LaneTypeOK, LeaseInv, BumpInv, NEW s \in Senders, Replace(s)
  PROVE  BumpInv'
<1>1. \A t \in Senders : t # s => snd'[t].pc = snd[t].pc /\ snd'[t].nonce = snd[t].nonce
  BY OthersStay DEF Work
<1>2. snd[s].pc = "replace" /\ IncrementBumpAttemptsFor(snd[s].nonce)
  BY DEF Replace, At
<1>3. snd'[s].pc = "release"
  BY DEF Replace, Goto, LaneTypeOK, SendRec
<1>4. /\ bumpAttempts \in Nat /\ MaxBumps \in Nat
      /\ BumpAttemptsUsedFor(snd[s].nonce) < MaxBumps /\ BumpAttemptsUsedFor(snd[s].nonce) \in Nat
  BY <1>2, StuckAssumption DEF LaneTypeOK, StuckTypeOK, BumpInv, BumpAttemptsUsedFor
<1>5. bumpAttempts' <= MaxBumps
  BY <1>2, <1>4 DEF IncrementBumpAttemptsFor
<1>6. ASSUME NEW t \in Senders, snd'[t].pc = "replace"
      PROVE  BumpAttemptsUsedFor(snd[t].nonce)' < MaxBumps
  <2>1. t # s /\ snd[t].pc = "replace" /\ snd'[t].nonce = snd[t].nonce
    BY <1>1, <1>3, <1>6
  <2>2. snd[t].nonce # snd[s].nonce
    BY <1>2, <2>1 DEF LeaseInv, LeasesDistinct, Held
  <2>3. snd'[t].nonce \notin bumped'
    BY <1>2, <2>1, <2>2 DEF IncrementBumpAttemptsFor
  <2> QED  BY <1>4, <2>3 DEF BumpAttemptsUsedFor
<1> QED  BY <1>5, <1>6 DEF BumpInv, BumpBudget

(* Clear gives every nonce its attempts back. *)
LEMMA ClearBumps ==
  ASSUME LaneTypeOK, BumpInv, Clear,
         \A t \in Senders : snd'[t].pc = "replace" => \E r \in Senders : snd[r].pc = "replace"
  PROVE  BumpInv'
<1>1. bumpAttempts' = 0 /\ bumped' = {} /\ MaxBumps \in Nat /\ bumpAttempts \in Nat
  BY StuckAssumption DEF Clear, LaneTypeOK, StuckTypeOK
<1>2. ASSUME NEW t \in Senders, snd'[t].pc = "replace" PROVE BumpAttemptsUsedFor(snd[t].nonce)' < MaxBumps
  <2>1. PICK r \in Senders : snd[r].pc = "replace"
    BY <1>2
  <2>2. MaxBumps # 0
    BY <1>1, <2>1 DEF BumpInv, BumpAttemptsUsedFor
  <2> QED  BY <1>1, <2>2 DEF BumpAttemptsUsedFor
<1> QED  BY <1>1, <1>2 DEF BumpInv, BumpBudget

(* Every step keeps the budget. *)
LEMMA BumpStep == LaneTypeOK /\ LeaseInv /\ BumpInv /\ [Next]_vars => BumpInv'
<1> SUFFICES ASSUME LaneTypeOK, LeaseInv, BumpInv, [Next]_vars PROVE BumpInv'
  OBVIOUS
<1>0. ASSUME UNCHANGED <<bumped, bumpAttempts>>,
             \A t \in Senders : snd'[t].pc = "replace" =>
               BumpAttemptsUsedFor(snd'[t].nonce) < MaxBumps
      PROVE  BumpInv'
  BY <1>0 DEF BumpInv, BumpBudget, BumpAttemptsUsedFor
<1>1. ASSUME NEW s \in Senders, Start(s) \/ Work(s) PROVE BumpInv'
  <2>1. \A t \in Senders : t # s => snd'[t].pc = snd[t].pc /\ snd'[t].nonce = snd[t].nonce
    BY <1>1, OthersStay
  <2>2. CASE Replace(s)
    BY <2>2, ReplaceBumps
  <2>3. CASE ResetAndRecord(s)
    <3>1. UNCHANGED <<bumped, bumpAttempts>>
      BY <2>3 DEF ResetAndRecord, Record, stuckVars
    <3>2. snd'[s].nonce = snd[s].nonce
      BY <2>3 DEF ResetAndRecord, Goto, LaneTypeOK, SendRec
    <3>3. snd'[s].pc = "replace" => BumpAttemptsUsedFor(snd[s].nonce) < MaxBumps
      BY <2>3 DEF ResetAndRecord, Goto, Replaces, LaneTypeOK, SendRec
    <3> QED  BY <1>0, <2>1, <3>1, <3>2, <3>3 DEF BumpInv
  <2>4. CASE ~Replace(s) /\ ~ResetAndRecord(s)
    <3>1. snd'[s].pc # "replace"
      <4> USE DEF LaneTypeOK, SendRec, Goto, Becomes
      <4>1. CASE Start(s) \/ Enter(s) \/ Wake(s) \/ EnterCancelled(s) \/ Done(s) \/ NonceFails(s)
        BY <4>1 DEF Start, Enter, Wake, EnterCancelled, Done, NonceFails, Idle
      <4>2. CASE BuildFails(s) \/ Reseed(s) \/ FreshNonceFails(s) \/ ReplaceFails(s)
        BY <4>2 DEF BuildFails, Reseed, FreshNonceFails, ReplaceFails
      <4>3. CASE LeaseNonce(s) \/ FreshNonce(s)
        BY <4>3 DEF LeaseNonce, FreshNonce
      <4>4. CASE SendAccepted(s)
        BY <4>4 DEF SendAccepted
      <4>5. CASE SendFails(s)
        BY <4>5 DEF SendFails
      <4>6. CASE ResendAccepted(s) \/ ResendFails(s)
        BY <4>6 DEF ResendAccepted, ResendFails
      <4>7. CASE ReleaseFresh(s)
        BY <4>7 DEF ReleaseFresh
      <4>9. CASE HandBack(s)
        BY <4>9 DEF HandBack
      <4>10. CASE Release(s)
        BY <4>10 DEF Release
      <4>8. CASE Mined(s) \/ WaitFails(s)
        BY <4>8 DEF Mined, WaitFails, AfterWait
      <4> QED  BY <1>1, <2>4, <4>1, <4>2, <4>3, <4>4, <4>5, <4>6, <4>7, <4>8, <4>9, <4>10 DEF Work
    <3>2. UNCHANGED stuckVars \/ Clear
      BY <1>1, <2>4 DEF Start, Work, Enter, Wake, EnterCancelled, Done, LeaseNonce, NonceFails,
         BuildFails, SendAccepted, SendFails, Reseed, FreshNonce, FreshNonceFails, ResendAccepted,
         ResendFails, ReleaseFresh, HandBack, ReplaceFails, Release, Mined, WaitFails
    <3>3. CASE UNCHANGED stuckVars
      BY <1>0, <2>1, <3>1, <3>3 DEF BumpInv, stuckVars
    <3>4. CASE Clear
      BY <2>1, <3>1, <3>4, ClearBumps
    <3> QED  BY <3>2, <3>3, <3>4
  <2> QED  BY <2>2, <2>3, <2>4
<1>2. CASE Mine \/ PoolEvicts \/ CliSends \/ Janitor \/ UNCHANGED vars
  <2>1. \A t \in Senders : snd'[t].pc = snd[t].pc /\ snd'[t].nonce = snd[t].nonce
    BY <1>2 DEF LaneTypeOK, SendRec, Mine, PoolEvicts, CliSends, Janitor, vars
  <2>2. UNCHANGED stuckVars
    BY <1>2 DEF Mine, PoolEvicts, CliSends, Janitor, vars
  <2> QED  BY <1>0, <2>1, <2>2 DEF BumpInv, stuckVars
<1>3. CASE Restart
  <2>1. Clear /\ \A t \in Senders : snd'[t].pc # "replace"
    BY <1>3 DEF Restart, Idle
  <2> QED  BY <2>1, ClearBumps
<1> QED  BY <1>1, <1>2, <1>3 DEF Next

(* maybeSubmitReplacementBlobTx: the count of replacements never passes    *)
(* its limit, although it is read before, and raised after, steps of other *)
(* senders: the nonce it is for is leased to the one that counts.          *)
THEOREM ReplacementsBounded == Spec => []BumpBudget
<1>1. Init => BumpInv
  BY StuckAssumption DEF Init, StuckInit, Idle, BumpInv, BumpBudget
<1>2. BumpInv => BumpBudget
  BY DEF BumpInv
<1> QED  BY <1>1, <1>2, BumpStep, LaneTypes, LeasesHold, PTL DEF Spec

----------------------------------------------------------------------------
(* Holes. *)

(* Every answer of the node comes back, and it drops no transaction: a     *)
(* lost answer or an eviction leaves a hole that no code of the worker     *)
(* learns of before the transaction behind it fails.                       *)
AnswersKnown == Faults \intersect {"ambiguous", "evict"} = {}

Known(n) == n < latest \/ n \in InPool

(* A lease that will be returned as used is of a nonce that is known to    *)
(* the node, or the counter is going to be read again.                     *)
LeaseKnown(s) ==
  /\ snd[s].pc \in {"enter", "wait", "nonce", "build"} => ~snd[s].used
  /\ s \in Held /\ snd[s].pc \in {"release", "await"} /\ snd[s].used => resetPending \/ Known(snd[s].nonce)
  /\ snd[s].pc = "handback" => Known(snd[s].fresh)
  /\ snd[s].pc = "replace" => resetPending

HoleInv == HolesKnown /\ \A s \in Senders : LeaseKnown(s)

(* What the node knows it does not forget. *)
LEMMA KnownStays ==
  ASSUME AnswersKnown, LaneTypeOK, [Next]_vars
  PROVE  /\ latest \in Nat /\ latest' \in Nat /\ latest <= latest'
         /\ \A n \in Nat : Known(n) => n < latest' \/ n \in InPool'
<1>0. latest \in Nat /\ pool \in [Class -> SUBSET Nat]
  BY DEF LaneTypeOK, PoolTypeOK
<1>1. UNCHANGED poolVars \/ MineNext \/ \E c \in Class : \E m : Accept(c, m)
  <2>1. ASSUME NEW s \in Senders, Start(s) \/ Work(s)
        PROVE  UNCHANGED poolVars \/ \E c \in Class : \E m : Accept(c, m)
    <3>1. CASE SendAccepted(s) \/ SendFails(s)
      BY <3>1, ClassOfType DEF SendAccepted, SendFails, Failed
    <3>2. CASE ResendAccepted(s) \/ ResendFails(s)
      BY <3>2, ClassOfType DEF ResendAccepted, ResendFails, Failed, Class
    <3>3. CASE Replace(s)
      BY <3>3 DEF Replace, Class
    <3>4. CASE ~(SendAccepted(s) \/ SendFails(s) \/ ResendAccepted(s) \/ ResendFails(s) \/ Replace(s))
      BY <2>1, <3>4 DEF Start, Work, Enter, Wake, EnterCancelled, Done, LeaseNonce, NonceFails,
         BuildFails, Reseed, FreshNonce, FreshNonceFails, ReleaseFresh, HandBack, ResetAndRecord,
         ReplaceFails, Release, Mined, WaitFails
    <3> QED  BY <3>1, <3>2, <3>3, <3>4
  <2>2. CASE Mine \/ CliSends \/ Janitor \/ Restart \/ UNCHANGED vars
    BY <2>2 DEF Mine, CliSends, Janitor, Restart, vars, Class
  <2>3. ~PoolEvicts
    BY DEF PoolEvicts, AnswersKnown
  <2> QED  BY <2>1, <2>2, <2>3 DEF Next
<1>2. CASE UNCHANGED poolVars
  BY <1>0, <1>2 DEF poolVars, Known, InPool
<1>3. CASE MineNext
  BY <1>0, <1>3 DEF MineNext, Known, InPool, Class
<1>4. ASSUME NEW c \in Class, NEW m, Accept(c, m)
      PROVE  /\ latest' = latest
             /\ \A n \in Nat : Known(n) => n < latest' \/ n \in InPool'
  BY <1>0, <1>4 DEF Accept, Known, InPool, Class
<1> QED  BY <1>0, <1>1, <1>2, <1>3, <1>4

(* A due reset stays due while there is a lease. *)
LEMMA ResetStays ==
  ASSUME LaneTypeOK, LeaseInv, LeaseInv', [Next]_vars, resetPending, Held' # {}
  PROVE  resetPending' \/ Restart
<1>1. outstanding' # 0
  <2>1. SUFFICES ASSUME outstanding' = 0 PROVE FALSE
    OBVIOUS
  <2>2. Held \subseteq Senders /\ Held' \subseteq Senders /\ Fresh' \subseteq Senders
    BY DEF Held, Fresh
  <2>3. IsFiniteSet(Held') /\ IsFiniteSet(Fresh')
    BY <2>2, SendersAssumption, FS_Subset
  <2>4. Cardinality(Held') \in Nat /\ Cardinality(Fresh') \in Nat
    BY <2>3, FS_CardinalityType
  <2>5. Cardinality(Held') = 0
    BY <2>1, <2>4 DEF LeaseInv
  <2> QED  BY <2>3, <2>5, FS_EmptySet
<1>2. outstanding \in Nat
  BY DEF LaneTypeOK, NonceTypeOK
<1>3. ASSUME NEW n, NEW u, ReleaseNonce(n, u) PROVE resetPending'
  BY <1>1, <1>2, <1>3 DEF ReleaseNonce, ApplyPendingReset
<1>4. ASSUME NEW n, NEW P, NextNonce(n, P) PROVE resetPending'
  BY <1>4 DEF NextNonce
<1>5. ASSUME ResetNonce PROVE resetPending'
  BY <1>1, <1>5 DEF ResetNonce, ApplyPendingReset
<1>6. ASSUME UNCHANGED nonceVars PROVE resetPending'
  BY <1>6 DEF nonceVars
<1>7. ASSUME NEW s \in Senders, Start(s) \/ Work(s) PROVE resetPending'
  <2>1. CASE LeaseNonce(s) \/ FreshNonce(s)
    BY <1>4, <2>1 DEF LeaseNonce, FreshNonce
  <2>2. CASE Release(s) \/ ReleaseFresh(s) \/ HandBack(s)
    BY <1>3, <2>2 DEF Release, ReleaseFresh, HandBack
  <2>3. CASE ~(LeaseNonce(s) \/ FreshNonce(s) \/ Release(s) \/ ReleaseFresh(s) \/ HandBack(s))
    <3>1. UNCHANGED nonceVars \/ ResetNonce
      BY <1>7, <2>3, QuietSteps
    <3> QED  BY <1>5, <1>6, <3>1
  <2> QED  BY <2>1, <2>2, <2>3
<1>8. CASE Mine \/ PoolEvicts \/ CliSends \/ Janitor \/ UNCHANGED vars
  BY <1>6, <1>8 DEF Mine, PoolEvicts, CliSends, Janitor, vars
<1> QED  BY <1>7, <1>8 DEF Next

(* A reset with a lease out is due, not done. *)
LEMMA ResetDue ==
  ASSUME LaneTypeOK, LeaseInv, Held # {}, ResetNonce
  PROVE  resetPending'
<1>1. outstanding # 0
  BY NoLease DEF LeaseInv
<1> QED  BY <1>1 DEF ResetNonce, ApplyPendingReset

(* A sender that has done nothing keeps what is known of its leases. *)
LEMMA LeaseKnownStays ==
  ASSUME AnswersKnown, LaneTypeOK, LeaseInv, LeaseInv', [Next]_vars, ~Restart, NEW t \in Senders, LeaseKnown(t),
         snd'[t].pc = snd[t].pc, snd'[t].nonce = snd[t].nonce, snd'[t].fresh = snd[t].fresh,
         snd'[t].used = snd[t].used
  PROVE  LeaseKnown(t)'
<1>1. snd[t].nonce \in Nat /\ snd[t].fresh \in Nat
  BY DEF LaneTypeOK, SendRec
<1>2. t \in Held' <=> t \in Held
  BY DEF Held
<1>3. t \in Held /\ resetPending => resetPending'
  BY <1>2, ResetStays
<1>4. snd[t].pc = "replace" => t \in Held
  BY DEF Held
<1>5. \A n \in Nat : Known(n) => n < latest' \/ n \in InPool'
  BY KnownStays
<1>6. Known(snd[t].nonce) => Known(snd[t].nonce)'
  BY <1>1, <1>5 DEF Known
<1>7. Known(snd[t].fresh) => Known(snd[t].fresh)'
  BY <1>1, <1>5 DEF Known
<1> QED  BY <1>2, <1>3, <1>4, <1>6, <1>7 DEF LeaseKnown

(* A sender's own step, by what it knows then. *)
LEMMA OwnLeaseKnown ==
  ASSUME AnswersKnown, LaneTypeOK, LeaseInv, LeaseInv', [Next]_vars, NEW s \in Senders, LeaseKnown(s),
         Start(s) \/ Work(s)
  PROVE  LeaseKnown(s)'
<1>0. snd[s].nonce \in Nat /\ snd[s].fresh \in Nat /\ snd[s] \in SendRec /\ snd \in [Senders -> SendRec]
      /\ pool \in [Class -> SUBSET Nat] /\ ClassOf(s) \in Class /\ "legacy" \in Class
  BY ClassOfType DEF LaneTypeOK, SendRec, PoolTypeOK, Class
<1>1. \A n \in Nat : Known(n) => n < latest' \/ n \in InPool'
  BY KnownStays
<1>2. ASSUME NEW c \in Class, NEW n, Accept(c, n) PROVE n \in InPool'
  BY <1>0, <1>2 DEF Accept, InPool, Class
<1>3. CASE Start(s) \/ EnterCancelled(s) \/ Done(s)
  BY <1>0, <1>3 DEF Start, EnterCancelled, Done, Becomes, Idle, LeaseKnown
<1>4. CASE Enter(s) \/ Wake(s) \/ NonceFails(s) \/ BuildFails(s)
  BY <1>0, <1>4 DEF Enter, Wake, NonceFails, BuildFails, At, Goto, SendRec, LeaseKnown
<1>5. CASE LeaseNonce(s)
  <2>1. snd'[s].pc = "build" /\ snd'[s].used = snd[s].used /\ snd[s].pc = "nonce"
    BY <1>0, <1>5 DEF LeaseNonce, At, Becomes, SendRec
  <2> QED  BY <2>1 DEF LeaseKnown
<1>5a. CASE FreshNonce(s)
  <2>1. snd'[s].pc = "resend"
    BY <1>0, <1>5a DEF FreshNonce, Becomes, SendRec
  <2> QED  BY <2>1 DEF LeaseKnown
<1>6. CASE Reseed(s) \/ FreshNonceFails(s) \/ ResendFails(s) \/ ReleaseFresh(s)
  <2>1. snd'[s].pc \in {"fresh", "reset", "unsend"}
    BY <1>0, <1>6 DEF Reseed, FreshNonceFails, ResendFails, ReleaseFresh, Goto, SendRec
  <2> QED  BY <2>1 DEF LeaseKnown
<1>7. CASE SendAccepted(s)
  <2>1. snd'[s].pc \in {"await", "release"} /\ snd'[s].nonce = snd[s].nonce
    BY <1>0, <1>7 DEF SendAccepted, Becomes, SendRec
  <2>2. snd[s].nonce \in InPool'
    BY <1>0, <1>2, <1>7 DEF SendAccepted
  <2> QED  BY <2>1, <2>2 DEF LeaseKnown, Known
<1>8. CASE SendFails(s)
  <2>1. PICK e \in SendErrors(s, snd[s].nonce) :
          Becomes(s, [snd[s] EXCEPT
            !.pc = IF e = "ambiguous" THEN "release"
                   ELSE IF e # "reject" /\ s \in Legacy THEN "reseed" ELSE "reset",
            !.used = s \in Blob \/ e = "ambiguous",
            !.err = e])
    BY <1>8 DEF SendFails
  <2>2. CASE e = "ambiguous"
    <3>1. snd'[s].pc = "release" /\ snd'[s].nonce = snd[s].nonce
      BY <1>0, <2>1, <2>2 DEF Becomes, SendRec
    <3>2. Verdict(ClassOf(s), snd[s].nonce) = "ambiguous"
      BY <2>2 DEF SendErrors, AnswersKnown
    <3>3. snd[s].nonce \in pool[ClassOf(s)]
      BY <3>2 DEF Verdict
    <3>4. Known(snd[s].nonce)
      BY <1>0, <3>3 DEF Known, InPool, Class
    <3> QED  BY <1>0, <1>1, <3>1, <3>4 DEF LeaseKnown, Known
  <2>3. CASE e # "ambiguous"
    <3>1. snd'[s].pc \in {"reseed", "reset"}
      BY <1>0, <2>1, <2>3 DEF Becomes, SendRec
    <3> QED  BY <3>1 DEF LeaseKnown
  <2> QED  BY <2>2, <2>3
<1>9. CASE ResendAccepted(s)
  <2>1. snd'[s].pc = "handback" /\ snd'[s].fresh = snd[s].fresh
    BY <1>0, <1>9 DEF ResendAccepted, Becomes, SendRec
  <2>2. snd[s].fresh \in InPool'
    BY <1>0, <1>2, <1>9 DEF ResendAccepted
  <2> QED  BY <2>1, <2>2 DEF LeaseKnown, Known
<1>10. CASE HandBack(s)
  <2>1. snd'[s].pc = "release" /\ snd'[s].nonce = snd[s].fresh /\ snd[s].pc = "handback"
    BY <1>0, <1>10 DEF HandBack, At, Becomes, SendRec
  <2> QED  BY <1>0, <1>1, <2>1 DEF LeaseKnown, Known
<1>11. CASE ResetAndRecord(s)
  <2>1. s \in Held
    BY <1>11 DEF ResetAndRecord, At, Held
  <2>2. resetPending'
    BY <1>11, <2>1, ResetDue DEF ResetAndRecord
  <2>3. snd'[s].pc \in {"replace", "release"}
    BY <1>0, <1>11 DEF ResetAndRecord, Goto, SendRec
  <2> QED  BY <2>2, <2>3 DEF LeaseKnown
<1>12. CASE Replace(s) \/ ReplaceFails(s)
  <2>1. snd'[s].pc = "release"
    BY <1>0, <1>12 DEF Replace, ReplaceFails, Goto, SendRec
  <2>2. resetPending'
    BY <1>12 DEF Replace, ReplaceFails, At, LeaseKnown, nonceVars
  <2> QED  BY <2>1, <2>2 DEF LeaseKnown
<1>13. CASE Release(s)
  <2>1. snd'[s].pc = "abandon" \/ (snd'[s].pc = "await" /\ s \in Legacy)
    BY <1>0, <1>13 DEF Release, Goto, SendRec
  <2>2. snd'[s].pc = "await" => s \notin Held'
    BY <2>1, SendersAssumption DEF Held
  <2> QED  BY <2>1, <2>2 DEF LeaseKnown
<1>14. CASE Mined(s)
  <2>1. /\ snd[s].pc = "await" /\ snd'[s].nonce = snd[s].nonce /\ snd'[s].used = snd[s].used
        /\ snd'[s].pc = IF s \in Legacy THEN "abandon" ELSE "release"
    BY <1>0, <1>14 DEF Mined, At, AfterWait, Goto, SendRec
  <2>2. s \notin Legacy => s \in Held
    BY <2>1 DEF Held, Senders
  <2>3. resetPending' = resetPending
    BY <1>14 DEF Mined, nonceVars
  <2> QED  BY <1>0, <1>1, <2>1, <2>2, <2>3 DEF LeaseKnown, Known
<1>15. CASE WaitFails(s)
  <2>1. /\ snd[s].pc = "await"
        /\ snd'[s].pc = IF s \in Legacy THEN "abandon" ELSE "release"
    BY <1>0, <1>15 DEF WaitFails, At, AfterWait, Goto, SendRec
  <2>2. s \notin Legacy => s \in Held
    BY <2>1 DEF Held, Senders
  <2>3. s \notin Legacy => resetPending'
    BY <1>15, <2>2, ResetDue DEF WaitFails
  <2> QED  BY <2>1, <2>3 DEF LeaseKnown
<1> QED
  BY <1>3, <1>4, <1>5, <1>5a, <1>6, <1>7, <1>8, <1>9, <1>10, <1>11, <1>12, <1>13, <1>14, <1>15 DEF Work

(* What ReleaseNonce leaves when it leaves the counter valid: an unused    *)
(* nonce was the highest and is above the counter then.                    *)
LEMMA ReleaseOutcome ==
  ASSUME LaneTypeOK, NEW n \in Nat, NEW used \in BOOLEAN, ReleaseNonce(n, used), initialized', ~resetPending'
  PROVE  /\ initialized /\ ~resetPending /\ pendingNonce \in Nat /\ pendingNonce' \in Nat
         /\ pendingNonce' <= pendingNonce
         /\ ~used => \A m \in Nat : m < pendingNonce' => m # n
<1>0. pendingNonce \in Nat /\ outstanding \in Nat /\ initialized \in BOOLEAN /\ resetPending \in BOOLEAN
  BY DEF LaneTypeOK, NonceTypeOK
<1> DEFINE top == initialized /\ pendingNonce > 0 /\ n = pendingNonce - 1
           c == IF ~used /\ top THEN n ELSE pendingNonce
           reset == resetPending \/ (~used /\ ~top)
<1>1. \/ initialized' = FALSE
      \/ pendingNonce' = c /\ resetPending' = reset /\ initialized' = initialized
  BY DEF ReleaseNonce, ApplyPendingReset
<1>2. pendingNonce' = c /\ resetPending' = reset /\ initialized' = initialized
  BY <1>1
<1>3. ~reset /\ initialized
  BY <1>2
<1>4. ~resetPending /\ (used \/ top)
  BY <1>3
<1>5. CASE used
  BY <1>0, <1>2, <1>3, <1>4, <1>5
<1>6. CASE ~used
  <2>1. top /\ pendingNonce' = n
    BY <1>2, <1>4, <1>6
  <2> QED  BY <1>0, <1>3, <1>4, <1>6, <2>1
<1> QED  BY <1>5, <1>6

(* A lease is given: the counter moves over it. *)
LEMMA LeaseHoles ==
  ASSUME LaneTypeOK, LeaseInv, HolesKnown, NEW s \in Senders, LeaseNonce(s) \/ FreshNonce(s)
  PROVE  HolesKnown'
<1>0. /\ latest \in Nat /\ pendingNonce \in Nat /\ snd \in [Senders -> SendRec]
      /\ Held \subseteq Senders /\ Fresh \subseteq Senders
  BY DEF LaneTypeOK, PoolTypeOK, NonceTypeOK, Held, Fresh
<1>1. PICK n \in 0..MaxNonce :
        /\ NextNonce(n, IsPendingNonce(n))
        /\ \/ At(s, "nonce") /\ Becomes(s, [snd[s] EXCEPT !.pc = "build", !.nonce = n])
           \/ At(s, "fresh") /\ Becomes(s, [snd[s] EXCEPT !.pc = "resend", !.fresh = n])
  BY DEF LeaseNonce, FreshNonce
<1>2. n \in Nat /\ pendingNonce' = n + 1 /\ resetPending' = resetPending /\ UNCHANGED <<latest, pool>>
  <2>1. pendingNonce' = n + 1 /\ resetPending' = resetPending
    BY <1>1, Zenon DEF NextNonce
  <2>2. UNCHANGED <<latest, pool>>
    BY DEF LeaseNonce, FreshNonce, poolVars
  <2>3. n \in Nat
    BY NonceAssumption
  <2> QED  BY <2>1, <2>2, <2>3
<1>3. n \in Leased' /\ Leased \subseteq Leased'
  <2>1. \A t \in Senders : t # s => snd'[t] = snd[t]
    BY <1>0, <1>1 DEF Becomes
  <2>2. CASE At(s, "nonce") /\ Becomes(s, [snd[s] EXCEPT !.pc = "build", !.nonce = n])
    <3>1. snd'[s].pc = "build" /\ snd'[s].nonce = n
      BY <1>0, <2>2 DEF Becomes, SendRec
    <3>2. s \notin Held /\ s \notin Fresh
      BY <2>2 DEF At, Held, Fresh
    <3>3. s \in Held' /\ Held \subseteq Held' /\ Fresh \subseteq Fresh'
      BY <1>0, <2>1, <3>1, <3>2 DEF Held, Fresh
    <3> QED  BY <1>0, <2>1, <3>1, <3>2, <3>3 DEF Leased
  <2>3. CASE At(s, "fresh") /\ Becomes(s, [snd[s] EXCEPT !.pc = "resend", !.fresh = n])
    <3>1. snd'[s].pc = "resend" /\ snd'[s].fresh = n /\ snd'[s].nonce = snd[s].nonce
      BY <1>0, <2>3 DEF Becomes, SendRec
    <3>2. s \in Held /\ s \notin Fresh
      BY <2>3 DEF At, Held, Fresh
    <3>3. s \in Fresh' /\ Held \subseteq Held' /\ Fresh \subseteq Fresh'
      BY <1>0, <2>1, <3>1, <3>2 DEF Held, Fresh
    <3> QED  BY <1>0, <2>1, <3>1, <3>2, <3>3 DEF Leased
  <2> QED  BY <1>1, <2>2, <2>3
<1>4. ASSUME ~resetPending, NEW m \in latest..n, m # n PROVE m \in InPool \/ m \in Leased
  <2>1. CASE initialized
    <3>1. n = pendingNonce
      BY <1>1, <2>1 DEF NextNonce
    <3>2. m \in latest..(pendingNonce - 1)
      BY <1>0, <1>4, <3>1
    <3> QED  BY <1>4, <2>1, <3>2 DEF HolesKnown
  <2>2. CASE ~initialized
    <3>1. IsPendingNonce(n)
      BY <1>1, <2>2 DEF NextNonce
    <3> QED  BY <1>4, <3>1 DEF IsPendingNonce
  <2> QED  BY <2>1, <2>2
<1>5. ASSUME ~resetPending, NEW m \in latest..(n + 1 - 1) PROVE m \in InPool' \/ m \in Leased'
  <2>1. m \in latest..n
    BY <1>0, <1>2, <1>5
  <2>2. InPool' = InPool
    BY <1>2 DEF InPool
  <2> QED  BY <1>3, <1>4, <1>5, <2>1, <2>2
<1> QED  BY <1>2, <1>5 DEF HolesKnown

(* A lease is returned: a used nonce is in the pool or mined, an unused    *)
(* one is above the counter.                                               *)
LEMMA ReturnHoles ==
  ASSUME LaneTypeOK, HolesKnown, NEW s \in Senders, LeaseKnown(s), Release(s) \/ ReleaseFresh(s) \/ HandBack(s)
  PROVE  HolesKnown'
<1> SUFFICES ASSUME initialized', ~resetPending', NEW m \in latest'..(pendingNonce' - 1)
             PROVE  m \in InPool' \/ m \in Leased'
  BY DEF HolesKnown
<1>0. /\ latest \in Nat /\ pendingNonce \in Nat /\ snd \in [Senders -> SendRec]
      /\ Held \subseteq Senders /\ Fresh \subseteq Senders
      /\ snd[s].nonce \in Nat /\ snd[s].fresh \in Nat /\ snd[s].used \in BOOLEAN
  BY DEF LaneTypeOK, PoolTypeOK, NonceTypeOK, Held, Fresh, SendRec
<1>1. UNCHANGED <<latest, pool>> /\ InPool' = InPool
  BY DEF Release, ReleaseFresh, HandBack, poolVars, InPool
<1>2. \A t \in Senders : t # s => snd'[t] = snd[t]
  BY <1>0 DEF Release, ReleaseFresh, HandBack, Goto, Becomes
<1>3. ASSUME NEW t \in Senders, t # s,
             (t \in Held /\ m = snd[t].nonce) \/ (t \in Fresh /\ m = snd[t].fresh)
      PROVE  m \in Leased'
  BY <1>2, <1>3 DEF Leased, Held, Fresh
<1>5. m \in Nat /\ m >= latest /\ (pendingNonce' \in Nat => m < pendingNonce')
  BY <1>0, <1>1
<1>4. ASSUME initialized, ~resetPending, pendingNonce' \in Nat, pendingNonce' <= pendingNonce
      PROVE  \/ m \in InPool
             \/ m \in Leased'
             \/ s \in Held /\ m = snd[s].nonce
             \/ s \in Fresh /\ m = snd[s].fresh
  <2>1. m \in latest..(pendingNonce - 1)
    BY <1>0, <1>4, <1>5
  <2>2. m \in InPool \/ m \in Leased
    BY <1>4, <2>1 DEF HolesKnown
  <2>3. ASSUME m \in Leased
        PROVE  \E t \in Senders :
                 (t \in Held /\ m = snd[t].nonce) \/ (t \in Fresh /\ m = snd[t].fresh)
    BY <1>0, <2>3 DEF Leased
  <2> QED  BY <1>3, <2>2, <2>3
<1>6. CASE Release(s)
  <2>1. /\ initialized /\ ~resetPending /\ pendingNonce' \in Nat /\ pendingNonce' <= pendingNonce
        /\ ~snd[s].used => \A k \in Nat : k < pendingNonce' => k # snd[s].nonce
    BY <1>0, <1>6, ReleaseOutcome DEF Release
  <2>2. s \in Held /\ s \notin Fresh /\ snd[s].pc = "release"
    BY <1>6 DEF Release, At, Held, Fresh
  <2>3. CASE m = snd[s].nonce
    <3>1. snd[s].used
      BY <1>5, <2>1, <2>3
    <3>2. Known(snd[s].nonce)
      BY <2>1, <2>2, <3>1 DEF LeaseKnown
    <3> QED  BY <1>0, <1>1, <1>5, <2>3, <3>2 DEF Known
  <2> QED  BY <1>1, <1>4, <2>1, <2>2, <2>3
<1>7. CASE ReleaseFresh(s)
  <2>1. /\ initialized /\ ~resetPending /\ pendingNonce' \in Nat /\ pendingNonce' <= pendingNonce
        /\ \A k \in Nat : k < pendingNonce' => k # snd[s].fresh
    BY <1>0, <1>7, ReleaseOutcome DEF ReleaseFresh
  <2>2. s \in Held' /\ snd'[s].nonce = snd[s].nonce
    BY <1>0, <1>7 DEF ReleaseFresh, Goto, Held, SendRec
  <2>3. m # snd[s].fresh
    BY <1>5, <2>1
  <2>4. m = snd[s].nonce => m \in Leased'
    BY <2>2 DEF Leased
  <2> QED  BY <1>1, <1>4, <2>1, <2>3, <2>4
<1>8. CASE HandBack(s)
  <2>1. /\ initialized /\ ~resetPending /\ pendingNonce' \in Nat /\ pendingNonce' <= pendingNonce
        /\ \A k \in Nat : k < pendingNonce' => k # snd[s].nonce
    BY <1>0, <1>8, ReleaseOutcome DEF HandBack
  <2>2. s \in Held' /\ snd'[s].nonce = snd[s].fresh
    BY <1>0, <1>8 DEF HandBack, Becomes, Held, SendRec
  <2>3. m # snd[s].nonce
    BY <1>5, <2>1
  <2>4. m = snd[s].fresh => m \in Leased'
    BY <2>2 DEF Leased
  <2> QED  BY <1>1, <1>4, <2>1, <2>3, <2>4
<1> QED  BY <1>6, <1>7, <1>8

(* No lease is given or taken. *)
LEMMA SameHoles ==
  ASSUME AnswersKnown, LaneTypeOK, LeaseInv, HolesKnown, [Next]_vars, Held' = Held, Fresh' = Fresh,
         \A t \in Held : snd'[t].nonce = snd[t].nonce,
         \A t \in Fresh : snd'[t].fresh = snd[t].fresh,
         UNCHANGED nonceVars \/ ResetNonce
  PROVE  HolesKnown'
<1>1. CASE ResetNonce
  <2>1. resetPending' \/ initialized' = FALSE
    BY <1>1 DEF ResetNonce, ApplyPendingReset
  <2> QED  BY <2>1 DEF HolesKnown
<1>2. CASE UNCHANGED nonceVars
  <2> SUFFICES ASSUME initialized, ~resetPending, NEW m \in latest'..(pendingNonce - 1)
               PROVE  m \in InPool' \/ m \in Leased'
    BY <1>2 DEF HolesKnown, nonceVars
  <2>1. Leased' = Leased
    BY DEF Leased
  <2>2. latest \in Nat /\ latest' \in Nat /\ latest <= latest' /\ pendingNonce \in Nat
    BY KnownStays DEF LaneTypeOK, NonceTypeOK
  <2>3. m \in latest..(pendingNonce - 1) /\ m \in Nat /\ m >= latest'
    BY <2>2
  <2>4. m \in InPool \/ m \in Leased
    BY <2>3 DEF HolesKnown
  <2>5. m \in InPool => m < latest' \/ m \in InPool'
    BY <2>3, KnownStays DEF Known
  <2> QED  BY <2>1, <2>2, <2>3, <2>4, <2>5
<1> QED  BY <1>1, <1>2

(* Every step leaves no unknown hole. *)
LEMMA HoleStep ==
  ASSUME AnswersKnown
  PROVE  LaneTypeOK /\ LeaseInv /\ LeaseInv' /\ HoleInv /\ [Next]_vars => HoleInv'
<1> SUFFICES ASSUME LaneTypeOK, LeaseInv, LeaseInv', HoleInv, [Next]_vars PROVE HoleInv'
  OBVIOUS
<1>0. HolesKnown /\ \A t \in Senders : LeaseKnown(t)
  BY DEF HoleInv
<1>1. ASSUME NEW s \in Senders, Start(s) \/ Work(s), ~Restart PROVE HoleInv'
  <2>1. ASSUME NEW t \in Senders, t # s
        PROVE  snd'[t].pc = snd[t].pc /\ snd'[t].nonce = snd[t].nonce /\ snd'[t].fresh = snd[t].fresh
               /\ snd'[t].used = snd[t].used
    <3>1. CASE Replace(s)
      BY <2>1, <3>1 DEF LaneTypeOK, SendRec, Replace, Goto
    <3>2. CASE ~Replace(s)
      <4>1. (\E p : Goto(s, p)) \/ (\E r : Becomes(s, r))
        BY <1>1, <3>2, Zenon DEF Start, Work, Enter, Wake, EnterCancelled, Done, LeaseNonce, NonceFails,
           BuildFails, SendAccepted, SendFails, Reseed, FreshNonce, FreshNonceFails, ResendAccepted,
           ResendFails, ReleaseFresh, HandBack, ResetAndRecord, ReplaceFails, Release, Mined, WaitFails
      <4> QED  BY <2>1, <4>1 DEF LaneTypeOK, Goto, Becomes
    <3> QED  BY <3>1, <3>2
  <2>2. \A t \in Senders : LeaseKnown(t)'
    <3>1. LeaseKnown(s)'
      BY <1>0, <1>1, OwnLeaseKnown
    <3>2. ASSUME NEW t \in Senders, t # s PROVE LeaseKnown(t)'
      BY <1>0, <1>1, <2>1, <3>2, LeaseKnownStays
    <3> QED  BY <3>1, <3>2
  <2>3. HolesKnown'
    <3>1. CASE LeaseNonce(s) \/ FreshNonce(s)
      BY <1>0, <3>1, LeaseHoles
    <3>2. CASE Release(s) \/ ReleaseFresh(s) \/ HandBack(s)
      BY <1>0, <3>2, ReturnHoles
    <3>3. CASE ~(LeaseNonce(s) \/ FreshNonce(s) \/ Release(s) \/ ReleaseFresh(s) \/ HandBack(s))
      <4>1. /\ Held' = Held /\ Fresh' = Fresh
            /\ \A t \in Held : snd'[t].nonce = snd[t].nonce
            /\ \A t \in Fresh : snd'[t].fresh = snd[t].fresh
            /\ UNCHANGED nonceVars \/ ResetNonce
        BY <1>1, <3>3, QuietSteps
      <4> QED  BY <1>0, <4>1, SameHoles
    <3> QED  BY <3>1, <3>2, <3>3
  <2> QED  BY <2>2, <2>3 DEF HoleInv
<1>2. CASE (Mine \/ PoolEvicts \/ CliSends \/ Janitor \/ UNCHANGED vars) /\ ~Restart
  <2>1. \A t \in Senders :
          snd'[t].pc = snd[t].pc /\ snd'[t].nonce = snd[t].nonce /\ snd'[t].fresh = snd[t].fresh
          /\ snd'[t].used = snd[t].used
    BY <1>2 DEF LaneTypeOK, SendRec, Mine, PoolEvicts, CliSends, Janitor, vars
  <2>2. Held' = Held /\ Fresh' = Fresh /\ Held \subseteq Senders /\ Fresh \subseteq Senders
    BY <2>1 DEF Held, Fresh
  <2>3. UNCHANGED nonceVars
    BY <1>2 DEF Mine, PoolEvicts, CliSends, Janitor, vars
  <2>4. HolesKnown'
    BY <1>0, <2>1, <2>2, <2>3, SameHoles
  <2>5. ASSUME NEW t \in Senders PROVE LeaseKnown(t)'
    BY <1>0, <1>2, <2>1, LeaseKnownStays
  <2> QED  BY <2>4, <2>5 DEF HoleInv
<1>3. CASE Restart
  <2>1. initialized' = FALSE /\ \A t \in Senders : snd'[t].pc = "idle"
    BY <1>3 DEF Restart, NewNonceManager, Idle
  <2> QED  BY <2>1 DEF HoleInv, HolesKnown, LeaseKnown
<1> QED  BY <1>1, <1>2, <1>3 DEF Next

(* ReleaseNonce and ResetNonce: while the node's answers come back, every  *)
(* nonce below a counter that is in use is mined, in the pool or leased,   *)
(* for any number of senders, refusals, failed builds, timeouts, CLI       *)
(* transactions and restarts: the chain does not stall behind a nonce      *)
(* nobody will send.                                                       *)
THEOREM NoUnknownHole == ASSUME AnswersKnown PROVE Spec => []HolesKnown
<1>1. Init => HoleInv
  BY DEF Init, NonceInit, Idle, HoleInv, HolesKnown, LeaseKnown
<1>2. LaneTypeOK /\ LeaseInv /\ LeaseInv' /\ HoleInv /\ [Next]_vars => HoleInv'
  BY HoleStep
<1>3. HoleInv => HolesKnown
  BY DEF HoleInv
<1> QED  BY <1>1, <1>2, <1>3, LaneTypes, LeasesHold, PTL DEF Spec

----------------------------------------------------------------------------
(* Subpools. *)

(* A sender past Enter has its token, and has it for as long as it has a   *)
(* transaction in the pool; only legacy senders resend.                    *)
SlotInv(s) ==
  /\ snd[s].pc \notin {"idle", "enter", "wait"} => s \in inflight[ClassOf(s)]
  /\ snd[s].fate = "pending" =>
       IF s \in Blob THEN snd[s].pc = "await" ELSE snd[s].pc \in {"handback", "release", "await"}
  /\ snd[s].pc \in {"reseed", "fresh", "resend", "unsend", "handback"} => s \notin Blob

(* Every transaction in the pool is one that a sender of its class awaits. *)
Covered == \A c \in Class : \A n \in pool[c] : \E s \in Senders : ClassOf(s) = c /\ Awaits(s, n)

PoolCovered == (\A s \in Senders : SlotInv(s)) /\ Covered

(* That is so until something is left behind in the pool. *)
PoolInv == ~disturbed => PoolCovered

(* Once disturbed, always disturbed. *)
LEMMA DisturbedStays == [Next]_vars /\ ~disturbed' => ~disturbed
<1> SUFFICES ASSUME [Next]_vars, ~disturbed' PROVE ~disturbed
  OBVIOUS
<1>1. ASSUME NEW s \in Senders, Start(s) \/ Work(s) PROVE ~disturbed
  BY <1>1, Zenon DEF Start, Work, Enter, Wake, EnterCancelled, Done, LeaseNonce, NonceFails,
     BuildFails, SendAccepted, SendFails, Failed, Reseed, FreshNonce, FreshNonceFails, ResendAccepted,
     ResendFails, ReleaseFresh, HandBack, ResetAndRecord, Replace, ReplaceFails, Release, Mined, WaitFails
<1>2. CASE Mine \/ PoolEvicts \/ CliSends \/ Restart \/ Janitor
  BY <1>2, Zenon DEF Mine, PoolEvicts, CliSends, Restart, Janitor
<1>3. CASE UNCHANGED vars
  BY <1>3 DEF vars
<1> QED  BY <1>1, <1>2, <1>3 DEF Next

(* A step of one sender that leaves nothing behind touches no other. *)
LEMMA OthersUntouched ==
  ASSUME LaneTypeOK, NEW s \in Senders, Start(s) \/ Work(s), ~disturbed',
         NEW t \in Senders, t # s
  PROVE  snd'[t] = snd[t]
<1>1. (\E p : Goto(s, p)) \/ (\E r : Becomes(s, r))
  BY DEF Start, Work, Enter, Wake, EnterCancelled, Done, LeaseNonce, NonceFails, BuildFails,
     SendAccepted, SendFails, Reseed, FreshNonce, FreshNonceFails, ResendAccepted, ResendFails,
     ReleaseFresh, HandBack, ResetAndRecord, Replace, ReplaceFails, Release, Mined, WaitFails, At
<1> QED  BY <1>1 DEF LaneTypeOK, Goto, Becomes

(* A sender keeps its token until Done. *)
LEMMA TokenKept ==
  ASSUME LaneTypeOK, NEW s \in Senders, Start(s) \/ Work(s),
         NEW t \in Senders, t \in inflight[ClassOf(t)], t # s \/ ~Done(s)
  PROVE  t \in inflight'[ClassOf(t)]
<1>1. CASE Enter(s)
  BY <1>1, ClassOfType
  DEF Enter, Admit, Subscribe, LaneTypeOK, CoordTypeOK
<1>2. CASE Done(s)
  BY <1>2, ClassOfType DEF Done, ReleaseToken, LaneTypeOK, CoordTypeOK
<1>3. CASE ~Enter(s) /\ ~Done(s)
  <2>1. UNCHANGED inflight
    BY <1>3 DEF Start, Work, Wake, EnterCancelled, Unsubscribe, coordVars, LeaseNonce, NonceFails,
       BuildFails, SendAccepted, SendFails, Reseed, FreshNonce, FreshNonceFails, ResendAccepted,
       ResendFails, ReleaseFresh, HandBack, ResetAndRecord, Replace, ReplaceFails, Release, Mined,
       WaitFails
  <2> QED  BY <2>1
<1> QED  BY <1>1, <1>2, <1>3

(* The sender itself keeps its slot invariant. *)
LEMMA OwnSlot ==
  ASSUME ~disturbed', LaneTypeOK, NEW s \in Senders, SlotInv(s), Start(s) \/ Work(s)
  PROVE  SlotInv(s)'
<1>1. s \in inflight[ClassOf(s)] /\ ~Done(s) => s \in inflight'[ClassOf(s)]
  BY TokenKept
<1> USE DEF SlotInv, LaneTypeOK, SendRec, At, Goto, Becomes
<1>2. CASE Start(s) \/ Wake(s) \/ EnterCancelled(s) \/ Done(s)
  BY <1>2 DEF Start, Wake, EnterCancelled, Done, Idle
<1>3. CASE Enter(s)
  <2>1. CASE Admit(s) /\ Goto(s, "nonce")
    BY <1>3, <2>1, ClassOfType DEF Enter, Admit, CoordTypeOK
  <2>2. CASE Subscribe(s) /\ Goto(s, "wait")
    BY <1>3, <2>2 DEF Enter
  <2> QED  BY <1>3, <2>1, <2>2 DEF Enter
<1>4. CASE LeaseNonce(s) \/ NonceFails(s) \/ BuildFails(s) \/ Reseed(s) \/ FreshNonce(s)
           \/ FreshNonceFails(s) \/ ReleaseFresh(s)
  <2>1. CASE LeaseNonce(s)
    BY <1>1, <2>1 DEF LeaseNonce, Done
  <2>2. CASE FreshNonce(s)
    BY <1>1, <2>2 DEF FreshNonce, Done
  <2>3. CASE NonceFails(s) \/ BuildFails(s) \/ FreshNonceFails(s)
    BY <1>1, <2>3 DEF NonceFails, BuildFails, FreshNonceFails, Done
  <2>4. CASE Reseed(s) \/ ReleaseFresh(s)
    BY <1>1, <2>4 DEF Reseed, ReleaseFresh, Done
  <2> QED  BY <1>4, <2>1, <2>2, <2>3, <2>4
<1>5. CASE SendAccepted(s)
  BY <1>1, <1>5 DEF SendAccepted, Done
<1>6. CASE SendFails(s)
  BY <1>1, <1>6, SendersAssumption DEF SendFails, Done, Senders
<1>7. CASE ResendAccepted(s)
  BY <1>1, <1>7, SendersAssumption DEF ResendAccepted, Done
<1>8. CASE ResendFails(s)
  BY <1>1, <1>8 DEF ResendFails, Done
<1>9. CASE HandBack(s)
  BY <1>1, <1>9 DEF HandBack, Done
<1>10. CASE ResetAndRecord(s)
  BY <1>1, <1>10 DEF ResetAndRecord, Done
<1>11. CASE Release(s)
  BY <1>1, <1>11, SendersAssumption DEF Release, Done, Senders
<1>12. CASE Mined(s)
  BY <1>1, <1>12 DEF Mined, AfterWait, Done
<1>13. CASE Replace(s) \/ ReplaceFails(s) \/ WaitFails(s)
  <2>1. Goto(s, "release") \/ Goto(s, AfterWait(s))
    BY <1>13, Zenon DEF Replace, ReplaceFails, WaitFails
  <2>2. snd[s].pc \in {"replace", "await"} /\ snd[s].fate # "pending"
    <3>1. CASE WaitFails(s)
      BY <3>1 DEF WaitFails
    <3>2. CASE Replace(s) \/ ReplaceFails(s)
      BY <3>2 DEF Replace, ReplaceFails
    <3> QED  BY <1>13, <3>1, <3>2
  <2>3. s \in inflight'[ClassOf(s)]
    BY <1>1, <2>2 DEF Done
  <2> QED  BY <2>1, <2>2, <2>3 DEF AfterWait
<1> QED
  BY <1>2, <1>3, <1>4, <1>5, <1>6, <1>7, <1>8, <1>9, <1>10, <1>11, <1>12, <1>13 DEF Work

(* A sender that awaits a transaction awaits it after its own steps, but   *)
(* for the receipt.                                                        *)
LEMMA OwnAwait ==
  ASSUME ~disturbed', LaneTypeOK, NEW s \in Senders, SlotInv(s), Start(s) \/ Work(s),
         NEW n, Awaits(s, n)
  PROVE  Awaits(s, n)'
<1>1. snd[s].pc \in {"handback", "release", "await"} /\ snd[s].fate = "pending"
  BY DEF SlotInv, Awaits
<1>2. HandBack(s) \/ Release(s)
  BY <1>1 DEF At, Start, Work, Enter, Wake, EnterCancelled, Done, LeaseNonce, NonceFails,
     BuildFails, SendAccepted, SendFails, Reseed, FreshNonce, FreshNonceFails, ResendAccepted,
     ResendFails, ReleaseFresh, ResetAndRecord, Replace, ReplaceFails, Mined, WaitFails
<1>3. CASE HandBack(s)
  BY <1>3 DEF HandBack, At, Becomes, Awaits, TxNonce, LaneTypeOK, SendRec
<1>4. CASE Release(s)
  BY <1>4 DEF Release, At, Goto, Awaits, TxNonce, LaneTypeOK, SendRec
<1> QED  BY <1>2, <1>3, <1>4

(* A failed send leaves nothing in the pool if no answer is lost. *)
LEMMA FailedSend ==
  ASSUME ~disturbed', NEW s, NEW n, NEW e, Failed(s, n, e)
  PROVE  UNCHANGED poolVars
BY DEF Failed

(* What enters the pool is awaited by the sender that sent it. *)
LEMMA PoolGrows ==
  ASSUME ~disturbed', LaneTypeOK, NEW s \in Senders, SlotInv(s), Start(s) \/ Work(s),
         NEW c \in Class, NEW n \in pool'[c], n \notin pool[c]
  PROVE  ClassOf(s) = c /\ Awaits(s, n)'
<1>1. SendAccepted(s) \/ ResendAccepted(s) \/ UNCHANGED poolVars
  BY FailedSend DEF SlotInv, At, Start, Work, Enter, Wake, EnterCancelled, Done, LeaseNonce,
     NonceFails, BuildFails, SendFails, Reseed, FreshNonce, FreshNonceFails, ResendFails,
     ReleaseFresh, HandBack, ResetAndRecord, Replace, ReplaceFails, Release, Mined, WaitFails
<1>2. CASE SendAccepted(s)
  BY <1>2, ClassOfType
  DEF SendAccepted, Accept, Becomes, Awaits, TxNonce, LaneTypeOK, SendRec, PoolTypeOK
<1>3. CASE ResendAccepted(s)
  <2>1. snd[s].pc = "resend" /\ s \notin Blob
    BY <1>3 DEF ResendAccepted, At, SlotInv
  <2>2. ClassOf(s) = "legacy"
    BY <2>1 DEF ClassOf, Senders
  <2> QED
    BY <1>3, <2>2 DEF ResendAccepted, Accept, Becomes, Awaits, TxNonce, LaneTypeOK, SendRec, PoolTypeOK
<1>4. CASE UNCHANGED poolVars
  BY <1>4 DEF poolVars
<1> QED  BY <1>1, <1>2, <1>3, <1>4

(* A step of a sender: what it sends it awaits, token in hand. *)
LEMMA SenderPool ==
  ASSUME ~disturbed', LaneTypeOK, PoolCovered, NEW s \in Senders, Start(s) \/ Work(s)
  PROVE  PoolCovered'
<1>1. SlotInv(s) /\ SlotInv(s)'
  BY OwnSlot DEF PoolCovered
<1>2. \A t \in Senders : t # s => snd'[t] = snd[t]
  BY <1>1, OthersUntouched DEF SlotInv
<1>3. ASSUME NEW t \in Senders PROVE SlotInv(t)'
  <2>1. CASE t # s
    BY <1>2, <2>1, TokenKept DEF PoolCovered, SlotInv
  <2> QED  BY <1>1, <2>1
<1>4. ASSUME NEW c \in Class, NEW n \in pool'[c]
      PROVE  \E t \in Senders : ClassOf(t) = c /\ Awaits(t, n)'
  <2>1. CASE n \in pool[c]
    <3>1. PICK t \in Senders : ClassOf(t) = c /\ Awaits(t, n)
      BY <2>1 DEF PoolCovered, Covered
    <3>2. CASE t = s
      BY <1>1, <3>1, <3>2, OwnAwait
    <3>3. CASE t # s
      BY <1>2, <3>1, <3>3 DEF Awaits, TxNonce
    <3> QED  BY <3>2, <3>3
  <2>2. CASE n \notin pool[c]
    BY <1>1, <2>2, PoolGrows
  <2> QED  BY <2>1, <2>2
<1> QED  BY <1>3, <1>4 DEF PoolCovered, Covered

(* The node mines or drops transactions, the janitor drops seeded tokens. *)
LEMMA WorldPool ==
  ASSUME ~disturbed', LaneTypeOK, PoolCovered, Mine \/ PoolEvicts \/ Janitor
  PROVE  PoolCovered'
<1>1. CASE Mine
  <2>1. ASSUME NEW s \in Senders PROVE SlotInv(s)'
    BY <1>1 DEF Mine, PoolCovered, SlotInv, coordVars, LaneTypeOK, SendRec
  <2>2. ASSUME NEW c \in Class, NEW n \in pool'[c]
        PROVE  \E s \in Senders : ClassOf(s) = c /\ Awaits(s, n)'
    <3>1. n \in pool[c] /\ n # latest
      BY <1>1, <2>2 DEF Mine, MineNext
    <3>2. PICK s \in Senders : ClassOf(s) = c /\ Awaits(s, n)
      BY <3>1 DEF PoolCovered, Covered
    <3> QED  BY <1>1, <3>1, <3>2 DEF Mine, Awaits, TxNonce
  <2> QED  BY <2>1, <2>2 DEF PoolCovered, Covered
<1>2. CASE PoolEvicts
  <2>1. ASSUME NEW s \in Senders PROVE SlotInv(s)'
    BY <1>2 DEF PoolEvicts, PoolCovered, SlotInv, coordVars, LaneTypeOK, SendRec
  <2>2. ASSUME NEW c \in Class, NEW n \in pool'[c]
        PROVE  \E s \in Senders : ClassOf(s) = c /\ Awaits(s, n)'
    <3>1. n \in pool[c]
      BY <1>2, <2>2 DEF PoolEvicts, Evict, LaneTypeOK, PoolTypeOK
    <3>2. PICK s \in Senders : ClassOf(s) = c /\ Awaits(s, n)
      BY <3>1 DEF PoolCovered, Covered
    <3>3. n \in pool'["blob"] \union pool'["legacy"]
      BY <2>2 DEF Class
    <3> QED  BY <1>2, <3>2, <3>3 DEF PoolEvicts, Awaits, TxNonce
  <2> QED  BY <2>1, <2>2 DEF PoolCovered, Covered
<1>3. CASE Janitor
  <2>1. PICK T : ReapStale(T) /\ T \intersect Senders = {}
    BY <1>3, Zenon DEF Janitor
  <2>2. ASSUME NEW s \in Senders, s \in inflight[ClassOf(s)] PROVE s \in inflight'[ClassOf(s)]
    BY <2>1, <2>2, ClassOfType DEF ReapStale
  <2>3. UNCHANGED <<pool, snd>>
    BY <1>3 DEF Janitor, poolVars
  <2> QED  BY <2>2, <2>3 DEF PoolCovered, SlotInv, Covered, Awaits, TxNonce
<1> QED  BY <1>1, <1>2, <1>3

(* The coordinator serves its purpose: until an answer or a receipt of the *)
(* node is lost, somebody else uses the key, the janitor takes the token   *)
(* of a live broadcast or the process restarts, no transaction is sent     *)
(* while the other subpool holds one of the key, so "address already       *)
(* reserved" cannot happen, whatever is refused, evicted or fails before   *)
(* the send.                                                               *)
THEOREM SubpoolsApart == Spec => []NoCrossClassSend
<1>1. Init => PoolInv
  BY DEF Init, PoolInit, Idle, PoolInv, PoolCovered, SlotInv, Covered, Class
<1>2. LaneTypeOK /\ PoolInv /\ [Next]_vars => PoolInv'
  <2> SUFFICES ASSUME LaneTypeOK, PoolInv, [Next]_vars, ~disturbed' PROVE PoolCovered'
    BY DEF PoolInv
  <2>0. PoolCovered
    BY DisturbedStays DEF PoolInv
  <2>1. ASSUME NEW s \in Senders, Start(s) \/ Work(s) PROVE PoolCovered'
    BY <2>0, <2>1, SenderPool
  <2>2. CASE Mine \/ PoolEvicts \/ Janitor
    BY <2>0, <2>2, WorldPool
  <2>3. CASE UNCHANGED vars
    BY <2>0, <2>3 DEF vars, poolVars, coordVars, PoolCovered, SlotInv, Covered, Awaits, TxNonce
  <2>4. ~CliSends /\ ~Restart
    BY DEF CliSends, Restart
  <2> QED  BY <2>1, <2>2, <2>3, <2>4 DEF Next
<1>3. ClassExclusion /\ PoolInv => NoCrossClassSend
  <2> SUFFICES ASSUME ClassExclusion, PoolCovered,
                      NEW s \in Senders, snd[s].pc \in {"build", "resend"},
                      NEW n \in pool[Other(ClassOf(s))]
               PROVE  FALSE
    BY DEF NoCrossClassSend, PoolInv
  <2>1. PICK t \in Senders : ClassOf(t) = Other(ClassOf(s)) /\ Awaits(t, n)
    BY ClassOfType DEF PoolCovered, Covered
  <2>2. t \in inflight[Other(ClassOf(s))]
    BY <2>1 DEF PoolCovered, SlotInv, Awaits
  <2>3. s \in inflight[ClassOf(s)]
    BY DEF PoolCovered, SlotInv
  <2> QED  BY <2>2, <2>3 DEF ClassExclusion, ClassOf, Other
<1> QED  BY <1>1, <1>2, <1>3, LaneTypes, LanesHold, PTL DEF Spec
=============================================================================
