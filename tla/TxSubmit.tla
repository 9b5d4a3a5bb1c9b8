------------------------------ MODULE TxSubmit ------------------------------
(***************************************************************************)
(* Everything the sidecar sends with its one key: legacy transactions      *)
(* (ChainClient.broadcastPreparedTx, PendingTx.Wait) and blob transactions *)
(* (BlobTxSubmitter.SubmitBlobTx) share one nonce manager, one subpool     *)
(* coordinator and one stuck-nonce tracker, and meet in the node's pool.   *)
(* A sender is a goroutine that submits one transaction after the other;   *)
(* snd[s] holds its local variables.                                       *)
(***************************************************************************)
EXTENDS SubpoolCoordinator, StuckNonceTracker, NonceManager

CONSTANT Faults        \* what may go wrong besides the pool's own refusals

FaultKinds == {"build",       \* a read, the building or the signing of a tx fails
               "reject",      \* SendTransaction is refused for good (funds, gas limit)
               "ambiguous",   \* SendTransaction fails, the tx may have arrived
               "timeout",     \* the receipt does not come in time
               "evict",       \* the node drops transactions
               "cli",         \* the worker CLI sends with the same key
               "restart",     \* the sidecar is killed and started again
               "outlive"}     \* a broadcast outlives maxTokenLifetime

ASSUME FaultsAssumption == Faults \subseteq FaultKinds

VARIABLES snd,
          disturbed   \* the pool may hold a transaction of the key that no sender awaits

vars == <<poolVars, nonceVars, coordVars, stuckVars, snd, disturbed>>

PC == {"idle", "enter", "wait", "nonce", "build", "reseed", "fresh", "resend", "unsend",
       "handback", "reset", "replace", "release", "await", "abandon"}

SendRec == [pc : PC,
            nonce : Nat,             \* the lease
            fresh : Nat,             \* the second lease of resendWithFreshNonce
            used : BOOLEAN,          \* nonceConsumed
            err : {"nil", "nonce", "reserved", "reject", "ambiguous"},
            fate : {"none", "pending", "mined", "gone"}]  \* of the accepted tx

Idle == [pc |-> "idle", nonce |-> 0, fresh |-> 0, used |-> FALSE, err |-> "nil", fate |-> "none"]

TypeOK ==
  /\ PoolTypeOK
  /\ NonceTypeOK
  /\ CoordTypeOK
  /\ StuckTypeOK
  /\ snd \in [Senders -> SendRec]
  /\ disturbed \in BOOLEAN

Init ==
  /\ PoolInit
  /\ NonceInit
  /\ CoordInit
  /\ StuckInit
  /\ snd = [s \in Senders |-> Idle]
  /\ disturbed = FALSE

At(s, pc) == snd[s].pc = pc
Becomes(s, rec) == snd' = [snd EXCEPT ![s] = rec]
Goto(s, pc) == snd' = [snd EXCEPT ![s].pc = pc]

----------------------------------------------------------------------------
(* The broadcast slot. *)
Start(s) ==
  /\ At(s, "idle")
  /\ Becomes(s, [Idle EXCEPT !.pc = "enter"])
  /\ UNCHANGED <<poolVars, nonceVars, coordVars, stuckVars, disturbed>>

Enter(s) ==
  /\ At(s, "enter")
  /\ \/ Admit(s) /\ Goto(s, "nonce")
     \/ Subscribe(s) /\ Goto(s, "wait")
  /\ UNCHANGED <<poolVars, nonceVars, stuckVars, disturbed>>

(* The channel the waiter holds has been closed. *)
Wake(s) ==
  /\ At(s, "wait")
  /\ s \notin subscribed
  /\ Goto(s, "enter")
  /\ UNCHANGED <<poolVars, nonceVars, coordVars, stuckVars, disturbed>>

EnterCancelled(s) ==
  /\ At(s, "wait")
  /\ Becomes(s, Idle)
  /\ Unsubscribe(s)
  /\ UNCHANGED <<poolVars, nonceVars, stuckVars, disturbed>>

(* Done or Abandon, the last deferred call of either path. *)
Done(s) ==
  /\ At(s, "abandon")
  /\ ReleaseToken(s)
  /\ Becomes(s, Idle)
  /\ UNCHANGED <<poolVars, nonceVars, stuckVars, disturbed>>

----------------------------------------------------------------------------
(* The lease and the broadcast. *)
LeaseNonce(s) ==
  /\ At(s, "nonce")
  /\ \E n \in 0..MaxNonce :
       /\ NextNonce(n, IsPendingNonce(n))
       /\ Becomes(s, [snd[s] EXCEPT !.pc = "build", !.nonce = n])
  /\ UNCHANGED <<poolVars, coordVars, stuckVars, disturbed>>

(* Faulty variant: the slot is not given back. *)
NonceFailsLeaks(s) ==
  /\ At(s, "nonce")
  /\ "build" \in Faults
  /\ Becomes(s, Idle)
  /\ UNCHANGED <<poolVars, nonceVars, coordVars, stuckVars, disturbed>>

(* The context is done, PendingNonceAt or the transactor fails. *)
NonceFails(s) ==
  /\ At(s, "nonce")
  /\ "build" \in Faults
  /\ Goto(s, "abandon")
  /\ UNCHANGED <<poolVars, nonceVars, coordVars, stuckVars, disturbed>>

BuildFails(s) ==
  /\ At(s, "build")
  /\ "build" \in Faults
  /\ Goto(s, "release")
  /\ UNCHANGED <<poolVars, nonceVars, coordVars, stuckVars, disturbed>>

(* The errors with which a send of nonce n by s may fail. *)
SendErrors(s, n) ==
  ({Verdict(ClassOf(s), n)} \ {"accepted"}) \union ({"reject", "ambiguous"} \intersect Faults)

(* A send that fails; one whose answer was lost may have left the          *)
(* transaction in the pool.                                                *)
Failed(s, n, e) ==
  \/ UNCHANGED <<poolVars, disturbed>>
  \/ /\ e = "ambiguous"
     /\ Verdict(ClassOf(s), n) = "accepted"
     /\ Accept(ClassOf(s), n)
     /\ disturbed' = TRUE

(* A blob lease counts as used from here on; a legacy one when the         *)
(* transaction was accepted, or may have been.                             *)
SendAccepted(s) ==
  /\ At(s, "build")
  /\ Verdict(ClassOf(s), snd[s].nonce) = "accepted"
  /\ Accept(ClassOf(s), snd[s].nonce)
  /\ Becomes(s, [snd[s] EXCEPT !.pc = IF s \in Blob THEN "await" ELSE "release",
                               !.used = TRUE, !.fate = "pending"])
  /\ UNCHANGED <<nonceVars, coordVars, stuckVars, disturbed>>

SendFails(s) ==
  /\ At(s, "build")
  /\ \E e \in SendErrors(s, snd[s].nonce) :
       /\ Failed(s, snd[s].nonce, e)
       /\ Becomes(s, [snd[s] EXCEPT
            !.pc = IF e = "ambiguous" THEN "release"
                   ELSE IF e # "reject" /\ s \in Legacy THEN "reseed" ELSE "reset",
            !.used = s \in Blob \/ e = "ambiguous",
            !.err = e])
  /\ UNCHANGED <<nonceVars, coordVars, stuckVars>>

----------------------------------------------------------------------------
(* resendWithFreshNonce, after a nonce desync of a legacy send. *)
Reseed(s) ==
  /\ At(s, "reseed")
  /\ ResetNonce
  /\ Goto(s, "fresh")
  /\ UNCHANGED <<poolVars, coordVars, stuckVars, disturbed>>

FreshNonce(s) ==
  /\ At(s, "fresh")
  /\ \E n \in 0..MaxNonce :
       /\ NextNonce(n, IsPendingNonce(n))
       /\ Becomes(s, [snd[s] EXCEPT !.pc = "resend", !.fresh = n])
  /\ UNCHANGED <<poolVars, coordVars, stuckVars, disturbed>>

FreshNonceFails(s) ==
  /\ At(s, "fresh")
  /\ "build" \in Faults
  /\ Goto(s, "reset")
  /\ UNCHANGED <<poolVars, nonceVars, coordVars, stuckVars, disturbed>>

ResendAccepted(s) ==
  /\ At(s, "resend")
  /\ Verdict("legacy", snd[s].fresh) = "accepted"
  /\ Accept("legacy", snd[s].fresh)
  /\ Becomes(s, [snd[s] EXCEPT !.pc = "handback", !.fate = "pending"])
  /\ UNCHANGED <<nonceVars, coordVars, stuckVars, disturbed>>

(* The build or the send fails, whatever the error. *)
ResendFails(s) ==
  /\ At(s, "resend")
  /\ \/ "build" \in Faults /\ UNCHANGED <<poolVars, disturbed>>
     \/ \E e \in SendErrors(s, snd[s].fresh) : Failed(s, snd[s].fresh, e)
  /\ Goto(s, "unsend")
  /\ UNCHANGED <<nonceVars, coordVars, stuckVars>>

ReleaseFresh(s) ==
  /\ At(s, "unsend")
  /\ ReleaseNonce(snd[s].fresh, FALSE)
  /\ Goto(s, "reset")
  /\ UNCHANGED <<poolVars, coordVars, stuckVars, disturbed>>

(* The stale nonce goes back and the caller takes over the fresh one. *)
HandBack(s) ==
  /\ At(s, "handback")
  /\ ReleaseNonce(snd[s].nonce, FALSE)
  /\ Becomes(s, [snd[s] EXCEPT !.pc = "release", !.nonce = snd[s].fresh,
                               !.used = TRUE, !.err = "nil"])
  /\ UNCHANGED <<poolVars, coordVars, stuckVars, disturbed>>

----------------------------------------------------------------------------
(* Faulty variant: an off-by-one. *)
ReplacesOneMore(n, k) ==
  /\ Threshold > 0 /\ k >= Threshold
  /\ AutoReplace
  /\ BumpAttemptsUsedFor(n) <= MaxBumps

(* maybeSubmitReplacementBlobTx, after k refusals of nonce n. *)
Replaces(n, k) ==
  /\ Threshold > 0 /\ k >= Threshold
  /\ AutoReplace
  /\ BumpAttemptsUsedFor(n) < MaxBumps

(* Faulty variant: the nonce manager is not reset. *)
RecordOnly(s) ==
  /\ At(s, "reset")
  /\ IF snd[s].err = "reserved" THEN Record(snd[s].nonce) ELSE UNCHANGED stuckVars
  /\ Goto(s, IF s \in Blob /\ snd[s].err = "reserved" /\ Replaces(snd[s].nonce, hits'[snd[s].nonce])
               THEN "replace" ELSE "release")
  /\ UNCHANGED <<poolVars, nonceVars, coordVars, disturbed>>

(* A definite refusal: the nonce manager is reset, and a reservation is    *)
(* recorded; a blob sender then decides on a replacement.                  *)
ResetAndRecord(s) ==
  /\ At(s, "reset")
  /\ ResetNonce
  /\ IF snd[s].err = "reserved" THEN Record(snd[s].nonce) ELSE UNCHANGED stuckVars
  /\ Goto(s, IF s \in Blob /\ snd[s].err = "reserved" /\ Replaces(snd[s].nonce, hits'[snd[s].nonce])
               THEN "replace" ELSE "release")
  /\ UNCHANGED <<poolVars, coordVars, disturbed>>

(* The nonce of the transaction that s has in the pool. *)
TxNonce(s) == IF snd[s].pc = "handback" THEN snd[s].fresh ELSE snd[s].nonce
Awaits(s, n) == snd[s].fate = "pending" /\ TxNonce(s) = n

(* submitReplacementBlobTx: the attempt is counted, then sent; nobody      *)
(* waits for it, and who waits for the transaction it replaces, in vain.   *)
Replace(s) ==
  /\ At(s, "replace")
  /\ IncrementBumpAttemptsFor(snd[s].nonce)
  /\ LET n == snd[s].nonce
         ok == /\ n >= latest
               /\ pool["legacy"] = {}
               /\ n \in pool["blob"] \/ IsPendingNonce(n)
     IN \/ /\ ok
           /\ Accept("blob", n)
           /\ disturbed' = TRUE
           /\ snd' = [r \in Senders |->
                        IF r = s THEN [snd[s] EXCEPT !.pc = "release"]
                        ELSE IF Awaits(r, n) THEN [snd[r] EXCEPT !.fate = "gone"]
                        ELSE snd[r]]
        \/ /\ ~ok \/ Faults \intersect {"reject", "ambiguous"} # {}
           /\ UNCHANGED <<poolVars, disturbed>>
           /\ Goto(s, "release")
  /\ UNCHANGED <<nonceVars, coordVars>>

ReplaceFails(s) ==
  /\ At(s, "replace")
  /\ "build" \in Faults
  /\ Goto(s, "release")
  /\ UNCHANGED <<poolVars, nonceVars, coordVars, stuckVars, disturbed>>

(* Faulty variant: the slot is free once the transaction is on the wire. *)
ReleaseAtBroadcast(s) ==
  /\ At(s, "release")
  /\ ReleaseNonce(snd[s].nonce, snd[s].used)
  /\ Goto(s, "abandon")
  /\ UNCHANGED <<poolVars, coordVars, stuckVars, disturbed>>

(* The deferred ReleaseNonce: at the end of broadcastPreparedTx for a      *)
(* legacy transaction, whose slot then belongs to the PendingTx; after the *)
(* receipt for a blob.                                                     *)
Release(s) ==
  /\ At(s, "release")
  /\ ReleaseNonce(snd[s].nonce, snd[s].used)
  /\ Goto(s, IF s \in Legacy /\ snd[s].fate # "none" THEN "await" ELSE "abandon")
  /\ UNCHANGED <<poolVars, coordVars, stuckVars, disturbed>>

----------------------------------------------------------------------------
(* The receipt. *)
AfterWait(s) == IF s \in Legacy THEN "abandon" ELSE "release"

(* A successful receipt clears the tracker, one with status 0 does not. *)
Mined(s) ==
  /\ At(s, "await")
  /\ snd[s].fate = "mined"
  /\ Clear \/ UNCHANGED stuckVars
  /\ Goto(s, AfterWait(s))
  /\ UNCHANGED <<poolVars, nonceVars, coordVars, disturbed>>

WaitFails(s) ==
  /\ At(s, "await")
  /\ "timeout" \in Faults
  /\ ResetNonce
  /\ Goto(s, AfterWait(s))
  /\ disturbed' = (disturbed \/ snd[s].fate = "pending")
  /\ UNCHANGED <<poolVars, coordVars, stuckVars>>

----------------------------------------------------------------------------
(* The node, the CLI, the janitor and a restart. *)
Mine ==
  /\ MineNext
  /\ snd' = [s \in Senders |-> IF Awaits(s, latest) THEN [snd[s] EXCEPT !.fate = "mined"] ELSE snd[s]]
  /\ UNCHANGED <<nonceVars, coordVars, stuckVars, disturbed>>

PoolEvicts ==
  /\ "evict" \in Faults
  /\ \E c \in Class : \E n \in pool[c] :
       /\ Evict(c, n)
       /\ snd' = [s \in Senders |->
                    IF snd[s].fate = "pending" /\ TxNonce(s) \notin pool'["blob"] \union pool'["legacy"]
                      THEN [snd[s] EXCEPT !.fate = "gone"] ELSE snd[s]]
  /\ UNCHANGED <<nonceVars, coordVars, stuckVars, disturbed>>

(* The CLI has a nonce manager and a coordinator of its own. *)
CliSends ==
  /\ "cli" \in Faults
  /\ \E n \in 0..MaxNonce : IsPendingNonce(n) /\ pool["blob"] = {} /\ Accept("legacy", n)
  /\ disturbed' = TRUE
  /\ UNCHANGED <<nonceVars, coordVars, stuckVars, snd>>

(* Seeded tokens have no owner: only the janitor removes them.  A live one *)
(* goes if its broadcast is configured to take longer than the janitor's   *)
(* patience.                                                               *)
Janitor ==
  /\ \E T \in SUBSET (IF "outlive" \in Faults THEN inflight["blob"] \union inflight["legacy"]
                                              ELSE inflight["blob"] \ Senders) :
       /\ ReapStale(T)
       /\ disturbed' = (disturbed \/ T \intersect Senders # {})
  /\ UNCHANGED <<poolVars, nonceVars, stuckVars, snd>>

(* The process is killed; New seeds the coordinator from the two nonces of *)
(* the key, unless reading them fails.                                     *)
Restart ==
  /\ "restart" \in Faults
  /\ NewNonceManager
  /\ \/ \E n \in latest..(MaxNonce + 1) : IsPendingNonce(n) /\ NewCoordinator(n - latest)
     \/ "build" \in Faults /\ NewCoordinator(0)
  /\ Clear
  /\ snd' = [s \in Senders |-> Idle]
  /\ disturbed' = TRUE
  /\ UNCHANGED poolVars

Work(s) ==
  \/ Enter(s) \/ Wake(s) \/ EnterCancelled(s) \/ Done(s)
  \/ LeaseNonce(s) \/ NonceFails(s) \/ BuildFails(s) \/ SendAccepted(s) \/ SendFails(s)
  \/ Reseed(s) \/ FreshNonce(s) \/ FreshNonceFails(s) \/ ResendAccepted(s) \/ ResendFails(s)
  \/ ReleaseFresh(s) \/ HandBack(s)
  \/ ResetAndRecord(s) \/ Replace(s) \/ ReplaceFails(s) \/ Release(s)
  \/ Mined(s) \/ WaitFails(s)

Next ==
  \/ \E s \in Senders : Start(s) \/ Work(s)
  \/ Mine \/ PoolEvicts \/ CliSends \/ Janitor \/ Restart

Spec == Init /\ [][Next]_vars

(* A goroutine that has begun a submission runs on, and its waits for the  *)
(* slot and for the receipt have deadlines.                                *)
Fairness == \A s \in Senders : WF_vars(Work(s))

FairSpec == Spec /\ Fairness

----------------------------------------------------------------------------
(* The lanes never mix: while a token of one class is in flight, none of   *)
(* the other is, through every release, eviction, seed and restart.        *)
ClassExclusion == inflight["blob"] = {} \/ inflight["legacy"] = {}

(* No waiter sleeps on a channel that nobody will close: whoever holds the *)
(* current one waits for a class that is not empty.                        *)
NoLostWakeup == \A s \in subscribed : At(s, "wait") /\ inflight[Other(ClassOf(s))] # {}

(* Leases: of the transaction, and of its resend. *)
Held  == {s \in Senders : snd[s].pc \in {"build", "reseed", "fresh", "resend", "unsend", "handback",
                                         "reset", "replace", "release"}
                          \/ (s \in Blob /\ snd[s].pc = "await")}
Fresh == {s \in Senders : snd[s].pc \in {"resend", "unsend", "handback"}}

(* No two leases are on the same nonce, also while resets, hand-backs and  *)
(* resends of several senders overlap.                                     *)
LeasesDistinct ==
  /\ \A s, t \in Held : s # t => snd[s].nonce # snd[t].nonce
  /\ \A s, t \in Fresh : s # t => snd[s].fresh # snd[t].fresh
  /\ \A s \in Held, t \in Fresh : snd[s].nonce # snd[t].fresh

Leased == {snd[s].nonce : s \in Held} \union {snd[s].fresh : s \in Fresh}

(* "an unsent nonce has to be accounted for or it leaves a hole the chain  *)
(* will stall behind": below the counter every nonce is mined, in the pool *)
(* or leased, or else a re-read of the counter is due.                     *)
HolesKnown ==
  initialized /\ ~resetPending =>
    \A n \in latest..(pendingNonce - 1) : n \in InPool \/ n \in Leased

(* Until a transaction may have been left behind in the pool (its answer   *)
(* or receipt is lost, the CLI sends, a token is reaped, the process       *)
(* restarts, a blob transaction is replaced), a transaction is sent only   *)
(* while the other subpool is free of the key's transactions.              *)
NoCrossClassSend ==
  ~disturbed => \A s \in Senders : snd[s].pc \in {"build", "resend"} => pool[Other(ClassOf(s))] = {}

(* No more replacements of a nonce are counted than are allowed, although  *)
(* the count is read before, and written after, other steps.               *)
BumpBudget == bumpAttempts <= MaxBumps

(* Every slot is given back on every path, or evicted. *)
SlotsReturned == \A s \in Senders, c \in Class : s \in inflight[c] ~> s \notin inflight[c]
=============================================================================
