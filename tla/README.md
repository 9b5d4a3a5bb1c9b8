# Verification of the LightChain worker

TLA+ models, TLC runs and TLAPS proofs of the LightChain worker (Go). The
models follow the code under `src/`; `PROJECT.json` maps every definition to
the lines it stands for, and lists the runs, their mutants, the hazards, the
findings and the theorems.

## 1. The system

The worker is a sidecar process and an operator CLI that share one signing
key, one RPC node and one release state file.

| Part | State | Operations | Interacts with |
|---|---|---|---|
| Release store (`release/store.go`) | pending jobs with failures and backoff, reconcile cursor, last release time, next allowed attempt | `AddEligible`, `Remove`, `RecordFailure`, `Set/SeedReconcileBlock`, `SetLastReleaseTs`, `SetNextAllowedAttempt` | a JSON file under `flock`, shared by sidecar and CLI |
| Scheduler (`release/scheduler.go`) | locals of one cycle | `tick`, `RunOnce`, `runReleaseCycle`, `partition`, `perJobFallback` | store, chain client |
| Reconciler (`release/reconciler.go`) | locals of one pass | `Run` | store, event log |
| Tracker (`release/tracker.go`) | none | `MarkEligible` | pipeline, store |
| Chain client (`chain/client.go`) | memoized dispute window | prepare, broadcast and wait for transactions; reads; event filters | nonce manager, subpool coordinator, RPC node |
| Nonce manager (`chain/nonce.go`) | local counter, leases, deferred reset | `NextNonce`, `ReleaseNonce`, `ResetNonce` | every sender of the key |
| Subpool coordinator (`chain/subpool_coordinator.go`) | tokens in flight per class, notify channel | `Enter`, `Done`, janitor, `Seed` | legacy and blob senders |
| Stuck-nonce tracker (`chain/stuck_nonce.go`) | rejections per nonce, bump budget | `Record`, `IncrementBumpAttemptsFor`, `Clear` | legacy and blob senders |
| Blob submitter (`blob/blob_tx.go`) | locals of one submission | `SubmitBlobTx`, replacement | coordinator, nonce manager, tracker |
| Job pipeline (`pipeline/handler.go`, `checkpoint.go`, `deadline.go`) | locals of an attempt, a checkpoint per job in Redis | the stages of a job, resume after a retry, error report | chain client, blob submitter, model, publisher, tracker |
| Watchers (`sortition/*`) | two cursor files, pending requests, retry counters | poll events, claim sessions, hand jobs over | chain client, pipeline |
| Token stream (`pipeline/stream.go`, `gateway/stream.go`) | batches per kind, frame number, frame queue, socket | add, flush, publish, reconnect | model client, pipeline, consumer |
| Session keys (`keystore/session_store.go`, `pipeline/handler.go`) | keys in memory, encrypted file, one shared fetch | look up, fetch, refresh, store, zero | pipeline, chain, shutdown |
| Heartbeat and drain (`heartbeat/monitor.go`, `cli/drain.go`) | heartbeat key and drain marker in Redis | emit, mark, drain, undrain, expiry | dispatcher |
| Gateway job stream (`gateway/websocket.go`) | connection, handlers | connect, deliver, reconnect | gateway, pipeline |
| Service (`service/service.go`) | mode, subsystems | start, run, shutdown | everything |
| Registration, other CLI commands | none that outlives a call | register, stake, watch | contracts |
| Model, voice and search clients, configuration, metrics | none that outlives a request | HTTP calls, parsing, counters | pipeline |

What is hard here:

* **Two processes, one file.** Sidecar and CLI run cycles and reconcile passes
  at the same time; each store call is atomic, a cycle is not.
* **Decisions age.** A job is dropped or released because of a state read, or
  a receipt got, several calls earlier.
* **Transactions outlive their callers.** A wait times out, the transaction is
  mined later; the retry meets a job that is already released.
* **The cursor is a promise.** Behind it the reconciler never looks again, so
  it must never pass an event that is not stored: not after a failed read, a
  crash, a concurrent pass, a replaced block, or a seed at registration.
* **Errors are classified.** A pause must not be blamed on the jobs, a failure
  that repeats must not be retried, a broken answer must not be settled.
* **One job, several attempts.** asynq retries, the watcher serves a block
  again, the gateway delivers twice; the attempts overlap and meet only in a
  checkpoint that each of them reads once.
* **The acknowledgement races the answer.** With overlap the model runs while
  the acknowledgement is in the pool.
* **Memory and disk.** A cursor survives a restart, the requests found behind it
  do not; a session key is cached, persisted, rotated and zeroed.
* **Best effort has to be visible.** Frames may be lost, and the consumer must
  be able to tell.

Correctness per part: the store and its users forget no fee and drop nothing
that is owed; every fee is collected in the end; backoffs are honoured; the
nonce manager never hands out one nonce twice; the coordinator never lets both
classes be in flight and wakes every waiter; the pipeline shows no answer before
the acknowledgement is confirmed, and commits to the answer it has shown; the
watchers lose no job and no request; a consumer can tell a complete stream from
one with gaps; a shutdown takes nothing from the jobs it waits for, and ends.

## 2. Plan

1. Settlement: `JobRegistry`, `ReleaseStore`, `Scheduler`, `Reconciler`,
   composed in `Settlement`; abstract specification `SettlementLedger`;
   proofs in `SettlementProofs`. **Done.**
2. Transactions: `TxPool`, `NonceManager`, `SubpoolCoordinator`,
   `StuckNonceTracker`, composed with legacy and blob senders in `TxSubmit`;
   proofs in `TxSubmitProofs`. **Done.**
3. Pipeline: `CheckpointStore`, `DeadlineGuard`, composed in `JobPipeline`;
   proofs in `JobPipelineProofs`. **Done.**
4. Intake: `CursorStore`, `SessionManager`, `SessionWatcher`, `JobWatcher`,
   composed in `Intake`; proofs in `IntakeProofs`. **Done.**
5. Stream: `FramePublisher`, composed with jobs in `TokenStream`; proofs in
   `TokenStreamProofs`. **Done.**
6. Lifecycle: `SessionKeyStore`, `SessionKeys`, `Presence`, composed in
   `Lifecycle`; proofs in `LifecycleProofs`. **Done.**
7. Left: an abstract specification of the pipeline (a job is answered, then
   committed to, once) shown to be implemented by it; a settlement run with a
   lagging RPC node.

Every safety property of the passing runs is also a theorem, for every value of
the constants. The liveness properties are checked by TLC only: they rest on
fairness, which is out of the prover's reach.

## 3. Settlement

### Modules

* `JobRegistry` (external). Block height, job states, `JobCompleted` events,
  pause switch, dispute window, registration of the key. Block numbers and
  block timestamps are one clock. The last `ReorgDepth` blocks may be replaced;
  a `completeJob` in them is then mined again, in an earlier or a later block
  than before. A release is taken as final when its receipt is there, as the
  code does.
* `ReleaseStore`. One operation per method of `FileStore`. `withLock` takes a
  mutex and an `flock`, and `writeSnapshotLocked` replaces the file by rename,
  so a method is one step, and a method that fails leaves the snapshot as it
  was. `CompletedAt` is left out: no decision reads it (`StaleDisputeWarnAfter`
  only logs), the scheduler asks the contract.
* `Scheduler`. A cycler is a thread that runs cycles. Each chain call and each
  store call is a step; the three store reads of `tick` that follow each other
  without a decision (window, `Pending`, `LastReleaseTs`) are one. Jobs are
  handled in id order, as `Pending` sorts them. A release transaction can be
  refused when gas is estimated, at the broadcast, or in its receipt, or be
  left behind in the pool (`late`).
* `Reconciler`. A scanner is a thread that runs passes; chunk, event loop,
  remembered read error and cursor are those of `Run`. A scanner starts passes
  at any time, which covers the startup pass, the ticker and the CLI.
* `Settlement`. Composes them with the tracker, `release`, `register`,
  `deregister`, removal of the state file, and crashes of the sidecar and of
  the commands.
* `SettlementLedger`. What the loop promises: fees are earned and settled, jobs
  are learned and forgotten, events are passed; a job is forgotten only when
  nothing is owed on it, an event is passed only when its job is known or
  settled.

### Runs

| Run | Question | Constants |
|---|---|---|
| `processes` | is a fee ever forgotten or dropped with sidecar and CLI on one store, does the loop implement the ledger? | 1 job, ticker and CLI, blocks 0-2, faults throughout, late transactions, reorganisations of depth 1 |
| `batch` | are the gate of a pause and the backoff of a job honoured? | 2 jobs, batches of 2, pauses and faults, no scanner |
| `operator` | is the seed of `register` safe for used keys and existing cursors, do two reconcilers lose an event? | 1 job, 2 scanners with chunks of 2 blocks, blocks 1-5, deregistration, state file removed, reorganisations of depth 2 |
| `liveness` | is every fee collected after crashes, failing calls, late transactions and pauses? | 1 job, ticker and scanner, faults and pauses before block 3 |

Bounds. `MaxHead` bounds the chain; three or four blocks are enough for an
event to be confirmed, replaced, disputed and released, because the dispute
window and the confirmation depth are one block (`operator` has depth two, so
that an event can move to an earlier block, and five blocks). Two jobs are the smallest
batch that can fail for the sake of one. `MaxLate = 1` keeps one abandoned
transaction: a second would have to be for the same jobs. `FaultHorizon` and
`PauseHorizon` end faults and pauses, which the liveness properties need;
the safety runs set them to cover the steps in question. The threads run the
same code in sidecar and CLI, so a scanner or a cycler of either stands for both. Deadlock is not checked because the model
stops at `MaxHead`. In the liveness run `BatchThreshold` is 1, since a clock
that stops at `MaxHead` would never fire the time trigger again, and
`MaxBatchSize` exceeds the number of jobs, since jobs in their window would
otherwise keep the batch full for ever once the clock has stopped.

Fairness. The tickers of scheduler and reconciler fire for as long as the
process runs, so each thread is weakly fair; blocks, the end of a pause, the
end of a dispute and the fate of a transaction in the pool are the chain's. No
fairness is assumed of `MarkEligible`, of the CLI or of any fault: the process
may stop before it marks a job, and the reconciler must find it.

`PauseGateHonoured` and `JobBackoffHonoured` are stated for a store that one
cycler uses: `SetNextAllowedAttempt` and `RecordFailure` write unconditionally,
so with two cyclers one that read an older head moves a gate back.

### Proofs (`SettlementProofs`)

Assumptions: the named `ASSUME`s of the modules. The one that matters is
`ReorgDepth <= Confirmations`: the operator's confirmation depth is at least the
depth at which blocks are final; and `StartBlock <= Genesis + 1`: a configured
start block is not after the contract's first block.

`NoFeeForgotten` is not inductive: a scanner in the middle of a chunk carries
events it has read and not stored, a cycler carries a drop list, and `register`
carries a block. The inductive invariant `IInv` adds

* `EventsInv`, `StateInv`: events lie at or before the head, a job has an event
  exactly when it left `Acknowledged`, and every event follows the key's first
  transaction;
* `CursorInv`: the cursor is at least `Confirmations` behind the head;
* `CycleSafe(a)`: what a cycler is about to remove (its drop list, its batch
  after the receipt, the fallback's job) is settled;
* `ScanSafe(r)`: every event of the chunk up to `hi` is still in the scanner's
  hands, or stored or settled, or the pass has failed; everything between the
  cursor and the chunk was handled;
* `SeedInv`: no event lies at or before the block that `register` will store.

Two action formulas carry the argument. A *quiet* step adds no event and
removes only settled jobs; every step of a cycler and of a scanner is quiet or
moves the cursor. A *steady* step keeps confirmed events where they are and
settled jobs settled; every step of the chain is steady. Each thread's local
invariant survives the quiet and steady steps of all others, so one lemma per
thread and one per kind of step replace a case for each pair of actions.

`OnlySettledDropped` and `Refinement` follow from `IInv` by `NextLedger`, which
maps every step to a step of the ledger.

`PauseIsRespected` and `BackoffIsRespected` have the hypothesis that there is one
cycler, which is what the two properties are stated for (see above). Neither is
inductive: a cycle compares the gates with the time it read at its beginning, and
uses the answer several steps later. `GateInv` says of every step of a cycle that
the gate, and the backoffs of the jobs it still carries, are not after that time.
Only `RecordFailure` and `SetNextAllowedAttempt` close a gate, and only a cycler
calls them; every other step, of whichever thread, *eases* (the action formula
`Eases`), and easing keeps `GateInv`. The cycler's own two writes come when it no
longer carries the job, or when its cycle ends.

Proved for all values of the constants: `TypeCorrect`, `FeesRemembered`,
`OnlySettledDropped`, `Refinement`, `PauseIsRespected`, `BackoffIsRespected`. Only
model-checked: the liveness properties.

## 4. Transactions

### Modules

* `TxPool` (external). The mined nonce of the key and the nonces of its
  transactions in the two subpools. A send is accepted, refused because of its
  nonce, refused because the other subpool holds the sender, or fails in a way
  the worker cannot read. The blob pool accepts no gap, the legacy pool does.
* `NonceManager`, `SubpoolCoordinator`, `StuckNonceTracker`. One operation per
  method; each runs under its mutex and is one step. Of the coordinator's notify
  channels the model keeps who holds the one that will be closed next
  (`subscribed`): who is not in it any more finds its channel closed. A refusal
  count above the threshold is not told apart from the threshold.
* `TxSubmit`. A sender is a goroutine that submits one transaction after the
  other: a legacy one by `broadcastPreparedTx` and `PendingTx.Wait`, a blob one by
  `SubmitBlobTx`. Each call of the manager, the coordinator, the tracker and the
  node is a step, in the order of the code, deferred calls included: a legacy
  sender returns its lease after the broadcast and keeps its token until the
  receipt, a blob sender keeps both. The reset and the recorded refusal after a
  failed send follow each other without a decision and are one step. `Faults`
  selects what may go wrong: failures before the send, definite and ambiguous
  send errors, receipt timeouts, evictions, the worker CLI on the same key (it has
  a manager and a coordinator of its own), restarts with `Seed`, and broadcasts
  that outlive the janitor's patience.

### Runs

| Run | Question | Constants |
|---|---|---|
| `lanes` | do the classes mix, is a wake-up lost, is a nonce leased twice, is a hole forgotten, is a transaction sent into a reserved pool, does the bump budget hold? | 2 legacy senders, 1 blob sender, nonces 0-2, threshold 1, one bump; failures, rejections, timeouts, restarts, CLI |
| `slots` | is every slot given back? | 1 sender of each class; failures, rejections, lost answers, timeouts, evictions, CLI, janitor against live tokens |

Bounds. `MaxNonce` bounds the transactions of a run: three nonces are enough for
a hole below a lease below a new lease, which is what resets and hand-backs get
wrong. A deferred reset, a hand-back of the top nonce and one from below all
happen with two senders of a class. Each run has the faults its question needs:
all of them at once only multiply states. Deadlock is not checked since the
nonces run out.

Fairness (`slots`). A goroutine that has begun a submission runs on, and its
waits are bounded: `Enter` and the receipt wait end with a context that has a
deadline. Nothing is assumed of the node, of mining or of a new submission.

`NoCrossClassSend` is stated until a transaction of the key may be in the pool that
no sender awaits. The history variable `disturbed` records that: an answer was lost
and the transaction arrived, a receipt timed out while its transaction was pending,
the CLI sent one, a blob transaction was replaced, the janitor took the token of a
live broadcast, or the process restarted. After such a timeout the code releases the
slot of a transaction that is still pending; the comment at `SubmitBlobTx` documents
that trade-off. Refusals, failed builds, evictions and the timeouts of transactions
that were evicted do not disturb.

### Proofs (`TxSubmitProofs`)

Assumptions: the classes are disjoint and finite, and the constants have their
types. No bound on the senders, the nonces or the faults.

* `LanesHold`, `WaitersAreWoken`: `ClassExclusion` and `NoLostWakeup` together are
  inductive; a waiter of the current channel waits for a class that is not empty, and each
  operation that empties a class closes the channel.
* `NoSharedNonce`: `LeasesDistinct` is not inductive, because a reset or a
  hand-back could move the counter below a lease. `LeaseInv` adds that
  `outstanding` is the number of leases (a sender that resends has two), and
  that while there is one the counter is valid and above all of them. A reset is
  applied only at zero, where there is nothing to collide with; a nonce is handed
  back only from the top.
* `SubpoolsApart`: `NoCrossClassSend` follows from `ClassExclusion` and `PoolInv`:
  while nothing is disturbed, every transaction in the pool is awaited by a sender of
  its class that has its token. No fault is excluded by a hypothesis.
* `ReplacementsBounded`: `BumpBudget` is not inductive, because the decision for a
  replacement and its count are two steps. `BumpInv` adds that a sender that has
  decided still has an attempt left for its nonce; that nobody else uses it up
  follows from `LeaseInv`, the nonce is the sender's own.
* `NoUnknownHole`: `HolesKnown` holds under `AnswersKnown` (no ambiguous send error
  and no eviction: after either the worker cannot know whether the node has the
  nonce). `HoleInv` adds what a lease that will be returned as used promises: its
  nonce is mined or in the pool, or a reset is pending, which makes the counter be
  read again.
* `TypeCorrect`.

Only model-checked: `SlotsReturned`, a liveness property.

## 5. Pipeline

### Modules

* `CheckpointStore`. The Redis hash of one job. Every method is one Lua script
  or one `MULTI`, so it is one operator on the record; the time to live is
  "full", "short" (tombstone) or none.
* `DeadlineGuard`. The decisions of `deadline.go` over what a read of the
  on-chain deadline returns. A read that fails leaves every gate open, as in the
  code.
* `JobPipeline`. The attempts at one job. An attempt is a call of `HandleTask` or
  of `HandleJobPayload`; each step of `processJob` that calls the chain, Redis or
  the model is an action, with its error path, in the order of the code. A
  ciphertext is named by the attempt whose inference made it: an encryption never
  repeats. A blob hash is the ciphertext it was computed from. `snap` is the copy
  of the checkpoint that an attempt reads once and uses until its end. Where two
  calls follow each other and the outcome of a change in between is among the
  outcomes of the second (`HasJobAcknowledged`, then the send, then the
  reconciliation of its error), they are one action. Chain, keeper, expiry and
  crash are actions of their own.

### Runs

| Run | Question | Constants |
|---|---|---|
| `pipeline` | is an answer shown before the acknowledgement, a second one shown, a different one committed to, a job tracked that is not completed, a tombstone prolonged, a consumer left without a word? | 2 attempts, as retries and as overlapping deliveries, with and without Redis and overlap; acknowledgement window 1, completion window 2, settle reserve 1, one fault |
| `late_error` | does an error frame follow an answer? (finding) | the same, `HandleTask` with Redis, no fault |

Bounds. Two attempts are enough for each of the races: every decision of an
attempt depends on the shared record and the chain, and one other attempt can
bring each of them into any state it can have. The windows are the smallest with
which every gate of the guard both opens and closes. One fault is a failed Redis
call, an expired record or a crash; which one is counted separately, because
`CommittedIsDelivered`, `AnsweredOnce`, `NeverSilent` and `TombstoneStaysShort`
are stated for `lost = 0`: the code goes on without Redis by design
("best-effort"), and then each attempt has only its own ciphertext.
`AnswerAfterAck` and `SettledOnlyCompleted` hold with every fault. Deadlock is
not checked since attempts run out.

No liveness is stated: a job may fail for good in many legitimate ways, and
`NeverSilent` says what the consumer gets then, after a crash too. `AnsweredOnce`
also excepts crashes: between the publication and `MarkDelivered` a crash loses
the mark, and the retry publishes again.

### Proofs (`JobPipelineProofs`)

Assumptions: the named `ASSUME`s, which give the constants their types. Any number
of attempts, in turn or overlapping, any windows and reserves, any faults.

* `AckFirst`: `AckInv` adds what an attempt knows that has passed the join, or that
  sent no acknowledgement because it found one: the job is acknowledged.
* `OnlyCompletedSettled`: `SettledInv` adds the same of an attempt that is about to
  finish, however its transaction ended.
* `DeliveredIsCommitted`, `EndsAreSpoken`, `TombstonesExpireSoon`: one invariant,
  `CanonInv`, for a Redis that answers. The ciphertext in the checkpoint is
  canonical: the recorded hash, every final frame and the completion carry it; so
  does each attempt from the join on, and the hash in the copy it took (`snap`),
  however old the copy is, since the first ciphertext is never replaced. An
  attempt that nothing follows has spoken. Without a checkpoint store there is no
  tombstone.
* `AnswerOnce`: `OnceInv`. Retries run in turn, a delivery is marked or its mark is
  the next step of the attempt that runs, and the copy of an attempt that may still
  publish knows of an earlier delivery.
* `TypeCorrect`.

## 6. Intake

### Modules

* `SessionManager` (external). Head, session requests with the capabilities they
  ask for, `JobSubmitted` events. The sortition threshold widens with the blocks:
  after `ClaimWait` blocks a request admits this worker. `Unsteady` are the requests
  that another worker may claim, that may expire, or whose session may be closed and
  reopened; `Odd` those that may ask for capabilities or a key this worker lacks.
* `CursorStore`. One file per watcher, replaced by rename.
* `SessionWatcher`. `RunOnce`: look-back once per process with its bounded number
  of attempts, discovery chunk by chunk, evaluation request by request, with the
  early return when no slot is free. `pending` is lost in a crash, `sCursor` is not.
* `JobWatcher`. `runOnce`: chunks, events in order, `stopAndRetry`, the counter of
  passes that wait for an inactive session. The reads for one event are one step;
  a failed one stops the pass there. The goroutine that serves a job raises the
  job counter itself, so `started` jobs are not counted yet.
* `Intake`. Both watchers, the job goroutines, the chain and crashes.

### Runs

| Run | Question | Constants |
|---|---|---|
| `intake` | does a cursor pass a job or a request that still has to be served? | 1 request of every kind, 2 jobs, blocks 0-5, confirmations, look-back and claim wait of 1, chunks of 2, 2 faults, one slot, 2 passes for an inactive session, 2 look-back attempts |
| `serving` | is every job and every request reached in the end? | 2 requests in block 1, of which one may be lost or switched, 2 jobs, blocks 0-4, no confirmations (the default), claim wait 1, chunks of 2, 1 fault, one slot, 2 passes for an inactive session |

Bounds. Two jobs are the smallest number for which one can hold the slot while
the other waits at the cursor, or one can wedge the watcher ahead of the other.
Both runs have them: a session requested in block 1 is claimed at head 2, and
`intake` has two more blocks in which its jobs are submitted and confirmed, so that
a pass stops at the second of them for want of a slot, or in the middle of a chunk.
In `serving`, without confirmations, blocks 3 and 4 hold the two jobs, and the
second request is what waits: it is found at head 1 and not eligible before head 2, and
when the session of the first was claimed, a job of it may hold the slot before the
second is evaluated. The session of the first request may be switched off, and a job
of the second stands behind its job. `Lookback = 4` covers the whole chain there, so
that a restart excuses no job and no request from being reached; `intake`, with a
look-back of one block, is the run in which it does not. `Unsteady`, `Odd` and
`LastRequest` bound the variety of requests in `serving`, where the liveness check
is the limit; `intake` does not restrict them.
`MaxPerBlock = 1`: two jobs in one block with one slot are served
again and again from the start of their block (`stopAndRetry` goes back to the
block before), and that a later one of them gets a free slot depends on timing
the model does not have; the hazard is listed. A new pass starts only once the
goroutines of the last one have reached the counter: the poll interval is 30 s.
A job or request is submitted early enough to be confirmed before `MaxHead`.
`floor` and `jStart` are history: what a look-back does not reach and where a
fresh worker starts, which the properties except, as the documentation does.

Fairness. The tickers fire for as long as the process runs; goroutines are
scheduled; a job ends since every stage has a timeout; the chain grows. Faults
are bounded by `MaxFaults`, and no fairness is assumed of them, of the consumer or
of other workers.

### Proofs (`IntakeProofs`)

Assumptions: the named `ASSUME`s. Any number of requests and jobs, any number of
them in a block, any confirmations (0, the default, included: a new event is in the
block after the head, so a pass up to the head never passes it), look-back, chunk
size, slots and faults.

* `CursorPassesNoJob`: `JobInv` adds the state of a scan: it starts right behind the
  cursor, and each of its chunk's jobs that is ours is still to be handled or was
  handed on or refused. The cursor moves to the end of a chunk only when nothing is
  left of it, or to the block before a job that stops the pass.
* `OpenRequestsStay`: `KeptInv` adds that a session pass starts right behind the
  cursor, and that the look-back is tried a bounded number of times; a crash empties
  the pending set and asks for a new look-back, and `floor` is what it cannot reach.
* `TypeCorrect`.

Only model-checked: `EveryJobTaken` and `EveryRequestTried`, which are liveness
properties.

## 7. Stream

### Modules

* `FramePublisher`. The three publishers: Redis (at once), the gateway's HTTP
  endpoint (final answer only) and the WebSocket with its frame channel, dialling
  loop and pump.
* `TokenStream`. A job from the first delta to the final frame: NDJSON reader,
  one coalescer per kind, flush when the kind changes, the frame number they
  share, statistics, sources, audio header, sound and final audio frame, complete
  frame. A delta is its position in what the model has to say; a frame carries the
  positions of its deltas, so that order, loss and duplication can be seen.

### Run

| Run | Question | Constants |
|---|---|---|
| `stream` | can a consumer tell a complete stream from one with gaps, is the answer whole, is the final frame last, does it arrive? | 3 publishers, 1 job, up to 3 deltas of text and reasoning, batches of 2, queue of 2, one break, one lost frame, 1 sound frame |

Bounds. Three deltas with batches of two give a full batch, a partial batch and a
change of kind in every order; a queue of two is full while a third frame comes.
The numbers of two jobs are independent, and they meet only in the queue, where
a second job can do no more than fill it. `CompleteLast` excepts a complete
frame that was posted because the socket was down: it can overtake queued
chunks, which `GapVisible` shows to be harmless.

Scope. The model follows one attempt at a job, with streaming on. A retry builds a
new `chunkStreamer`, whose frame numbers start again at zero for the same job
(`handler.go:1255`, `stream.go:182-195`); which attempt's frames a consumer combines
is not in this model, and what it is shown as the answer is in `JobPipeline`. With no
streamer (streaming switched off, a client that cannot stream, a speech job,
`handler.go:1421`) no chunks are sent and the complete frame is all there is; of
these cases only the publisher without chunks is in the model (`Forwards`).

Fairness. A job goes on until it ends; `Run` dials until it succeeds and the
pump writes what is queued. Nothing is assumed of breaks and losses.

### Proofs (`TokenStreamProofs`)

Assumptions: the named `ASSUME`s. Any number of jobs, deltas, breaks and losses, any
batch and queue size, each of the publishers. The text of a script up to a position
(`TextOf`) is used as a function of the two only: the argument needs that the
answer is computed from the whole script, not which sequence it is.

None of the properties is inductive, since they are about frames that have arrived.
`StreamInv` is about all frames, arrived, queued and lost, and has these parts:

* `JobInv`: only the coalescer of the kind that came last is not empty, a batch
  rises, and from the statistics on all of them are flushed and the body was read
  to its end;
* `Line`: of two frames, arrived or queued, the earlier one may precede the later
  one (`Before`), so that a step of the pump has nothing to reorder;
* `FrameInv`, `PairInv`: a frame's number was given out, its deltas were read and lie
  before those that wait, numbers are used once and follow the order of the deltas;
* `CoverInv`: a text delta that was read waits in a batch or is in a frame.

`AnswersAreWhole`, `CompleteComesLast`, `GapsAreSeen` and `TypeCorrect` follow. For
the gap detection: the complete frame announces the numbers given out; if all of
them have arrived, `PairInv` says that the frames with these numbers are all frames
there are, and `CoverInv` that they hold all the text.

Only model-checked: `EveryAnswerArrives`, a liveness property.

## 8. Lifecycle

### Modules

* `SessionKeyStore`. Keys in memory, the file and the key it is encrypted under.
  `ZeroAll` overwrites that key with zero bytes, under which a later `StoreKey`
  would still encrypt.
* `SessionKeys`. Stages 3 and 4 of the pipeline: cache, single flight, fetch,
  store, decryption, refresh, against a consumer who rotates the key.
* `Presence`. Heartbeat key and drain marker in Redis, with their expiry.
* `Lifecycle`. `Run` in its three modes, delivery of jobs, the job stream of the
  gateway with its slots and reconnection, signal, `shutdown` step by step with
  both timeouts, exit, crash and restart. In direct mode asynq's `Server.Run`
  (external) traps the same signal and calls `Shutdown` itself; `closedBy` keeps
  whose call was the first, since only that one waits for the handlers.

### Run

| Run | Question | Constants |
|---|---|---|
| `lifecycle` | does a shutdown take a key from a job it waited for, does it end, does a stale key cost a job its prompt, are slots handed out twice, does a restarted worker come back? | 3 modes, 2 jobs of one session, 2 key versions, 2 slots, one drain command |

Bounds. Two jobs share a flight or race with their refreshes; two versions are
one rotation, and a job submitted before it and one after it. That a slow job
stores an older key over a newer one takes three versions, which the run does not
have; `OnlyRotationLosesPrompts` covers any number. Drain commands are bounded because an operator who drains for ever keeps the worker out by intent.

Fairness. The shutdown goroutine goes on and its timers fire, the heartbeat
ticks, the marker expires in Redis. Nothing is assumed of jobs: `ShutdownEnds`
holds with a job that hangs for ever. Deadlock is not checked: a
worker that is down and cannot open its key file stays down.

`CleanShutdown` is stated for shutdowns that wait for their jobs: in sortition mode,
and in direct mode when `shutdown` is the first to call asynq's `Shutdown`; and for
those in which no wait timed out. In direct mode asynq's own call comes first
whenever its processor stops before the drain marker is written; the call in
`shutdown` then returns at once, and keys are zeroed under the handlers that still
run. In gateway mode nothing waits for the handlers of the job stream. Both
behaviours are in the model; see section 10.

### Proofs (`LifecycleProofs`)

Assumptions: the named `ASSUME`s. Any number of jobs, slots, rotations and drain
commands, each of the modes.

* `ShutdownIsClean`: `CleanInv` adds why the keys are safe to zero: once the wait is
  over nothing runs and nothing is taken in, and until the keys are zeroed the file
  is written under the passphrase's key. asynq cannot close itself any more after
  the call of `shutdown`, so who was first does not change under the wait.
* `GatewayCountsSlots`: `SlotsInv` adds that no handler outlives its connection: the
  next one is dialled only when all of them have returned.
* `OnlyRotationLosesPrompts`: `RotationInv` says per job that the key it tries after
  the refresh is at least as new as the one of its prompt, whatever older key
  another job stores meanwhile: the refresh reads the chain and not the cache.
* `TypeCorrect`, with the fact that the leader of a shared fetch is at work on it.

Only model-checked: `ShutdownEnds` and `ComesBack`, which are liveness properties.

## 9. What is left out

* Store identity and schema checks: they only refuse to open a file.
* The foreign-worker branches of `partition` and `Run`: one consistent RPC node
  is assumed, for which a job in the store is the worker's own.
* `Dispute window override`: a constant window is the case `Windows = {w}`.
* A release transaction that is removed again by a reorganisation.
* The 64-bit wrap of `computeBackoff`: the cap is modelled, the numbers are small.
* Fees, payloads and signatures of transactions, and the ceiling of the bump
  number, which only refuses an attempt.
* A write of a cursor file that fails: the code ends the pass, and the next one
  scans the same blocks again, as after a failed read.
* Reorganisations deeper than the confirmations of the watchers: there is no code
  for them.
* Prompts, history, search results, model options and audio bytes: they are data
  that no decision of the control flow depends on except by failing.
* `RemoveKey` and `PollJob`, which nothing calls.
* The registration manager (a sequence of single reads and transactions at start;
  its effect on the cursor is in `Settlement`), the CLI's watch, init and preflight
  commands, the search client, configuration and metrics: no state that outlives a
  call, and nothing that runs concurrently with them changes their outcome in a
  way the code handles. The configured values are the `CONSTANTS`.

## 10. Findings

`late_error` is the finding with a run. `reportFailure` decides from the error of
the attempt that failed, and the mark that an answer was delivered is attached
only when the same attempt passed stage 7. A retry that fails before (at pickup,
at the acknowledgement, while it reads the checkpoint) therefore sends an error
frame after the answer of the attempt before it; `handler.go:738-740` says that it
"stays silent when the answer was already delivered".

Further disagreements between code and text, met while modelling, without a run:

* `broadcastPreparedTx` sets no gas limit, so the contract binding estimates gas
  while it builds the transaction; a paused contract refuses the call there, the
  error is not classified as a pause, and every job of the batch gets a recorded
  failure. `release/config.go` says that a pause does not increment `fail_count`.
* `resendWithFreshNonce` resets the nonce manager while its caller holds a lease,
  which defers the reset, so the resend takes the next number of the stale
  counter. Its comment says that it re-seeds the manager.
* When the send of the resend fails, its nonce is handed back whatever the error;
  the comment in the caller says that after an ambiguous failure a nonce has to be
  treated as spent.
* `Seed` takes every pending transaction for a blob, so a blob sender is admitted
  while a legacy transaction of the previous process is pending; two comments say
  that cross-class broadcasts are blocked.
* A failed `GetJobState` in `perJobFallback` is recorded as a failure of the job
  (`scheduler.go:447`), where `store.go:120-122` speaks of `ReleaseJob` failures.
* `AddEligible` keeps an existing entry (`store.go:418`), so the reconciler does
  not overwrite the wall-clock `CompletedAt` as `store.go:41-43` says.
* After a hole the counter is read again and walks into nonces that are queued in
  the legacy pool (`nonce.go:79`), where `nonce.go:17-19` promises no collisions.
* `job_watcher.go:181-183` says that serving a job that is done again is
  idempotent. Without Redis, or once the tombstone has expired, it runs the model
  again and may show a different answer than the committed one.
* `voice.go:409-411` says that the acknowledgement has landed when voice output
  runs, since stage 1b joins it before inference; with overlap it is joined after
  both.
* `checkPickup` abandons a retry with too little time for inference although the
  checkpoint has the ciphertext and no inference is needed.
* In direct mode `shutdown` does not always wait for asynq's handlers.
  `service.go:1002` starts asynq with `Server.Run`, which traps SIGTERM and SIGINT and
  calls `Shutdown` on its own goroutine; when that call is the first, the one at
  `service.go:1324` finds the server closed and returns at once. `ZeroAll` then runs
  under live handlers, without any timeout, and a `StoreKey` after it writes the file
  under the zeroed key. The comments say "BEFORE asynq.Shutdown waits for in-flight
  jobs" (`service.go:1025`) and "waits for in-flight jobs" (`service.go:1322`). asynq's
  source is not in the repository; this is how version 0.26, the one in `go.mod`,
  behaves. Starting asynq with `Start` instead of `Run` would keep the wait.
* In gateway mode `shutdown` zeroes the session keys while handlers of the job
  stream run. A `StoreKey` after that writes the file under the zeroed key, which
  the next start cannot open; `session_store.go:23-24` says that the keys persist
  across restarts.
