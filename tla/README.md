# RabiRoute: TLA+ models and proofs

RabiRoute is a self-hosted message gateway and policy router for AI agents, a Node/TypeScript
program. A Host starts the Manager; the Manager runs a plugin kernel, owns routing and business
state, serves the WebGUI and starts one Gateway process per Route; plugins connect chat endpoints
on one side and Agent programs on the other. Phones, desktops and a relay are its clients.

This directory models the parts of the Manager that have to stay correct across processes, crashes,
timeouts and lost answers. Paths below are relative to the repository; `PROJECT.json` maps every
definition to the lines it translates.

1. [Inventory](#1-inventory) · 2. [Plan](#2-plan) · 3. [Modules](#3-modules-and-the-code) ·
4. [Runs](#4-runs) · 5. [Fairness](#5-fairness) · 6. [Proofs](#6-proofs) ·
7. [Disagreements found](#7-disagreements-with-the-documentation) ·
8. [Abstractions](#8-abstractions) · 9. [Not modelled](#9-not-modelled)

## 1. Inventory

The components that keep state of their own and interact with something that can fail. The rest
(rendering, adapters, clients, configuration) is listed in `PROJECT.json` with the reason it is left
out.

| Component | State | Operations | What is hard | What makes it correct |
|---|---|---|---|---|
| File lock (`src/shared/filePersistence.ts`) | one lock file per protected path, its mtime and owner record | acquire, reclaim a stale lock, release | several processes, a decision made on an earlier stat or read, crashes, Windows open errors | sections exclude each other, an owner loses its lock only for a known cause, acquire returns |
| Durable delivery (`src/manager/durableDeliveryIdempotency.ts`) | one receipt per delivery id: sending, uncertain or completed; owner, lease | execute, claim, heartbeat, settle, mark, release, reconcile | a crash between the effect and the receipt, an expired lease of a process that still runs, lost answers | the effect happens at most once, a completed receipt is true and final |
| Process leases (`src/runtime/processLeaseRegistry.ts`) | children by owner and key, stop attempts, closed owners | launch, complete, drain, terminate, dispose, release | stop attempts that time out, launches during a drain, exits at any time | no child is lost, exclusive children do not overlap, disposal is final |
| Storage mutation pool (`src/manager/managerStorageMutationPool.ts`, `…Child.ts`, `…Admission.ts`) | queue, active mutation, child, block on an unconfirmed kill | execute, abort, revoke, drain, terminate, stop, admission | a child that does not die, a timeout racing the answer, an authority revoked in flight | one writer, refused means unwritten, every caller is answered |
| Agent requests (`src/agentRequests/state.ts`, `endpointDelivery.ts`) | requests and their endpoint deliveries, in one file kept by a worker | prepare, bind, mark dispatching, commit, abort, reconcile, cancel | a crash or failed save between the transport and the store; lost, late and repeated answers | a prompt is sent once, a request has one answer, store and transport agree |
| Transport ledger (`endpointTransportReceipts.ts`, `endpointExecution.ts`) | one evidence file per delivery | open an attempt, write the prompt, prove, receipt | dispatches repeated or out of order, a crash around the prompt | at most one prompt crosses, evidence is true |
| Route catalog transaction (`src/manager/routeCatalogTransaction.ts`, `routeCatalogDurableTransaction.ts`) | undo journal, configuration files, receipts | begin, mutate, commit, recover | a crash between any two file writes | all files or none, a committed change survives |
| Route catalog lifecycle (`src/manager/routeCatalogStartupLifecycle.ts`) | queue, attempt, retry timer, applications | enqueue, attempt, cancel, retry, apply, stop | deadlines after the commit, retries of what was done, a child that does not die | callers are told the truth |
| Gateway activation (`src/manager/gatewayRouteActivationOwner.ts`, `gatewayRouteSnapshotSupervisor.ts`, `src/runtime/gatewayRouteSnapshotReceiver.ts`, `managerGatewayRuntimeService.ts`) | definition, child, pending operation, receipts, applied revision | prepare, resolve, apply, acknowledge, time out, restart | late or lost acknowledgements over pipes, a child that exits in between | both ends agree, receipts are true, a due restart happens |
| Codex thread creation (`src/codexThreadCreationReservations.ts`) | one reservation file per creation key | reserve, create, name, complete, take over | two callers taking over the same stale reservation | one thread per key |
| Plugin generations (`src/plugin-kernel/generationRuntime.ts`) | active, candidate and retiring generations | switch, initialise, roll back, retire | background initialisation, unconfirmed retirement | one active generation, nothing retired is used |
| Read worker pool (`src/manager/managerReadWorkerPool.ts`) | slots, shared reads, a limit across pools | read, share, terminate | the mutation pool's, with several slots | limits hold, reads end |
| Message board (`src/messageProcessing/`) | requirements and their workers | add, assign, finish, expire | deduplication windows, retention | nothing is processed twice or forgotten |
| Failure circuit (`src/runtime/failureCircuit.ts`) | failures per key, back-off | fail, succeed, probe | counters and time limits | back-off is bounded and resets |
| Plan leases (`src/plan-storage/internal/lease.ts`) | a lock file, a fence file and a heartbeat per plan | acquire, renew, reclaim, release | an owner that wakes up after its lease ran out, fences that age | one writer per plan, at most one success |
| Instance lock (`src/managerInstanceLock.ts`) | one socket or kernel lock | acquire, take over | takeover of a stale owner | one Manager |

How they interact. The file lock protects the conversation, context, history, identity, upload,
LAN and Agent request stores, and the receipts of durable delivery (their *mutation lock*). Durable
delivery is called by agent send, and by the storage mutation child, which keeps one receipt per
idempotency key. The storage mutation pool owns its child processes; plugin executors, the wearable
companion and the video plugin launch theirs through the lease registry, which the Manager disposes
at shutdown. A saved Route goes through the catalog's child to disk, is applied by the activation
owner, and reaches its Gateway over the child's pipes or by a restart. An Agent's request goes through
the request store to the execution owner of its target, whose ledger is the evidence a later
reconciliation asks for. The hazards in `PROJECT.json` name, for each of these, the line where an order
nobody tested would hurt, and the properties that cover it.

## 2. Plan

Done, in order of how much depends on them:

1. `FileLock`: everything else that is persisted rests on it.
2. `DurableDelivery`: the at-most-once promise to the outside world.
3. `ProcessLeases`: no child process is lost.
4. `StorageMutationPool`: the single writer of role storage, with its child and admission.
5. `EndpointLedger`, and `AgentRequests` composed with it and shown to implement it.
6. `RouteCatalogFiles`, `RouteCatalog` around it, and `AtomicCatalog`, which they implement.
7. `GatewayActivation`: runtime service, activation owner, supervisor and receiver over two pipes.
8. `ThreadReservations`: creation keys with callers that take over.
9. `Generations`: the plugin generation runtime.
10. `PlanLease`: the lease of a plan's storage.

Left, with the line that makes each worth it:

- `ReadPool`: a read child that survives SIGKILL keeps its place in the pool and in the limit across
  pools (`src/manager/managerReadWorkerPool.ts:892`); a variation of `StorageMutationPool`.
- The failure circuit's counters and back-off (`src/runtime/failureCircuit.ts:120`), the socket takeover
  of the instance lock (`src/managerInstanceLock.ts:152`), the requirement life cycle of the message
  board and the requests of the message agent pool.
- `DurableDelivery` over `FileLock`: the mutation lock's sections as the steps they are assumed to be
  (`src/manager/durableDeliveryIdempotency.ts:480`).

## 3. Modules and the code

Each `X.tla` is a component, `MCX.tla` its instances, `XProofs.tla` its theorems; `ProcessProofs` has those
of `ProcessLeases` and `StorageMutationPool`, the two components that keep child processes, and `FileProofs`
those of `FileLock` and `ThreadReservations`, the two protocols on a single file. What two modules read
together both have goes under two names: `lockFile`, `at`, `LockSpec` are the lock's.

### FileLock (`src/shared/filePersistence.ts`)

One lock path, one step per system call, because every decision of this code is made on the answer
of an earlier call. `file` is the file at the path: a version, named by the call that created it and
whether its record is written. `stale` holds the versions whose mtime is older than `staleMs`;
`seen[c]` is the version that call `c` saw at the first stat of its reclaim; `alive` the live
processes; `denied` whether the file system refuses to create the file (EPERM). A call goes through

    open -> write -> held -> relread -> relunlink -> done
    open -> stat -> read -> recheck -> unlink -> open        (reclaimStaleFileLock)
    open -> stat -> ... -> deadline -> open | timedout

| Actions | Code |
|---|---|
| `Start`, `OpenCreates`, `OpenExists`, `OpenDenied`, `Write`, `WriteFails`, `WaitMore`, `TimeOut` | `acquireFileLockSync` |
| `Stat`, `ReadRecord`, `Recheck`, `Unlink` | `reclaimStaleFileLock`; `SameHostProcessAlive` is its pid test |
| `Finish`, `ReleaseRead`, `ReleaseUnlink` | `withFileLockSync`'s body and `releaseOwnedFileLock` |
| `Age`, `Crash`, `Heal` | the clock, the processes and the directory |

Atomic replacement of a file (temporary file, rename) is one rename and is not modelled.

### DurableDelivery (`src/manager/durableDeliveryIdempotency.ts`)

One delivery id. `receipt` is its file (`NoReceipt`, `Blank` between creation and content, or a
record of state, digest and owner), `expired` its lease, `current` whether the receipt is still the
one a reconciler looked at. An execution `e` has options `opt[e]` (payload digest, whether there is a
`recover` callback, and `recoverExistingUncertain`), a `mode`, and `wire[e]`, the fate of what it sent: on the net, landed or lost. `effects[d]` counts how often the target acted on payload `d`.
A step is the code between two awaits, or one section under the mutation lock.

| Actions | Code |
|---|---|
| `Begin`, `ReserveCreates`, `Fill`, `FillFails`, `ReserveExists`, `ReadExisting`, `WaitForTerminal` | `executeDurableDelivery` up to the claim, `reserveReceipt` |
| `ClaimSucceeds`, `ClaimRefused`, `ClaimFails` | `claimReceipt` |
| `HeartbeatStarts`, `HeartbeatFails`, `LeaseExpires` | the lease and its renewal worker |
| `Send`, `DeliverReturns`, `DeliverRejected`, `DeliverThrows`, `RecoverProves`, `RecoverRetries`, `RecoverCannotTell` | delivery, and recovery after a throw |
| `Settle`, `SettleRejected`, `SettleFails`, `Mark`, `MarkFails`, `Release`, `ReleaseFails`, `AuthorityThrows` | the ends of an execution |
| `ReconcileView`, `ReconcileSnapshot`, `ReconcileVerifies`, `ReconcileGivesUp`, `ReconcileCommit` | `reconcileDurableDelivery` |
| `Lands`, `IsLost`, `Crash` | the target and the processes (external) |

### ProcessLeases (`src/runtime/processLeaseRegistry.ts`)

`proc[l]` is the child of launch `l`, `registered` the registry, `stop[l]` the stop attempt on it
(none, before or after its graceful deadline, or resolved; its step is `StopEach`), `told` the children that were asked to end, `quiescing` and `stoppingAll` the
closed doors, `call[c]` and `waits[c]` the pending calls and the leases they await. `Launch` has the
code's five guards, in `CanLaunch`. A stop attempt has two deadlines and may fail; it is shared by the
calls that meet it and retried by later ones. `Trees` are the leases whose whole process tree is
killed, `Unkillable` the children that survive everything, which only a failed attempt reveals.

### StorageMutationPool (`src/manager/managerStorageMutationPool.ts`, `…Child.ts`, `…Admission.ts`)

The pool (`queue`, `active`, `cause`, `admission`, `child`, `flight`, `blocked`, `accepting`,
`stopped`, `stopping`, `due`), its children (`alive`, `job`, `step`, `committed`) and one message slot
in each direction of the pipe. A step of the pool is one callback with the promise continuations it
triggers; a `drain()` queued as a microtask is a step of its own. `outcome[m]` is what the caller of
`execute()` was told, `native` the mutations whose native work is not released
(`nativeStorageWork.ts`), `admitted` the ones let through at commit admission. The domain write is the one
step `Commit`.

### EndpointLedger and AgentRequests (`src/agentRequests/`)

`EndpointLedger` is the execution owner: `ledger[d]` the durable file of delivery `d`, `exec[d]` its
running execution, `frames[d]` the prompts that crossed to the native target, `accepted` what the target
has in its log, `torn` a temporary file left by a crash. Dispatches reach it in any order, at any time
and repeatedly.

`AgentRequests` adds the Manager: the store (`state.ts` behind `store.ts`), whose file and two copies are
one pair of variables because the copies only ever hold what the worker committed, the send workflow,
the reconciliation and the recovery of `endpointDelivery.ts`. A store mutation is one step; a workflow is
many with awaits between them, and what it remembers is lost at `Stop`. A commit of unknown outcome
(`AGENT_REQUEST_COMMIT_UNKNOWN`) fences the store until a restart: the mutation, or its absence, followed
by `Stop`. Content hashes are left out. `Settings` chooses the surroundings: which requests come from a
connection, whether the recovery runs, whether the transport repeats dispatches. The Manager builds the
recovery and does not start it in production, so no liveness is claimed.

| Actions | Code |
|---|---|
| `Prepare`, `Bind`, `PreparationFails`, `Abort`, `AbortFails`, `ResumePrepared` | the send workflow before its dispatch |
| `MarkDispatching`, `Dispatch`, `DispatchNotSent`, `DispatchAnswered`, `DispatchEnds`, `DispatchCommits`, `DispatchReturns` | the dispatch and its outcome |
| `ReconcileStart`, `ReconcileAnswered`, `ReconcileEnds`, `ReconcileCommits`, `ReconcileReturns` | reconciliation, with and without the right to reset |
| `RecordResponse`, `CancelDelivery`, `Cancel`, `Stop`, `Start` | answers, cancellations, restarts |
| `Arrive`, `OwnerStep` | the transport and the steps of `EndpointLedger` |

### RouteCatalogFiles, RouteCatalog and AtomicCatalog (`src/manager/routeCatalog*.ts`)

`RouteCatalogFiles` is one child process and its files: `disk`, the journal `pending` and the `receipt` of
each operationId, and where the child is. One step is one file-system call that changes something, so
that the child can fail or be killed between any two; `Torn` is a file that `writeFileSync` has truncated
and not written yet. `RouteCatalog` is the lifecycle around it: queue, active entry, attempt, deadline,
cancellation, the block after an unconfirmed kill, retries and their timers (`leaked` ones too, which
`this.retryTimer` no longer names), applications, stop and restart, and the saves of the role
configuration owner, which do not go through the queue.

`AtomicCatalog` is what callers are promised: a catalog changed by whole operations, each operationId at
most once and only on the catalog its caller expected. The mapping reads the catalog as what a recovery
would leave (`CatalogBar`): an operation takes effect when its receipt is written.

Assumptions: the child dies with a crashed Manager; the several bounded children of a plain capture are
one child; an unlink whose error the code swallows is one of the operation's outcomes;
`ensurePersonaPlanWorkflow`, which writes outside the journal, is left out of the atomic promise.
A retry timer is a handle in `this.retryTimer`. `Leak` says what overwriting it means: the timer stays
armed (`leaked`), and the history variable `astray` remembers the operationId it was armed for.
`AbsenceIsFinal`, a part of `AnswersAreTrue`, excludes such operations; `AbsenceReportedIsFinal`, what the
code's comment says, does not, and is the disagreement of section 7.
`RoleSaveKept` (a role's save survives a rollback) and `BlockedOnlyWhileOpen` (a save is refused as blocked
only while the child is open) are what two documents say. TLC refutes both, and section 7 says why.

### ThreadReservations (`src/codexThreadCreationReservations.ts`)

The file of one key, of one of four kinds: a title in a workspace, a replacement, a caller's intent, such
an intent on a host that can be asked. `pc`, `snap` and `cur` are the calls, `native` what the owner of
the tasks got of their requests. There is one Manager, so that what lies between two awaits is one step;
a crash ends every call. The state `thread_created` also stands for the naming and the initial turn.
A reservation counts as stale only when its creator is gone, since `thread/start` gives up after 3
minutes and stale is 5. Conflicting intents under one key are left out. `NotStarted` is the path of
`CodexMetadataNotStartedError`.

### GatewayActivation (`src/manager/gateway*.ts`, `src/runtime/gatewayRouteSnapshotReceiver.ts`)

One enabled Route. `desired`, `needsRestart`, `proc`, `ready`, `gen` are the runtime service's,
`sups[g]` the supervisor of child `g`, `gw` the receiver in the child, `toGw` and `toManager` the pipes,
`prep` the running application of the catalog, `receipts` the owner's. A lost pipe is a failed write. Applications
come one after the other, as the owner requires; the behaviour of `catalog_absence` shows that the lifecycle
does not guarantee it. Failed starts and removed Routes are left out.

### Generations (`src/plugin-kernel/generationRuntime.ts`, `effectScope.ts`)

A *flight* initialises one component, an *activation* is a flight and an instance; `active` is the
published graph, `scopes` the effect scope of each activation, `owners` the unconfirmed retirements,
`queue` the mutation queue, `finishing` the publications whose startups and retirements are awaited. What
is enqueued runs alone and without a real await and is one step; plugin code runs in between, may hang,
and may end after it was given up. Preparation, activation and effect commit of a member are one step.
An expired shutdown timer changes the answer of `shutdown()` and nothing else. `Cancel`, `Begins`, `Retire`
and `Replaces` are the operations of `switchNow`, in its order: each takes flights, scopes and owners as the
one before left them. `Successor` is what `switchNow` puts in the place of one instance, `Withdrawn` what a
failed publication takes back, `Uncertain` the old activations that a rollback which throws leaves in doubt.

Two behaviours that hold no property back but are worth knowing: an update of a provider together with
a new consumer, in the background, leaves the provider's settled flight registered, its prepared
activation held until another switch or the shutdown; and superseding a plugin that is still
initialising fails the new flight at `assertRetirementConfirmed` until it is asked for again.

### PlanLease (`src/plan-storage/internal/lease.ts`)

One plan. A call publishes one candidate, so a call also names the inode of its lease. `lock` and `fence`
are the two paths, `held[c]` the inode call `c` has under its `.stale` name, `expired` and `fenceOld` the
clock, `hb[c]` the heartbeat worker with its renewal in three steps, `obs[c]` a call's snapshot, dropped
when the inode is renewed, which is all that comparing two snapshots can tell. `lapsed` and `fenceLost`
are the two causes the properties name.

    gate -> link -> (fence -> check -> rename -> renamed -> publish -> confirm -> reread -> unfence)
    beat -> starting -> enter.. -> working -> leaving.. -> stopping
    release -> fence -> check -> rename -> renamed -> discard | putBack -> unfence

`Faulty` calls may be suspended past any deadline, fail or lose their process; the others only wait. What
the checks do not promise, and the run shows possible: a starting call's sweep removes the `.stale` inode
a reclaimer still checks, which makes that reclaimer fail; a release returns silently while somebody
else has the fence and leaves the lock file of a live process; a releaser that was overtaken by its own
late renewal renames its file back over a contender; and after a fence is lost, a suspended releaser
renames whatever lock it finds, and two calls may both succeed.

## 4. Runs

Several properties are conjunctions of named parts; the parts are in brackets.

| Run | Instance | Checks |
|---|---|---|
| `filelock` | two calls on one host, one on another, each with its process; Windows; crashes; 394,144 states | `MutexWithoutFaults`: without a crash, a failed record write or an owner suspended before its record, sections exclude however stale the lock looks. `DisplacementHasCause`: a live owner's file disappears only for one of four causes. `CallsReturn` |
| `delivery_local` | two executions and a reconciler in two processes of one host, two payloads; 1.6 million states | `AtMostOnce`, `CompletedIsTrue`, `CompletedIsFinal` |
| `delivery_hosts` | the same on two hosts, one payload, and a third process beside the first that only queries; 1.5 million states | `ExtraEffectNeedsPreemption`: only an execution that lost its lease while it ran can add an effect. `InProgressHasCause`: a receipt reads as in progress only while its call runs, under its lease or in a live local process, or threw in one, or until a lease of another host expires |
| `leases` | three launches, two owners, one child each, a drain, a terminateOwner, a terminate, a disposeAll | `ChildrenAreHeld` (`NoOrphan`, `ExclusiveProcess`, `ChildLimit`, `DisposedForGood`), `OwnerIsQuiet`, `CallsReturn`, `DisposalReclaims` |
| `storage` | one mutation with an authority and one without, queue of one, two children | `SingleWriter` (`OneWriter`, `StoppedIsQuiet`), `AdmissionDecides` (`CommitWasAdmitted`, `RefusedWritesNothing`), `AnswerIsFinal`, `Answered`: callers are answered and the pool is unblocked |
| `catalog` | capture, resolution, replacement and renaming upsert; two files, one role; two faults | `AnswersAreTrue` (`SavedIsCommitted`, `SnapshotIsCommitted`, `AbsenceIsFinal`), `CatalogIsAtomic` (the refinement of `AtomicCatalog`), `ConflictChangedNothing` |
| `catalog_absence` | capture, resolution and replacement; one file; five faults | the disagreement of section 7 about reported absence |
| `requests` | a request, a reply, a reply that asks back; every setting; one stop; 901,846 states | `AtMostOneFrame`, `OneAnswer`, `StoreAgreesWithOwner` (`PreparedIsUnsent`, `EvidenceCanSettle`), `CancelledReplyReleases`, `OrphanIsOnlyCancelled` |
| `threads` | five calls, three crashes, every kind of key; 300,868 states up to symmetry | `OneTaskPerIntent` (`IntentStartsOnce`, `CallersAgree`), `ExtraTaskHasCause`, `TaskIdKept` |
| `activation` | two mutations and a capture, three definitions, two children; 1.8 million states up to symmetry | `SupervisorFollowsGateway` (`InSync`, `NeverOutOfOrder`, `UnknownNeverApplies`), `ReceiptsAreTrue`, `RestartIsKept`, `LagHasCause` |
| `generations` | a provider with an exclusive worker and its consumer, seven scenarios, one fault; 258,043 states | `GraphIsConsistent` (`NoStaleReference`, `PublishedIsOpen`, `FailureIsPending`), `OneWorker`, `NoLostOwner`, `ShutdownIsQuiet`, `LossHasCause`, `Settles` |
| `planlease` | two calls on one host, one on another, one of them faulty; 753,556 states | `LeaseExcludes` (`SectionsExclude`, `SuccessWasAlone`), `DisplacementHasCause`, `LeakHasCause` |

Every property of a passing run has a mutant in `PROJECT.json`: a definition with a plausible bug
(a dropped guard, a missing fence, a forgotten kill) under which the run fails. The mutated forms
stand before the definitions they mutate, named for the bug, and nothing else uses them.

**What the causes are.** Where a promise one would like to make does not hold, the property lists the
causes instead, so that a further one would be a violation:

- `FileLock.DisplacementHasCause`. An owner suspended for `staleMs` between creating the lock file and
  writing its record is removed by mtime alone, though alive and local
  (`src/shared/filePersistence.ts:55`); release reads the record and unlinks the path in two calls, and a
  late reclaimer and a new owner fit between them (`:72`). `docs/dynamic-record-lifecycle_en.md:56` says
  that "a live local owner is never displaced merely because mtime exceeds 30 seconds" and that "release
  removes only its own token". The same line says that the wait "remains bounded": `CallsReturn` holds
  under `HealingSpec` only, since on Windows a lasting EPERM with no file at the path skips the deadline
  check for ever (`:110`).
- `InProgressHasCause`. For an owner on the same host `receiptExecutionActive` asks for its pid, and not for
  its lease (`src/manager/durableDeliveryIdempotency.ts:517`). A query therefore answers `in_progress` while a
  local execution runs on under an expired lease, and after an execution threw and left a `sending`
  receipt, as long as its process lives. `docs/rabi-agent-interfaces_en.md:1015` says that `in_progress` means
  "its execution lease remains active", and that "When the original execution has ended or its lease expired
  without a terminal result, read-only queries return `uncertain`". Both cases are causes of their own in the
  property. For an owner on another host only the lease can tell, and a call that threw or died
  there reads as in progress until the lease expires. A dead process of the same host never does.
- `ExtraTaskHasCause`. A task whose Manager died before it was named does not carry the title that
  `confirmMissing` looks for, and for a replacement it does not look (`src/agentThreads.ts:776`), so a title
  or replacement key may start a second task when a stale reservation is taken over;
  `docs/codex-desktop-agent-acceptance_en.md:67`: what cannot prove that `thread/start` was never called
  "must not create automatically again". On a remote key, a creator that fails after another call recovered its task overwrites
  `completed` with `uncertain`; the task's id is kept (`TaskIdKept`).
- `RestartIsKept` and `LagHasCause`. An application that clears `needsRestart` while the child is already
  exiting for an earlier restart (`src/manager/gatewayRouteActivationOwner.ts:113`) leaves the Gateway
  down until the next reconciliation, since the exit starts a child only for a restart that is still
  asked for (`src/manager/controlPlaneRoutes.ts:3058`); `RestartIsKept` leaves this case out (`revoked`). A
  Gateway lags behind its Route when an operation is applied again with a newer definition or after a
  rejection, and `LagHasCause` adds that the receipt then does not say applied; a resolution may install a
  newer definition too, without submitting it, and is not an application. A new child may have booted a
  revision whose receipt says rejected.
- `CancelledReplyReleases` is about plain replies: a cancelled reply that asks back keeps the request it
  answers reserved.
- `PlanLease`: a lease that ran out, a fence taken from a call behind it, a release overtaken by its own
  renewal, and a release that finds somebody else's fence.

**Bounds.** A lock needs three calls for its worst case, an owner, a reclaimer that decided on the
previous file and a third that creates between them. In `leases`, two launches compete for an exclusive
key across owners, a third is the same owner's next child and cannot be killed, and one lease is a
process tree, so that both kinds of stop attempt succeed and fail. In `storage`, the second mutation
waits behind the first or is refused by the full queue, and the second child replaces the first; a
larger safety instance with three mutations held as well. In `catalog`, the replacement touches both
files and the upsert removes one and writes the other, so that a kill has something to tear;
`MaxEvents` 2 allows a fault and one more during its repair. The requests `rem` and `ens` (a removal under
the replacement's operationId, and a persona with its role lock) are defined in `MCRouteCatalog` for a
second instance, `{res, rem, ens}`, which holds in 130,634 states. In `requests`, the limits of a setting
let one delivery be bound and dispatched twice while the others use the ids once. In `threads`, the
fifth caller is the first that can meet what two takeovers left. In `activation`, `MaxPrepares` 3 lets a
third application meet the leftovers of two. In `generations`, a scenario is a sequence of calls, each made at any
moment, and `MaxFaults` 1 puts one misbehaviour anywhere. In `planlease`, `FenceKept` ends a behaviour
at the loss of a fence, after which its three properties promise nothing; an instance with two faulty
calls of one host (10.3 million states) held as well. Calls, executions, launches and mutations
come from finite sets and each starts once. They all end, so the instances do stop, and
`CHECK_DEADLOCK FALSE` says so; that nothing waits for ever is stated by the liveness properties
instead, where the code promises it.

## 5. Fairness

- `FileLock`: weak fairness of every call's next system call, as the loop is synchronous and a live
  process keeps running; strong fairness of `TimeOut`, since every turn that reaches the deadline
  check has slept at least 10 ms and the clock passes the deadline. `HealingSpec` adds that a
  refused creation ends; without it `CallsReturn` fails (section 4). Crashes, ageing and
  the protected section's start have none; the section itself ends, which is the callers' duty.
- `ProcessLeases`: timers fire, settled promises run their continuations, Node reports exits, and a
  killable child that was told to end does. Nothing makes a child exit otherwise.
- `StorageMutationPool`: microtasks and timers run, delivered messages are handled, close events
  fire, and a child whose kill is unconfirmed ends some day. Nothing is assumed of the child's work:
  it may hang, fail or die at every step.
- `Generations`: the kernel's continuations run, and plugin code that the kernel awaits ends or the timer
  that bounds it fires. Nothing is assumed of plugin code that was given up.
- `DurableDelivery`, `AgentRequests`, `ThreadReservations` and `GatewayActivation` have no liveness
  property: they await targets, Agent programs and children that owe them no answer. `RouteCatalog` and
  `PlanLease` are checked for safety only.

## 6. Proofs

`tlapm` checks the eight proof modules without assumptions beyond the named `ASSUME`s of the
components, which type their constants and keep `None` and the like apart from what they stand for the
absence of. The theorems hold for any number of calls, processes, executions, digests, owners, launches,
limits, mutations, children, deliveries, requests, settings, definitions and applications. Every
inductive invariant named below was checked by TLC on the component's instance before it was proved.

**FileProofs, the lock.** `LockTypeCorrect`, and `LockExcludes`: `Spec => []MutexWithoutFaults`. Exclusion is not
inductive by itself, as nothing in it speaks of the reclaimer that is about to unlink. `LockInv` adds
that the file at the path is its owner's (`FileIsOwners`) and that a version somebody has seen belongs
to an owner that still holds it or is done (`SeenIsPast`): a reclaimer gets past its first read only
behind an owner that is done, and then its recheck finds another file, so nobody is ever at `unlink`.
`NoFaultStable` (a fault, once it happened, stays) makes the conditional form inductive.
`DisplacementIsExplained` (`Spec => DisplacementHasCause`) has no such condition. Its `ReclaimInv` follows
the version that a reclaimer carries from stat to unlink: a version that has left the path never comes
back, and a reclaimer past its first read acts on a stale version which, if it is still at the path with
its record, is of another host or of a process that died.

**DurableDeliveryProofs.**

| Theorem | States | Rests on |
|---|---|---|
| `DeliveryTypeCorrect` | `[]TypeOK` | itself |
| `ExtraEffectWasPreempted` | `[]ExtraEffectNeedsPreemption` | `OnceInv` |
| `EvidenceNeverLost` | `[]EvidenceKept` | `OnceInv` |
| `LocalOwnersKeepReceipts` | `[]NoLocalPreemption`: on one host nobody is preempted | types only: the pid test of `claimReceipt` |
| `DeliveredAtMostOnce` | `[]AtMostOnce` | the first and the last |
| `InProgressIsExplained` | `[]InProgressHasCause`, on any number of hosts | `ExecutingOwner` |
| `CompletedTruth` | `[]CompletedIsTrue` | `ProofBeforeCompletion` |
| `CompletedNeverOverwritten` | `CompletedIsFinal` | types only: each writer's own guard |

`OnceInv` holds on any number of hosts, as long as no running execution was preempted. `LiveOwners`: a
live execution past its reservation owns the receipt. `QuietBeforeSend`: whoever is about to send, or to
remove the receipt, does so while nothing was or is being sent. `SentUnderReceipt`: what was sent carries
the receipt's digest and is the only thing sent. `LiveOwners` is inductive alone; the other two need it
and each other. That the pid test refuses to take a receipt from a live local process, expired lease or
not, is `LocalOwnersKeepReceipts`, and gives the promise for one host. `ExecutingOwner`: the owner that a
receipt names executes, or its call threw; whether its process lives or its lease runs is then what
`ReceiptExecutionActive` looked at. It, and truth and finality of completed receipts, hold with preemptions
too.

**ProcessProofs, the leases.** `LeaseTypeCorrect`, `NeverOrphaned`, `ExclusiveNeverOverlap`, `LimitHolds`,
`DisposalIsFinal`, together `ChildrenHeld` (the run's `ChildrenAreHeld`), and `OwnerIsQuietOnReturn`, from
`RegistryInvariant`: `RegistryInv` (exclusive keys and
limits hold of *registered* leases, and what runs is registered) and `CallInv` (a call that closed an
owner's launches, or all, awaits everything registered there; a finished disposal left nothing).
The limit needs cardinality lemmas (`LimitKept`, `LimitShrinks`), hence `IsFiniteSet` in the invariant.

**ProcessProofs, the storage pool.** `OneWriterAtATime` (`[]SingleWriter`), `AdmissionIsDecisive`
(`[]AdmissionDecides`) and `AnswersAreFinal` (`AnswerIsFinal`), from `PoolInvariant`. `PoolInv` says: the
live child is the pool's child; what it works on or has in its channels is unreleased native work, and
the active mutation's if there is one (`ChildWork`); the queue holds distinct pending mutations, none
active and none admitted (`PendingWork`); admission is allowed exactly for an admitted active mutation, and
an aborted one is not admitted (`AdmissionWork`); a stopping pool accepts and queues nothing (`PoolWork`).
The point is the child that survives its kill: its mutation is answered, nothing is active, and it may
still write, which is why an answer of *unconfirmed termination* is final only when the native work is
released.

**RouteCatalogProofs.** `CatalogAnswersAreTrue` (`[]AnswersAreTrue`), `CatalogRefinement`
(`Spec => CatalogIsAtomic`: every step of the child, the lifecycle, the role owner and a crash is a step of
`AtomicCatalog` or leaves its catalog and its committed operations alone) and `RejectionChangedNothing`
(`ConflictChangedNothing`), from `CatalogInvariant`. It has two halves.

`FilesInv` is what recovery rests on. There is at most one journal, it is one of a readable catalog, and its
operation has no receipt or its own (`JournalInv`). A torn file is covered by a journal that is not committed
(`TornIsCovered`), so that what a recovery would leave is always a catalog. A child knows how far it is:
every file its mutation still has to do is as before or torn, every other as desired
(`MutationProgress`); what a recovery or a rollback has done is as in the backup (`RestoredBut`); and a child
that exits with a snapshot has left no journal behind (`AnswerInv`). The mapped catalog therefore changes
in one place, when the receipt is written: until then the backup hides what the mutation wrote, and after it
the files are what the operation asked for. A rollback or a recovery changes nothing that can be seen.

`LifeInv` is about the queue and what callers are told. `SavedInv`: a mutation whose snapshot is being
applied has its receipt. `FenceInv`, the long one: a resolution waits behind every mutation it asks about,
and from its first attempt on none of them can be started any more, from the queue, the active entry, the
running attempt, a timer or a leaked timer, unless it has committed. It holds only of operations whose
timers did not go astray, and this is how the disagreement of section 7 was found: the invariant without
that condition is not inductive, and the run shows the behaviour. `Advances` describes what all steps of
the lifecycle have in common, so that each action is shown to be one, and one lemma per part of the
invariant covers them all. `RouteCatalogAssumption` and `NoneAssumption` type the operations and keep `None`
apart from requests, ids, journals and answers; that two requests may share an operationId (a retry, or a
reuse) is not excluded.

**AgentRequestsProofs, the execution owner.** `LedgerSendsOnce` (`LedgerSpec => []AtMostOneFrame`) and `LedgerIsTruthful`, from an
invariant that relates the open attempt in the file, the running execution and the prompts that
crossed: a further attempt is opened only over a durable proof that the one before wrote nothing.

**AgentRequestsProofs, the store.** `RequestsInv` is `TypeOK`, `LedgerInv` (the ledger's invariant), `FlightsInv` (what
a workflow remembers, such as the receipt it is about to commit, is still true when it uses it) and
`StoreInv`: `CommittedWasAccepted`, `OneAnswer`, `DeliveredBeforeAnswered`, and that an answer is under way
only to a request that waits for one.

| Theorem | States |
|---|---|
| `RequestsTypeCorrect` | `[]TypeOK` |
| `RequestsImplementLedger` | `Spec => LedgerSpec`: every step of the composition is a step of the ledger or leaves it alone |
| `RequestsSendOnce`, `RequestsEvidenceTrue` | `[]AtMostOneFrame`, `[]EvidenceIsTrue`, carried over from the ledger by that refinement |
| `RequestsCommitAccepted`, `RequestsDelivered` | what the store calls delivered, or answered, the target has accepted |
| `RequestsOneAnswer` | `[]OneAnswer` |
| `RequestsOutcomesFinal` | a final outcome never changes |
| `RequestsAgreeWithOwner` | `[]StoreAgreesWithOwner` |
| `RequestsReplyReleases` | `[]CancelledReplyReleases` |
| `RequestsOrphanCancelled` | `OrphanIsOnlyCancelled` |

The first and the last of these three need `OwnerInv`: nobody remembers a token that was not given out
(`TokensKnown`); when the transport hands a dispatch over once, a token is on the flight, on its way or in
the owner's file, never in two places, and a proof on its way back is the one on file (`TokenPlace`); and
without the recovery everything sent has the delivery's own generation (`OneGeneration`). Most actions
touch one delivery and leave the others where they were; `OthersStayElsewhere` states that once.

**FileProofs, the reservations.** `IntentIsOneTask` (`[]OneTaskPerIntent`), `ExtraTaskWasOvertaken`
(`[]ExtraTaskHasCause`) and `RecordedTaskIsKept` (`TaskIdKept`), from `ReservationInvariant`.
`ReservationInv` says: what a waiting call remembers is truthful, and its creator was gone when it was
read (`SnapsHold`); a recorded task exists (`TasksExist`); while nobody took over, and for a caller's intent
always, at most one call has begun and the key is then not free, and another host starts one task whatever
it is sent (`OnceBegun`); and the one call that creates holds the reservation, unless the remote task was
recovered meanwhile (`CreatorHolds`).

**GatewayActivationProofs.** `SupervisorAgreesWithGateway` (`[]SupervisorFollowsGateway`),
`ReceiptsNeverLie` (`[]ReceiptsAreTrue`), `AskedRestartIsKept` (`[]RestartIsKept`) and `LagIsExplained`
(`LagHasCause`, with what the receipt says), from `ActivationInvariant`. `PipeInv` compares the two ends across what is in the pipes: at
most one apply is on its way, the next in the receiver's order and not asked about before it; the
operation of the open supervisor is either not admitted yet, and then only *unknown* can be said of it,
when it will never come (`NotAdmittedYet`), or admitted, and then every answer about its end is what the
receiver has (`AlreadyAdmitted`). `SupervisorsInv` ties supervisors to children, `PrepareInv` keeps what the
running application relies on across its awaits: its supervisor is there although its child may be gone,
and a child started meanwhile has the definition that is being applied. `ServedInv` connects
answers and receipts to the revisions that were in effect. Actions that only start, end or keep the child,
or end an application, are one kind of step (`LifeStep`) and share one proof.

**PlanLeaseProofs.** `LeaseIsExclusive` (`[]LeaseExcludes`), `DisplacementIsCaused` (`DisplacementHasCause`)
and `LeakIsCaused` (`LeakHasCause`), from `PlanInvariant`, which is unconditional about one call
(`BaseInv`) and otherwise holds until a fence is lost. `FenceHeld`: a call behind the fence has it, and a
fence nobody is behind was left by a call that failed or crashed. `MovesKnown`: what is renamed behind the
fence is the releaser's own lease, or one whose call has ended or lapsed. `ConfirmedPublished`: a lease
whose heartbeat has begun a renewal is at `lockPath` or lapsed, so a releaser that puts its file back never
meets a contender with a heartbeat. `CleanReleases`: a release without an error has a stopped heartbeat,
hence a good snapshot, and its lease is gone when it gives the fence back. `MetDoomed`: a call enters its
section only without a fence, when no file is under a `.stale` name, so that of two calls in their sections
one has no file anywhere; it then throws in its assertion or its last renewal. Most steps touch one call;
`OthersSame` says so once, and each part of the invariant is then shown for the call that moves. Unlike the
run, the theorems do not restrict which calls are faulty; the invariant was also checked by TLC
without the run's constraint that no fence is lost.

**GenerationsProofs.** `GenerationsGraphIsConsistent`, `GenerationsOneWorker`, `GenerationsNoLostOwner`,
`GenerationsShutdownIsQuiet` and the action property `GenerationsLossHasCause`, from `GenerationsInvariant`,
for every finite set of instances, every requirement relation without cycles (which `planCapabilityGraph`
refuses) and any number of calls and faults.

`switchNow` is one step of several operations, so the invariant is stated of flights, scopes, owners and a
graph as operands, and holds between the operations as well as between the steps. `ScopesOK`: a scope and
the flight it belongs to agree; what is prepared and not failed holds its effects and has no operation
left; what was published is of a settled flight out of the map. `GraphOK`: nothing published is disposed
of, and what was published and no longer is, is aborted, which is why a startup overtaken by a second
switch never starts its worker. `OwnersOK` is `NoLostOwner`, `BoundOK` is `NoStaleReference` of any graph. `WorkersOK`
strengthens `OneWorker` to *claims*: an admitted startup that nobody aborted claims the worker too, so that
the gate (`OpenGate`) is read when no other activation of the instance is at work. `PendingOK`: every failure
in the graph is queued or finishing, and only failures are queued as such. `ShutdownOK`: once shutdown
disposes, nothing is published and no flight is in the map, so whoever works is an owner, and the shutdown
waits for all of these.

Most operations only age scopes (`KernelAges`): they abort, retire or finish, and start nothing. The long
argument is publication. `ComponentsDivide`: the components of a profile partition it, and an active
consumer that is rebuilt has its rebuilt providers in its own. `NextGraphIsBound`: hence what `switchNow`
arrives at is bound, whether each component is replaced or kept. `WithdrawnIsClosed`, `OldGraphIsBound` and
`LeftGraphIsBound`: taking back a closed set of candidates leaves a bound graph, with the old activations
in its place except those in doubt, which leave with everything above them. `PublicationKernel`: a bound
graph of publishable activations may replace the published one.

`LossHasCause` is about the steps. `GraphChanges`: only a switch, a background publication, a failure that is
handled and a disposal change the graph. For a publication, `SuccessorStays`: a published instance that is wanted and
not waiting keeps its place in the next graph, because all it requires is published (`UpstreamIsPublished`)
and is rebuilt only in its own component. A rollback in doubt marks what it takes down as failed
(`DoubtIsKept`), and a failure at run time takes down what it reaches and nothing else (`FailureHasCause`).

**Only model-checked.** Liveness (`CallsReturn`, `DisposalReclaims`, `Answered`, `Settles`), which is beyond
the proof system.

## 7. Disagreements with the documentation

The first is refuted by a run of `PROJECT.json`. The next two are stated in `RouteCatalog.tla`, and TLC
refutes each within seconds when it takes the place of `AbsenceReportedIsFinal` in
`RouteCatalog_absence.cfg` (`RoleSaveKept` as an `INVARIANT`, `BlockedOnlyWhileOpen` as a `PROPERTY`); they
have no run of their own. The last is stated positively, as two of the causes of `InProgressHasCause`.

**Reported absence.** `catalog_absence`, `src/manager/routeCatalogStartupLifecycle.ts:857`. The comment at
`src/manager/controlPlaneRoutes.ts:2033` says of a resolution: "A queue barrier finishes/recover-fences
earlier writes before absence is reported." The run finds a mutation that is committed after its absence was
reported. `startAttempt` clears `currentAttempt` before it awaits `options.apply` (`:709`), and `pump()` (`:629`)
does not look at the application in flight: a request that arrives then starts the still active entry a
second time, although `src/manager/controlPlaneRoutes.ts:2610` says that "The catalog CAS queue already
serializes this await". When the application and the second attempt both fail, `failEntry` arms two timers
and keeps the handle of the later one. The other fires while a later entry waits for its own retry, and clears
that entry's handle, so that one goes astray in turn. Its entry is attempted by the next pump, fails for
good after `maxAttempts`, and a resolution behind it finds no receipt; then the stray timer fires, and
`startAttempt` does not ask whether its entry is still active.

**Role configurations.** `RoleSaveKept`, `src/manager/routeCatalogDurableTransaction.ts:266`.
`docs/role-centric-architecture_en.md:220`: "Route saves no longer write role configuration." A Route save
that succeeds does not. One that fails does: its journal backs up every `personaConfig.json` (`:188`), and
rollback and recovery write them back and remove what was not there. Role owners do not queue behind the
catalog, and `withRoleBindings` (`src/manager/controlPlaneRoutes.ts:1996`) locks only the roles that the saved
definitions name; in the counterexample, another role's configuration is saved after the journal and lost.

**Blocked saves.** `BlockedOnlyWhileOpen`, `src/manager/routeCatalogStartupLifecycle.ts:362`.
`docs/rabi-maintenance_en.md:9`: "A later save or receipt lookup rechecks closure with the original process
owner. Replacement writes remain blocked until closure is confirmed, after which the current request may
proceed." The attempt of a mutation or a resolution keeps the promise of its first `cancel()`. Once that was
rejected, the recheck (`:523`) and the observer of the late exit (`:890`) get the same rejection, though the
child has closed. Attempts of plain captures do look again, as does the attempt of the test
(`src/manager/routeCatalogStartupLifecycle.test.ts:227`).

**Expired leases.** `InProgressHasCause`, `src/manager/durableDeliveryIdempotency.ts:517`, with
`docs/rabi-agent-interfaces_en.md:1015`; section 4 has the sentences. A lease expires under a running
execution when its heartbeat worker cannot renew in time, or when a renewal fails: the worker stores its
failure and ends (`:253`), and the delivery is not told.

The other disagreements that a passing run states as a cause are listed in section 4.

## 8. Abstractions

- A lock file version is its creator and whether the record is written: this is what token, mtime and
  size tell apart. Reuse of a pid by another process is left out, in `FileLock` and `DurableDelivery`.
- Sections under the receipt's mutation lock are atomic in `DurableDelivery`; `FileLock` says when that
  is right. `recover()` and `verify()` answer truthfully about the request they are asked about, or
  not at all; they are supplied by the caller. A revoked authority is an exception that may come at any
  of the code's checks.
- Results, error texts, timestamps and the receipts' version fields are left out; a payload is its
  digest.
- A launch that throws changes nothing and is no step. The statuses that the lease registry and the
  pools display are left out, as are request validation and a signal that is aborted before the call.
- The storage pool's IPC channel has one slot each way, since its protocol alternates.
- A configuration is its content, a Route's definition its own revision, a plugin its revision: hashes,
  formats and the settings themselves are left out.
- In `PlanLease` a snapshot is an inode and whether it was renewed since; two snapshots and the unlink
  that follows them are two steps. File-system errors are ENOENT, EEXIST, a fence that cannot be
  written and a candidate that cannot be removed. The sweep of a starting call never takes the candidate of
  a call that is about to publish it; the `link` would fail and the call end as it does where its other
  system calls fail.
- In `Generations` every required instance must be there: optional services, and the policy that says which
  capabilities a profile cannot do without, are left out. At most one member of a publication
  throws in its rollback (`Cardinality(tainted) <= 1`).

## 9. Not modelled

The repository has about 283,000 lines, most of them user interface, adapters, clients and data; the
models cover the protocols among them, which is a small share of the lines.

`PROJECT.json` lists every part with its reason. In short: the planned ones of section 2; pure decisions
and rendering (message routing, packets), where the data is everything; components that save whole
documents under the modelled lock (contexts, history, identities) or through the modelled pool (role
knowledge, memory); network and media I/O (peer tunnel, relay, speech); adapters to external
platforms, whose behaviour is not in this repository; and the clients and installers.
