# Verification of Glaeda's durable state and disposable workers

Glaeda runs GitHub Actions jobs on disposable workers: one request of a GitHub
scale set becomes one reservation in a durable catalog, one Lima clone, one JIT
runner registration, one job, and one teardown. The controller is a single
process that is restarted at will, talks to a service that redelivers what it
has not seen acknowledged, and issues commands (clone, JIT request, runner
start, VM delete) that cannot be taken back. What it must never do is clone or
register twice for one job, delete a VM that is not its own, forget a VM or a
registration, or acknowledge what it has not recorded. Beside that path Glaeda
keeps durable documents that must survive a stop at any file operation: the
catalog with its delivery fence, the catalog of resident sandboxes, and the
generations of its own installation.

This directory models both: the disposable worker path from the service's
message to the teardown, and the three stores down to single file operations.
TLC checks the models on small instances; TLAPS proves the properties of the
attempt document, the planner, the catalog, the worker coordinator, the delivery
controller and the three stores for every value of their constants.

## 1. Inventory

Paths are relative to `src/src/`; "store" is `unix_personal_worker_store/`.

### What is modelled

| Component | State | Operations | Interacts with |
|---|---|---|---|
| Attempt state (`disposable_attempt_state.rs`) | one document: phase, revision, VM identity, runner id, job, result, two no-replay checkpoints, deadline | 15 transitions, `validate`, `is_exact_successor_of` | called by the catalog |
| Attempt catalog (`disposable_attempt_catalog.rs`) | revision, active attempts, FIFO of retired ones | reserve, transition, private VM binding, retire, two successor tests | published by the store, read by everyone |
| Reconciler (`disposable_worker_reconciler.rs`) | none | `reconcile_attempt`: document and observations to one action | called by the transactions |
| Delivery consumer, settlement (`github_scale_set_delivery_consumer.rs`, `..._settlement.rs`) | none | what a service message does to the catalog; what an acknowledged offer leaves behind | called by the delivery controller |
| Delivery recovery state (`github_scale_set_delivery_state.rs`) | the fence: one document with the delivery, two catalog bindings and a phase | eight transitions, `validate`, exact successors | published with the catalog |
| Paired publication (store`/scale_set_delivery_recovery*`) | four names in one directory: catalog, fence and a stage of each | five transactions, five recoveries | controller, coordinator |
| Delivery controller (`github_scale_set_delivery_controller.rs`), bridge session (`tools/scaleset-bridge/protocol.go`) | nothing durable of its own; the bridge's cursor and pending message | consume, resume, acknowledge, acquire, observe, settle | service, fence |
| Coordinator (`disposable_worker_coordinator.rs`) | none beyond the tick | recover a delivery, poll, post-start deadline, dispatch one operation | all of the above |
| Clone, runner and cleanup transactions (store`/disposable_*_transaction.rs`, `disposable_clone_runtime.rs`, `disposable_runner_runtime.rs`) | the store's lock while they run | checkpoint, command, observe, publish | Lima, guest, service |
| Supervisor (`disposable_worker_supervisor.rs`) | failure count | ticks for ever, with delays | coordinator |
| Resident sandboxes (`resident_sandbox_catalog.rs`, `unix_resident_sandbox_store.rs`) | one document: acceptances, generation maxima, locator claims, records with their operation; two names in one directory | accept, checkpoint, load, create, replace, recover | clients that race for it |
| Local installation (`local_install_generation_store.rs`, `local_install_launcher.rs`) | three directories and a current document; a launcher link | publish, recover, launcher publication | installer, operator |

What is hard in them:

- **Crashes between a checkpoint and its command.** Each irreversible command is
  preceded by a published checkpoint and never repeated, so every later state
  must be recoverable from the catalog and fresh observations alone.
- **Late, repeated and reordered evidence.** A start or completion may arrive
  during cleanup or after retirement; it must be absorbed or refused without
  moving an attempt backwards.
- **History encoded in a number.** The revision of a document decides which
  evidence it may carry and whether a VM may exist (`has_clone_started_history`).
- **Lost answers.** An acknowledgement or acquisition may take effect and its
  answer be lost, or take effect after the next session already began.
- **Two files, one transaction.** Catalog and fence are renamed one after the
  other; every stop between must be classified from names and contents alone.
- **Recovery of a recovery, power loss, torn bytes.** What a process reads is not
  what a power loss leaves, and a recovery may itself be interrupted.
- **Head-of-line blocking.** The queue redelivers its head until it is
  acknowledged, so one refused message stops every tick that must poll.
- **Deadlines racing everything else**, and identities (VM disk, runner id, job)
  that another actor may reuse under the same name.

The properties that make each component correct are listed with the runs
(section 4); the code lines where each hazard bites are in `PROJECT.json`.

## 2. Modules

```
DisposableAttemptState            one document, every transition (operators)
  |-- DisposableAttemptLemmas               what each transition keeps (lemmas)
  |-- DisposableAttemptLifecycle            any sequence of calls
  `-- DisposableAttemptCatalog    reserve, transition, bind, retire (operators)
        |-- DisposableAttemptCatalogStore   any sequence of writes
        |     `-- DisposableAttemptCatalogProofs
        |-- DisposableWorkerReconciler      the planner (operators)
        |     `-- DisposableWorkerPlans (with the Lifecycle)
        |           `-- DisposableWorkerPlansProofs
        `-- ScaleSetDeliveryConsumer        events on the catalog (operators)
              |-- DisposableWorkerCoordinator (with the Reconciler)
              |     `-- DisposableWorkerCoordinatorProofs
              `-- ScaleSetDeliveryRecoveryState   the fence (operators)
                    |-- ScaleSetDeliveryFence     what the store promises
                    |-- PairedPublication         implements it
                    |     `-- PairedPublicationProofs
                    `-- ScaleSetDeliveryController  implements it
                          `-- ScaleSetDeliveryControllerProofs

ResidentSandboxCatalog            the document and its calls (operators)
  |-- ResidentSandboxHistory      what its store promises
  `-- UnixResidentSandboxStore    implements it
        `-- UnixResidentSandboxStoreProofs

LocalInstallHistory               what an installation promises
LocalInstallGenerationStore       implements it
  `-- LocalInstallGenerationStoreProofs
```

The `MC...` modules name the instances of the runs.

**DisposableAttemptState.** One operator per method, with the method's name. It
returns the set of documents the method may hand back: `{}` for `Err`, `{a}` for
the idempotent `Ok(self.clone())`, `{next}` for a new validated document. All
identities derived from one request are the one field `id`. `validate` is split
into `EvidenceOrdered` and `PhaseShape` as in the code, and keeps its revision
tables. A runner reference has the name it was observed under and the numeric id,
because the code compares both.

**DisposableAttemptLifecycle** calls them in any order with any evidence; the
callers' own conditions are deliberately absent. The ghost `history` remembers
the phases so that what the code infers from a revision can be compared with
what happened.

**DisposableAttemptCatalog** and **...Store.** The catalog's operations and both
successor tests. The store is exclusive and revision-checked, so one operation is
one step.

**DisposableWorkerReconciler.** `reconcile_attempt` with the order of its checks
kept: conflicts, drift, unbound clone, job events, lost capacity, then the phase.
The arms for an unbound VM in cleanup are left out: validation requires a bound
VM in those phases. **DisposableWorkerPlans** asks it about every document the
lifecycle reaches, with every observation.

**ScaleSetDeliveryConsumer.** `reconcile_event` for the four kinds of events,
including the comparison of deadlines derived from the receipt time, and the
settlement of an offer. The enrolment checks are the same for all events and
left out.

**DisposableWorkerCoordinator.** The composition. `catalog` and `delivery` are
what survives a crash. `pc` is where the controller stands inside a transaction,
so each published checkpoint, each command and each poll is a step of its own;
`Return` stands for the end of an operation, an error, a timeout and a crash at
any of these points. The world is `mailbox`, `job`, `runner` (service), `vm`,
`cloning`, `guest` (host), `now`; `effects` is a ghost that counts commands.

| Action | Code |
|---|---|
| `Reconcile`, `Acknowledge`, `Settle` | `reconcile_and_ack_delivery_inner`, `acknowledge_delivery`, `settle_delivery` |
| `PollIdle` | the outer poll of `supervise_backend`; clone execution and registration poll themselves (`OwnsLivePoll`, `PollIsReached`) |
| `AuthorizeClone` | `authorize_locked`: absent target, then the deadline |
| `ExpireBeforeClone`, `CheckpointClone`, `ExecuteClone`, `BindVmIdentity` | `execute_disposable_clone_transaction` |
| `CheckpointRegistration` | `authorize_registration_locked` |
| `RecoverRegistration`, `CheckpointJit`, `GenerateJit`, `RecordRegistration`, `CheckpointStart`, `ExecuteRunner` | `execute_disposable_runner_transaction` |
| `DeadlineCleanup` | `requires_post_start_deadline_cleanup` |
| `BeginCleanup`, `CompleteUnprovisioned`, `RetireComplete`, `ConfirmVm`, `DestroyVm`, `AdvanceCleanup`, `RemoveRunner` | `execute_disposable_cleanup_transaction` |
| `Tick`, `CloneEnds`, `ReplaceVm`, `RunnerExits`, `OfferJob`, `AssignJob`, `StartJob`, `CompleteJob`, `CancelJob` | external: clock, Lima, guest, service |

Here the delivery is one fence without its inner phases, a message carries one
event, and catalog and fence are published together; the next three modules say
why that is allowed. A poll that finds nothing and the checkpoint it admits are one
step: a message that arrives between the two commutes with the checkpoint, which
neither reads nor writes the queue. The last identity check (`ConfirmVm`) and the
delete command (`DestroyVm`) are two, and the command takes whatever stands under
the name by then.

**ScaleSetDeliveryRecoveryState.** The fence: phases, `validate`, and an operator
per transition. A message may carry several events. A digest is the document it
is computed from.

**ScaleSetDeliveryFence** is the abstract specification of the store: one catalog
and at most one fence, which change together (`Reconcile`, `Resolve`, `Settle`),
or alone (`Advance` the fence, `Ordinary` the catalog, only without a fence). What
an operation makes of a document is a parameter, given by
ScaleSetDeliveryRecoveryState.

**PairedPublication** implements it with files. A transaction is the list of the
file operations it still has to do (`script`): write a stage, sync it, disarm the
guard that would remove it, rename, unlink, sync the directory. `files` is what a
process sees, `disk` the last synced directory, `images` what a power loss may
leave. `Open` is the recovery: it reads the directory and either computes the
operations that finish or undo what it finds, or refuses. The mapping
(`CatalogOf`, `FenceOf`) reads the synced directory: a prepared settlement has
happened; a catalog that was published ahead of its staged fence already has
that fence.

**ScaleSetDeliveryController** implements it with the protocol: durable catalog
and fence, a bridge session that is lost with everything the process knew
(`LoseSession`), requests of a lost session that take effect later (`LateDelete`,
`LateAcquire`), and the service. Each durable transition, each call to the bridge
and the use of its answer are steps of their own.

**ResidentSandboxCatalog, ResidentSandboxHistory, UnixResidentSandboxStore.** The
catalog of resident sandboxes with `accept`, `checkpoint` and the successor test;
its history as the abstract specification; and its store, in which stage and
current document are exchanged and the displaced file is truncated in place and
reused. A file is an inode with what a process reads (`content`) and what a power
loss may leave (`blocks`); the directory is as in PairedPublication. Clients load
a catalog and replace it if its revision is still the current one. The mapping is
the document under the synced current name. In production only the Materialize
operation is reached, because nothing yet publishes a bound sandbox; Start and
Stop checkpoints are modelled as the code has them.

**LocalInstallHistory, LocalInstallGenerationStore.** The installation promises a
sequence of builds that only grows, and receipts that name what is installed. The
store publishes a generation by creating a stage directory, moving it among the
generations, switching the current document and retiring the one before the last.
A writer is a list of file operations and procedures that are expanded when they
are reached, against the directories as they then are. The launcher publication
runs beside it under a shared lock. The mapping is the shortest history any
surviving image settles to.

**Fault models.** In all stores a process may stop between any two operations, an
operation may fail (and then runs the guards' destructors), and power may fail.
PairedPublication and the resident store keep *any* of the directory changes since
the last sync, and any bytes of an unsynced file, cut off or whole. The
local installation uses three directories, and its code syncs one of them to order
changes of another; it is modelled on a file system that journals directory
changes in order, so a power loss keeps a prefix of them, while bytes of unsynced
files may be torn. What a dead writer did not sync stays unsynced when the next writer
takes it over, as in the code; the ghost `adopted` remembers that this happened
(finding 4).

## 3. Proofs

Thirty-seven of the forty properties of the passing runs are theorems, for every set of
identities, clients and inputs and every value of the bounds; those of the installation
hold until a recovery takes over files that nobody synced.

| Module | Theorem | Property |
|---|---|---|
| `DisposableWorkerPlansProofs` | `TypeCorrect` | `TypeOK`: every reachable document passes `validate` |
| | `HistoryIsRight` | `HistoryFromRevision` |
| | `NoCompletionWithoutTeardown` | `TeardownBeforeComplete` |
| | `RevisionsAreBounded` | `RevisionIsBounded`, which no run lists |
| | `EvidenceNeverChanges` | `EvidenceIsPermanent` |
| | `CleanupNeverReopens` | `CleanupIsOneWay` |
| | `CleanupIsAlwaysOpen` | `CleanupNeverRefused` |
| | `UnboundCloneStaysDebt` | `UnboundCloneIsDebt` |
| | `RedeliveryNeverConflicts` | `RedeliveryIsIdempotent` |
| | `SuccessorTestAcceptsCalls` | `SuccessorTestIsExact` of the document |
| | `PlansNeverTouchOthers` | `PlansStayOwned` |
| | `ReleaseFollowsAbsence` | `ReleaseNeedsAbsence` |
| | `PlansAlwaysExecute` | `PlansAreExecutable` |
| `DisposableAttemptCatalogProofs` | `CatalogInvariant` | every published catalog passes `validate` |
| | `StoreTestsAreExact` | `StoreSuccessorIsExact` |
| | `AccountingStaysConsistent` | `AccountingNeverRefuses` |
| `DisposableWorkerCoordinatorProofs` | `CoordinatorInvariant` | the inductive invariant |
| | `EffectsAtMostOnce` | `AtMostOnceEffects` |
| | `WorkersHaveOwners` | `WorkersAreOwned` |
| | `AcknowledgedIsRecorded` | `AcknowledgedIsDurable` |
| | `ForeignVmStays` | `ForeignVmIsSpared` |
| | `RunningJobStays` | `RunningJobIsSpared` |
| `ScaleSetDeliveryControllerProofs` | `ControllerInvariant` | the inductive invariant |
| | `BridgeAlwaysAccepts` | `BridgeAcceptsEveryCall` |
| | `LifecycleSettledIsDeleted` | `LifecycleSettlesDeleted` |
| | `ControllerImplementsFence` | `ImplementsFence` of the controller: the refinement |
| | `LedgerInvariant` | the inductive invariant about the catalog and the jobs |
| | `AcquiredStaysReserved` | `AcquiredIsReserved` |
| | `DeletedStaysReconciled` | `DeletedIsReconciled` |
| `PairedPublicationProofs` | `PublicationInvariant` | the inductive invariant |
| | `CurrentDocumentsAreWhole` | `CurrentIsWhole` of the two files |
| | `ReturnsAreDurable` | `ReturnIsDurable` of the two files |
| | `PairedCrashesRecover` | `PairedCrashRecovers` |
| | `PublicationImplementsFence` | `ImplementsFence` of the store: the refinement |
| `UnixResidentSandboxStoreProofs` | `StoreInvariant` | the inductive invariant |
| | `CurrentStaysWhole` | `CurrentIsWhole` |
| | `ReturnStaysDurable` | `ReturnIsDurable` |
| | `StopsAlwaysRecover` | `EveryStopRecovers` |
| | `StoreImplementsHistory` | `ImplementsHistory`: the refinement |
| | `RecoveryNeverStarts` | `RecoveryStartsNothing` |
| | `SuccessorTestIsExactAlways` | `SuccessorTestIsExact` of the resident catalog |
| `LocalInstallGenerationStoreProofs` | `InstallInvariant` | the inductive invariant, until `adopted` |
| | `EveryStopIsRecovered` | `EveryStopRecovers` of the installation, and with it `StopsRecover`, until `adopted` |
| | `LaunchersAreBacked` | `LauncherIsBacked`, until `adopted` |
| | `InstallationImplementsHistory` | `ImplementsHistory` of the installation, without `adopted`: the refinement |

Assumptions, each named in the module that declares its constants: `None` is none
of the identities and no runner reference (`NoneAssumption`,
`RunnerAssumption`), every attempt's job is a job (`JobAssumption`), `Canceled` is a result
(`CanceledAssumption`), deadlines are naturals (`TimesAssumption`), an attempt's
revision bound is at least 16, where the code has 10^12
(`RevisionBoundAssumption`), the catalog's bounds are positive
(`CatalogBoundsAssumption`, `BoundsAssumption`), a configured project disk names a
known source (`ConfigsAssumption`), the bounds on messages and lost sessions are
naturals (`ControllerAssumption`), the deadline of an observed request is a time a
document can carry (`ObservationAssumption`), the messages the service hands out are
messages, their deadlines are times, and neither a missing nor a torn file holds a
catalog or a fence (`DocumentsAssumption`), and an absent, an empty and a torn file are
different from one another and from every document (`StoreAssumption`). For the
installation a generation is a nonempty sequence of builds (`GenerationsAssumption`),
launchers are asked for generations (`LaunchersAssumption`) and an absent document is no
document (`DocumentsAssumption`).
`LifecycleSettledIsDeleted` and the three theorems from the ledger have a hypothesis
of their own, `NoneIsNoDocument`: the value that stands for no fence is not a
recovery document. It quantifies over all documents, which TLC cannot enumerate,
and is therefore not an `ASSUME`. `DeletedStaysReconciled` needs besides that the
history holds every attempt (`HistorySuffices`): what the catalog has forgotten it
does not know. `AcquiredStaysReserved` does not.

The theorems of the coordinator have hypotheses of their own, stated as
`Premises`. `DeadlinesAreTimes`: whatever the clock shows, the deadline computed
from it is a time a document can carry; the code has the same range for both and
TLC a finite one, so this too is no `ASSUME`. `FenceIsSome`: no fence is mistaken
for its absence. `OffersAreRemembered`: if the service offers jobs again and
again, the catalog's history holds every attempt. `AcknowledgedIsRecorded` needs
that history (`HistorySuffices`) in any case: an attempt that has left the history
is in no document any more.

**The attempt document.** Each method is shown to satisfy one relation
`Step(a, b)` between the documents before and after an accepted call
(`DisposableAttemptLemmas`): the new one is valid, keeps all evidence
(`Keeps`), moves the phase only along the permitted edges (`Moves`) and preserves
`Budget`. The invariant `IInv` then needs only `Step`, not the methods. It
strengthens the properties in two places. `Budget` bounds the revision of a
cleanup document by what evidence is still missing from it, since late evidence
may still add to the revision after each cleanup phase; `RevisionIsBounded` alone
is not inductive. `PassedCleanup` carries the cleanup phases already behind a
document, which `TeardownBeforeComplete` reads only at the end. The action
properties follow from `Step` and `IInv`; redelivery and the successor test from
one lemma per method about calling it a second time, or with inputs read from its
result.

**The planner** has no state: the three theorems are facts about
`reconcile_attempt` on the documents `IInv` allows. `Accepted` collects what the
checks at its head establish about the observations, `Guarded` what each arm that
removes something needs, and the executability proof goes through the phases, arm
by arm, to the transition the arm asks for.

**The catalog.** `CInv` says that the catalog is typed and passes
`validate_catalog`, which includes uniqueness of identities; it is inductive
because every write is validated before it is published. What takes work is the
successor test: a step is one of four kinds (`Kinds`: a reservation, one replaced
attempt, a VM binding, a retirement), and the positions where the two documents
differ must be shown to be exactly those the test looks at.
`AccountingNeverRefuses` follows from `CInv` and from what each operation does to
the represented revision. The sum over a list is determined by its partial sums
(`SumsExist`, `SumIsLast`): the least place where they fail cannot exist, which
replaces an induction over the length. From the partial sums of one list those of
the list with a member appended, replaced or removed can be written down, so that a
transition adds exactly one to the represented revision, a retirement one as long as
nothing is evicted, and an eviction lowers it, where only a lower bound is checked.
That a retirement leaves the identities unique is an injection from the new places
in both lists to the old ones.

**The worker coordinator.** Every step that writes the catalog does to it one of a
few things (`Follows`, `Quiet`, `Takes`): each active document comes from one of
the same attempt by `Step`, or is the reservation of an identity nobody knew. With
that, the eight parts of `IInv` are kept action by action. `Ownership`
strengthens `WorkersAreOwned`: a running clone belongs to a document whose VM is
not yet bound, which is why no other path may complete it. `Counted` ties the
counters to the checkpoints: before a checkpoint is in the document, its command
was not issued. `Position` is the other half, between a checkpoint and its
command: the document of the transaction has the checkpoint and the counter is
still zero; a crash leaves `pc` idle, and from there no path leads to the command
again. Both say nothing of an identity that is reserved a second time, so `Fresh`
is needed: an identity with effects is known to the catalog, or, if jobs are
assigned once, has no message that could reserve it. `Mail` says what an
undelivered message asserts of its job; without it an event of a foreign runner
could be delivered and the evidence in the documents would mean nothing. `Spared`
strengthens `RunningJobIsSpared`: a started runner is on its way out only when its
job ended or its deadline passed, which is decided several steps before its VM
goes. `Durable` follows a message from its reconciliation over the acknowledgement
to the history: what the fence in progress carries is already in the catalog, and
a cancellation that found a clone in flight and left the document alone stays
pending while the clone runs.

**The delivery controller.** `IInv` has three parts. `Queued`: each message is one
event the service may send, and what is undeleted was sent. `Roomy`: one job at a
time is with the service and its remaining messages fit the bound. `Standing` is
the protocol: for each place the controller may be at it says which phases the
document may have and what the session holds. Two things make it inductive. A
document carries what its phase has established about the queue (`Fenced`): an
acknowledged message without offers, and an acknowledged resolution, are no longer
in it, and only a delivery with offers can need recovery. And between ticks a
standing fence leaves only a session that was never used. Since a deletion or a
new message can only help (`StandsFrame`), requests of lost sessions that arrive
late disturb nothing. That a poll without the message, or with a later one, shows
the message deleted (`AbsenceIsDeletion`) rests on the service answering with the
oldest message past the cursor. The refinement is then one step per action.

What deliveries do to the catalog needs a second invariant on top of it, `Ledger`.
A message has one event (`Queued`), so each fold over a message's events is one
application (`ReconcileOne`, `ResolveOne`, `SettleOne`), and every step reserves
one new identity, releases one reservation or does nothing (`Adds`, `Removes`).
`Entries` is the heart: what was deleted, what a delayed request may still delete,
and what the standing document is about has been taken by the catalog, which keeps
the job unless it is over. That stays true because only jobs that are over go to
history (`Shelved`, `Careful`), and the hard case is a settlement that releases an
offer because an acknowledgement handed nothing over. `Deciding` is why that is
right: until the first acknowledgement nobody here acquired the job, so the empty
answer means that somebody else has it; a replayed acquisition may be empty for the
opposite reason, and its document therefore decides nothing. `Lagging` confines the
acquisitions of lost sessions that arrive late: such a request finds its job still
offered only under the document it was sent from, which keeps the job. `Handing`
says that what was handed over after an offer is kept; together with the capacity
that is advertised only for an empty catalog it makes a new offer one that nobody
has acquired. `Claims`, `Sent` and `Plain` are what these need of documents, of the
queue and of the catalog.

**The resident store.** `IInv` has six parts, stated of every directory a power
loss may leave. `FileTypes` types files and directories. `Whole`: what the current
name leads to is not staged beside it, and a power loss leaves nothing else in it
than one valid catalog. `Staging`: whatever document the staged inode may hold is
one call after or one call before the current one. `Forward`: such a directory
holds the durable document or one call more. `Remembered`: what was reported, and
what a client loaded, is nowhere undone. `UnderWay`: what the call in progress has
already made true. `EveryStopRecovers` alone is not inductive, since it looks at
the visible directory only and between calls. `RecoveryNeverStarts` needs besides
it `Quiet`: a document that recovery is publishing calls nothing started that was
not. The successor test is exact in both directions: what a call makes passes it
(`SuccessorPasses`), and from any typed document that passes it the call can be
read off, a request from the one claim it adds or a checkpoint from the one record
it changes (`PassingIsSuccessor`). The property quantifies over near misses only,
the lemma over all documents.

**The paired publication.** `PInv` speaks of every directory a power loss may leave,
of the one a process sees and of the synced one. Each has one of three shapes
(`Legal`): `Resting`, a catalog and its fence with what an interrupted transaction
may have staged beside them; `Ahead`, the catalog of a pair is published and its
fence still staged; `Decided`, the intent to settle is current. For each shape
`AbstractPair` gives the catalog and fence the mapping reads, and every image is at
most one step of ScaleSetDeliveryFence from the synced directory (`Follows`), so that
a power loss, a crash and an error are abstract steps or none. What an error removes
on its way out must be removable in each of them (`Cleanable`), and only a fence's
stage that stands alone may be torn (`DirtyFits`).

None of this is inductive without the script, since what a rename does to a directory
depends on what comes after it. `Plan` lists the scripts that transactions and
recoveries leave at a point between a directory sync and the next change, each with
the shape it runs from; the families of `Plan` are the transactions and their
suffixes. `PlanKinds` looks at the head of a plan: it writes and synchronizes a stage,
renames and synchronizes the directory, unlinks and synchronizes, or is over, and
every intermediate directory is legal. `Ready`, `Written` and `Unsynced` are the three
points in between at which a process can be stopped. That each transaction begins a
plan (`BeginPlans`) and that each legal directory is opened by one
(`RecoveryPlans`) closes the circle, and `PairedCrashRecovers` and `ReturnIsDurable`
are read off the latter.

Below it lies what the documents promise. Events leave a valid catalog valid
(`EventIsSound`, `ResolvingIsSound`, `SettlingIsSound`), and so do the folds over all
the events of a message, of any length: the recursive function that defines a fold is
built one event at a time (`FoldExists`) and its value kept event by event
(`FoldKeeps`), by the least counterexample rather than an induction principle.
`FencingFacts`, `AdvancingFacts` and `SettlesFacts` say what a staged document is:
a resolution is told from a successor by its base revision, which validation fixes at
3 while a resolved fence is at 4 or later, and the intent to settle names a catalog
that settling again computes. `OrdinaryFacts` rests on the exactness of the catalog's
successor test (`TestsAreExact`).

**The local installation.** `IInv` says of every store a power loss may leave that it
has one of five shapes (`Legal`): nothing under way (`Settles`), a stage and what its
files hold so far (`Stages`), a generation in place and not yet current (`Places`), a
superseded one on its way out (`Retires`), a retirement marker to be cleared
(`Clears`). In each the current document refers to whole, linked directories
(`Backed`), at most one directory stands beside them, and the launcher names the
accepted or the retained generation or one that two others superseded (`Launched`).
`Runs` pairs the rest of a writer's script with the shape it needs, line by line.
Neither half is inductive alone: what a step does depends on the store it finds, and
the store it leaves is legal only because of the steps that led to it. The argument
closes in a circle. `RunsCarries`: the next step of a script that runs can be taken,
leaves a script that runs, and a write that stops half way leaves something legal; a
procedure that reads the store again (`Expand`) finds what it expects. `TornLegal`: a
power loss leaves one of the five shapes. `LockRuns`: recovery of a legal store yields
a script that runs on it, if the store has all its bytes on the disk. That is where the
condition `~ adopted` comes from: recovery syncs directories and not the files in them,
so a script that begins with files nobody synced leads to none of the shapes.
`EveryStopRecovers` and `LauncherIsBacked` are read off the shapes. For
`EveryStopRecovers` the condition cannot be dropped: `install_recovery` is what happens
without it.

The refinement adds `HInv`: what the images may settle to is the generation the
writer's own store settles to and, while the last file of a stage is not synced, the
predecessor of that one (`Near`). Only that one write changes what a store settles to
(`Rises`), and it happens when all images agree, because the step before it was a
sync; every other step is `Level`. What is installed is the least of the two
(`LeastIs`): it stays when an end is added (`Widens`) and stays or gains one build
when ends go (`Narrows`), which is what syncs, power losses, recoveries and the
launcher's syncs do. `Publishes` follows a publication to its receipt: its stage is
being filled, or all images settle to it.

**Only model-checked.** Everything temporal under fairness, which the prover does
not support: `EveryAttemptEnds` and `FenceSettles`. `CleanupAlwaysRetires`, and what
`StopsRecover`, `LauncherIsBacked` and `ImplementsHistory` say of an installation whose
recovery adopted unsynced files.

## 4. Runs

Twelve runs; four of them show what the code does where a text says otherwise
(section 5). All bounds are small sets; the counts are distinct states.

**attempt_lifecycle** (612 states; every observation of each). The document:
`TypeOK`, `HistoryFromRevision`, `TeardownBeforeComplete`, `CleanupNeverRefused`,
`UnboundCloneIsDebt`, `EvidenceIsPermanent`, `CleanupIsOneWay`,
`RedeliveryIsIdempotent`, `SuccessorTestIsExact`; the planner:
`PlansAreExecutable`, `PlansStayOwned`, `ReleaseNeedsAbsence`. Two of each
identity are enough, since a document holds one and compares the other. The
revision bound of 20 is four above the highest reachable revision, so that a call
that failed to be a no-op would show. The clock is taken at the deadline and one
past it.

**catalog_store** (44,702). `AccountingNeverRefuses`: the represented revision is
exact while history has room and a lower bound afterwards, and no write the
document allows is refused on either side; `CleanupAlwaysRetires`: evidence that names
what another attempt owns, also a retired one, is refused, and the attempt it stops
still gets from where it is to its retirement, whatever the others hold;
`StoreSuccessorIsExact`: recovery accepts every document an operation may have
staged and the ordinary path all but the private VM binding. Three attempts
through a history of one make the second and third retirement evict; the
catalog's revision bound of 22 admits one full life beside two short ones.

**coordinator_safety** (872,669). `AtMostOnceEffects`, `WorkersAreOwned`,
`AcknowledgedIsDurable`, `ForeignVmIsSpared`, `RunningJobIsSpared`. Two attempts
are needed for one to retire while the other runs and for evidence to find a
tombstone; three VM identities leave one for a replacement. A job lasts one
millisecond of model time and the clock runs only while a deadline is open
(`MaxTime` is 0), so every step is seen before, at and after the deadline. No
liveness is checked, so the symmetry of attempts, VMs and runners is sound.
`AtMostOnceEffects` depends on the history being longer than the service's
redelivery: a message that returns after its tombstone was evicted is a new one.

**worker_progress** (1,158,954). `EveryAttemptEnds`: each reservation is retired or
ends as one of the three debts the code leaves to an operator (`RecoveryDebt`): a
clone with unknown outcome, a JIT request with unknown outcome, and a guest that
expired before its JIT request (finding 1). The one other end is a message that stays
at the head of the queue for good (`<>[]RefusedHead`) and stops the ticks that must
poll: the assignment of finding 2, or a completion that comes after the deadline
cleanup retired its attempt (section 5). Two jobs let the messages of one meet the
attempt of the other, and one of them may be offered first. VMs are not replaced here:
a VM replaced under its name is an error that cleanup reports at every tick and leaves
to an operator.

**paired_publication** (81,134). `CurrentIsWhole`, `ReturnIsDurable`,
`PairedCrashRecovers`, `ImplementsFence`. Two requests, each offered, assigned,
canceled, and assigned and canceled in one message; the catalog's revision bound
of 8 lets one be settled and the other follow. Torn writes are on.
`PairedCrashRecovers` exempts two shapes of the directory: the one of finding 3,
and one that needs an I/O error inside a settlement and then a power loss.

**delivery_controller** (226,402). `AcquiredIsReserved`, `DeletedIsReconciled`,
`BridgeAcceptsEveryCall`, `LifecycleSettlesDeleted`, `ImplementsFence`, and under
fairness `FenceSettles`. Two jobs, six messages, two observation times, three lost
sessions: the first fault leaves a delivery to recover, the second interrupts the
recovery, the third meets what the first two left in the queue. `FenceSettles`: a fence
comes down unless the service gave its jobs to someone else, or an offer that a settled
delivery left in the queue (section 5) stops it for good, because it stands before the
message a recovery polls for (`[]BehindOffer`), or because it is delivered again when
its job is already in the catalog (`[]OfferedAgain`). It also holds with five lost
sessions and one observation time. The service is assumed to answer an idle poll's
capacity with at most one offer or assignment; one that queues an offer behind a
lifecycle message would block the zero-capacity recovery in the same way.

**resident_store** (74,277). `CurrentIsWhole`, `ReturnIsDurable`,
`EveryStopRecovers`, `SuccessorTestIsExact`, `RecoveryStartsNothing`,
`ImplementsHistory`. Two clients race, over two lineages or two generations of
one, up to revision 5, which is an acceptance, a whole operation and the start of
a second. Two inodes are all the store ever uses.

**install_store** (46,779). `StopsRecover`, `LauncherIsBacked`, `ImplementsHistory`.
Three generations in a row, so that the first is retired while a launcher may still
point to it, and a rival of the first; three operation identities, so that one may be
reused while it is accepted, retained or forgotten. `StopsRecover` leaves out one end,
the one of finding 4: a recovery had published a file that nobody synced and the power
took it. `LauncherIsBacked` has no exception, because a binary is synced before its
document exists. Launchers are made for the generation that two others supersede.

**timeout_destroys_vm**, **acquired_assignment**, **staged_successor** and
**install_recovery** are expected to fail, with the counterexamples of section 5. The
two that check liveness do so under `FairSpec`.

**Fairness.** The coordinator's `FairSpec` assumes what the supervisor and the
timeouts give: ticks go on for ever and time passes (weak fairness of `Tick`,
`PollIdle` and the delivery steps), every command and exchange has a finite
deadline (weak fairness of `Return`), and where infinitely many ticks could begin an
operation, not all of them are lost to failing observations (strong fairness of
`TickOperations`, the operations a tick may begin with), nor all the delete commands
they get to (strong fairness of `DestroyVm`). The steps inside a transaction
(`ExecuteClone`, `BindVmIdentity`, `GenerateJit`, `RecordRegistration`,
`CheckpointStart`, `ExecuteRunner`) get none: a crash may always come first.
Nothing is assumed of the service, the guest or an orphaned clone command. The
delivery controller's `FairSpec` has weak fairness of its own steps, because the
supervisor reconnects and ticks for ever, and of the assignment of an acquired
job, without which nothing could resolve an ambiguous acquisition. Lost sessions
are bounded in number; late requests need never arrive.

Deadlock checking is off where an instance may come to rest: a catalog at its
revision bound, a host with nothing left to do, a store fenced by a torn stage.

Each property has a mutant in `PROJECT.json`: a plausible wrong version of the
code (a command before its checkpoint, a fence without its catalog, a rename
before its sync, an eviction not expected) under which the run must fail. The
mutants stand beside the definitions they replace, marked `Mutant:`.

## 5. Where code and text disagree

1. **A timeout before the JIT request** (`timeout_destroys_vm`).
   `docs/DISPOSABLE_AUTOSCALING_CI.md:40`: "The VM is destroyed after one job,
   timeout, cancellation, runner loss, or controller recovery." A Registering or
   Assigned attempt that expires before its JIT request is dispatched to the
   runner transaction, which refuses it for its expiry
   (`disposable_runner_runtime.rs:267`); the deadline cleanup requires a started
   runner (`disposable_worker_coordinator.rs:535`). The planner would clean it
   up, and is not asked. A cancellation delivered by the service still frees it.
2. **Assignment after an acquired offer** (`acquired_assignment`).
   `docs/DISPOSABLE_AUTOSCALING_CI.md:42`: "Glaeda binds the actual assigned job
   from the scale-set lifecycle message before accepting terminal evidence." In
   Reserved the assignment is refused unless received in the same millisecond as
   the offer (`github_scale_set_delivery_consumer.rs:271`), in CloneAuthorized
   and CloneStarted `record_assigned` refuses it. It stays at the head of the
   queue. An assignment without a preceding offer is not affected.
3. **A staged successor of the fence** (`staged_successor`).
   `reconcile_transaction.rs:21`: "That ordering leaves every crash point
   distinguishable", and a test publishes the stage after a restart, through an
   opener only tests use. The opener production uses asks every staged successor
   for its lifecycle resolution first (`reconcile_transaction.rs:256`), so a crash
   between the stage and the rename of AcknowledgementStarted, Acknowledged or
   AcquisitionRecoveryObserved makes every later open fail as corrupt.
4. **Adopted and not synced** (`install_recovery`). `local_install_generation_store.rs:1`:
   "Crash-safe private per-user storage for verified Glaeda binary generations." A
   recovery takes over a stage or a `current.next` by reading it, and syncs directories,
   not the files in them (`local_install_generation_store.rs:1474`). A writer that dies
   before its file syncs, a recovery, and a power loss leave an accepted generation that
   does not load, in a store that no recovery accepts.

Seen while modelling, without a run of their own:

- A completion that arrives after the deadline cleanup retired its attempt is refused
  at every poll: `validate_tombstone_event`
  (`github_scale_set_delivery_consumer.rs:566`) accepts only a result the tombstone
  has. The message stays at the head of the queue, and the VM of the next job stays
  past its own deadline. `EveryAttemptEnds` names it (`RefusedHead`).
- A delivery settles although its message was not deleted. A process that dies after
  the durable AcknowledgementStarted and before the delete is followed by one that
  replays the acquisition and settles on it
  (`github_scale_set_delivery_controller.rs:399`), or settles on the resolution that
  comes for it; `github_scale_set_delivery_settlement.rs:14` speaks of "one conclusively
  acknowledged delivery". `LifecycleSettlesDeleted` is therefore about messages without
  offers.
- Such an offer blocks a later recovery.
  `github_scale_set_delivery_controller.rs:77`: a fresh zero-capacity session either
  "re-acknowledges its exact redelivery or confirms its absence before settlement". The
  session polls from the start of the queue (`:410`); when the offer is there, the
  bridge refuses it at capacity zero, and the recovery learns nothing about its own
  message, at this tick or a later one. It takes three lost sessions: one before the
  offer's delete, one before the answer to the first replay, one before the delete of
  the later message. `FenceSettles` names it (`BehindOffer`).
- The consumer keeps the debt of an unbound clone when its job is canceled, but an
  unbound attempt owns the live poll, and `authorize_registration_locked` fails
  (`disposable_clone_runtime.rs:714`) before it polls: the cancellation is not
  received.
- A publication of the local installation that is replayed returns its receipt
  without a sync, so `reported` covers the receipts of publications only. On a file system
  that does not order changes of different directories, a recovery that acts on a
  switch nobody synced could remove what the old current document names.
- An incomplete stage, a torn `current.next` and a torn resident stage are refused
  by design; the properties exempt them.

## 6. Not modelled

`PROJECT.json` lists every part. The implementation has some 260,000 lines in 304
files; the map covers the control core of the disposable path and of three stores,
a few per cent of them. A third of the whole is out of reach of a model that stays
shorter than its program and true to it.

- **Partly modelled.** Coordinator, transactions and supervisor: the Lima backend
  only; the owned-Linux backend, the template refresh before a reservation and the
  storage gate are a failing step (`Return`). The bridge: its session, not its wire
  format and process supervision. The local installation: not the first
  initialization of the store root, the choice of a launcher directory and the
  build of a candidate.
- **State machines of their own, worth a model next.** The personal worker queue,
  tick and host broker; leases, journal and lane execution; template generation;
  the reclaim stores; the rolling tip ledger; execution capacity.
- **Pure data reduction.** The verification, compute and fleet compilers, adaptive
  routing and most of the binaries turn one document into another; their
  correctness is about the data, which these models abstract.
- **Plumbing.** Host preparation, rootless Podman, guest control, overlay mounts,
  launchd installation, scripts: calls to other programs with little state of
  their own.

What is left to prove is the liveness, once the prover supports fairness, that cleanup
always reaches retirement, and the installation after a recovery adopted unsynced files. Hazards no property covers are in
`PROJECT.json` with the reason.
