--------------------- MODULE DisposableWorkerCoordinator ---------------------
(***************************************************************************)
(* The coordinator of one host, driving the durable catalog against the    *)
(* world: Lima, the guest's runner, the service's registrations and its    *)
(* message queue.  Everything durable is in `catalog' and `delivery'; the  *)
(* controller's own memory is `pc', and it may be lost at any point: an    *)
(* error, a timeout and a crash all return to "idle", while a clone that   *)
(* was issued may still finish.                                            *)
(*                                                                         *)
(* A tick polls, then dispatches one operation of the only active attempt. *)
(* The queue redelivers its head until it is acknowledged, so an event the *)
(* consumer refuses stops every tick that must poll first.                 *)
(***************************************************************************)
EXTENDS ScaleSetDeliveryConsumer, DisposableWorkerReconciler

CONSTANTS
  MaxTime,        \* bound on the clock while no deadline is open
  Offers,         \* the jobs the service may also offer (Available, then Assigned)
  VmReplaceable   \* whether another actor may replace a VM under its name

ASSUME CoordinatorAssumption ==
  /\ MaxTime \in Nat /\ JobMaxMillis \in Nat
  /\ Offers \subseteq AttemptIds /\ VmReplaceable \in BOOLEAN

VARIABLES
  catalog,  \* the published attempt catalog
  delivery, \* the delivery fence: None or the reconciled message and its progress
  pc,       \* where the controller stands
  now,      \* its clock
  mailbox,  \* the service's queue of unacknowledged messages
  job,      \* the service's view of each job
  runner,   \* the registration under each attempt's name
  vm,       \* the identity of the VM under each attempt's name
  cloning,  \* attempts whose clone command is running
  guest,    \* attempts whose runner listens inside its VM
  effects   \* ghost: how often each irreversible command was issued

vars == <<catalog, delivery, pc, now, mailbox, job, runner, vm, cloning, guest, effects>>
durable == <<catalog, delivery>>
service == <<mailbox, job, runner>>
host == <<vm, cloning, guest>>

-----------------------------------------------------------------------------
IsActive(id) == find_active(catalog, id) # {}
attempt == Head(catalog.active)
Expired(a) == now > a.not_after
Ready(a) == a.vm_identity # None /\ vm[a.id] = a.vm_identity

\* A tick that may dispatch: no delivery to recover and one active attempt.
Driving(at, phases) ==
  /\ pc = at /\ delivery = None
  /\ Len(catalog.active) = 1
  /\ attempt.phase \in phases

Transition(action) ==
  catalog' \in replace_attempt(catalog, attempt.id, attempt.revision, action)

\* reconcile_attempt as the transactions call it.
Plan(vm_observation, vm_identity, runner_observation) ==
  reconcile_attempt([now |-> now, attempt |-> attempt, vm |-> vm_observation,
                     vm_identity |-> vm_identity, runner |-> runner_observation,
                     job_event |-> None, capacity_reserved |-> TRUE,
                     cancellation_requested |-> FALSE])

UnknownRunner == [kind |-> "Unknown"]

ObservedRunner(id) ==
  IF runner[id] = None THEN [kind |-> "Absent"]
  ELSE [kind |-> "RegistrationOnly", runner |-> [name |-> id, id |-> runner[id]]]

\* operation_for: these phases poll under their own gate, after the deadline
\* and, for registration, after the guest was found ready.
OwnsLivePoll ==
  Len(catalog.active) = 1 /\ attempt.phase \in {"CloneAuthorized", "CloneStarted"}

PollIsReached ==
  OwnsLivePoll =>
    /\ ~Expired(attempt)
    /\ IF attempt.phase = "CloneAuthorized" THEN vm[attempt.id] = None ELSE Ready(attempt)

-----------------------------------------------------------------------------
(***************************************************************************)
(* Deliveries: reconcile and publish with the fence, acknowledge, settle.  *)
(***************************************************************************)
\* Mutant: the fence is published without the catalog it belongs to.
ReconcileFenceOnly ==
  /\ pc = "idle" /\ delivery = None /\ mailbox # <<>>
  /\ Len(catalog.active) <= 1 /\ PollIsReached
  /\ IF Head(mailbox).kind = "Completed" THEN UNCHANGED catalog
     ELSE catalog' \in reconcile_event(Head(mailbox), catalog, now)
  /\ delivery' = [event |-> Head(mailbox), acknowledged |-> FALSE, acquired |-> FALSE]
  /\ UNCHANGED <<pc, now, service, host, effects>>

Reconcile ==
  /\ pc = "idle" /\ delivery = None /\ mailbox # <<>>
  /\ Len(catalog.active) <= 1 /\ PollIsReached
  /\ catalog' \in reconcile_event(Head(mailbox), catalog, now)
  /\ delivery' = [event |-> Head(mailbox), acknowledged |-> FALSE, acquired |-> FALSE]
  /\ UNCHANGED <<pc, now, service, host, effects>>

\* The service drops the message and, for an offered job, hands it over or not.
Acknowledge ==
  /\ pc = "idle" /\ delivery # None /\ ~delivery.acknowledged
  /\ LET event == delivery.event IN
     \E acquired \in IF event.kind = "Available" THEN BOOLEAN ELSE {FALSE} :
       /\ delivery' = [delivery EXCEPT !.acknowledged = TRUE, !.acquired = acquired]
       /\ job' = IF event.kind = "Available"
                 THEN [job EXCEPT ![event.id].state = IF acquired THEN "acquired" ELSE "gone"]
                 ELSE job
  /\ mailbox' = Tail(mailbox)
  /\ UNCHANGED <<catalog, pc, now, runner, host, effects>>

Settle ==
  /\ pc = "idle" /\ delivery # None /\ delivery.acknowledged
  /\ catalog' \in settle_scale_set_delivery_catalog(delivery.event, delivery.acquired, catalog)
  /\ delivery' = None
  /\ UNCHANGED <<pc, now, service, host, effects>>

\* The outer poll found nothing: go on to dispatch.
PollIdle ==
  /\ Driving("idle", Phases) /\ mailbox = <<>> /\ ~OwnsLivePoll
  /\ pc' = "dispatch"
  /\ UNCHANGED <<durable, now, service, host, effects>>

-----------------------------------------------------------------------------
(***************************************************************************)
(* Provisioning.                                                           *)
(***************************************************************************)
AuthorizeClone ==
  /\ Driving("dispatch", {"Reserved"}) /\ vm[attempt.id] = None
  /\ Transition([name |-> IF Expired(attempt) THEN "BeginUnprovisionedRelease"
                                              ELSE "AuthorizeClone"])
  /\ pc' = "idle"
  /\ UNCHANGED <<delivery, now, service, host, effects>>

ExpireBeforeClone ==
  /\ Driving("idle", {"CloneAuthorized"}) /\ Expired(attempt)
  /\ Transition([name |-> "BeginUnprovisionedRelease"])
  /\ UNCHANGED <<delivery, pc, now, service, host, effects>>

\* Mutant: the command is issued before its checkpoint is published.
CloneBeforeCheckpoint ==
  /\ Driving("idle", {"CloneAuthorized"}) /\ PollIsReached /\ mailbox = <<>>
  /\ cloning' = cloning \cup {attempt.id}
  /\ effects' = [effects EXCEPT ![attempt.id].clones = @ + 1]
  /\ pc' = "clone"
  /\ UNCHANGED <<durable, now, service, vm, guest>>

\* The checkpoint is published before the command is issued.
CheckpointClone ==
  /\ Driving("idle", {"CloneAuthorized"}) /\ PollIsReached /\ mailbox = <<>>
  /\ catalog' \in checkpoint_clone_started(catalog, attempt.id, attempt.revision)
  /\ pc' = "clone"
  /\ UNCHANGED <<delivery, now, service, host, effects>>

ExecuteClone ==
  /\ Driving("clone", {"CloneStarted"})
  /\ cloning' = cloning \cup {attempt.id}
  /\ effects' = [effects EXCEPT ![attempt.id].clones = @ + 1]
  /\ pc' = "cloning"
  /\ UNCHANGED <<durable, now, service, vm, guest>>

\* The command returned and the new disk's identity was observed.
BindVmIdentity ==
  /\ Driving("cloning", {"CloneStarted"})
  /\ attempt.id \notin cloning /\ vm[attempt.id] # None
  /\ catalog' \in catalog_bind_vm_identity_after_clone(catalog, attempt.id, attempt.revision,
                                                       vm[attempt.id])
  /\ pc' = "idle"
  /\ UNCHANGED <<delivery, now, service, host, effects>>

\* An expired attempt goes to cleanup on its deadline alone; otherwise the
\* guest must be ready and the final poll empty.
CheckpointRegistration ==
  /\ Driving("idle", {"CloneStarted"}) /\ attempt.vm_identity # None
  /\ Expired(attempt) \/ (PollIsReached /\ mailbox = <<>>)
  /\ \E act \in IF Expired(attempt) THEN Plan("Unknown", None, UnknownRunner)
                                    ELSE Plan("Ready", attempt.vm_identity, UnknownRunner) :
       act.name = "Persist" /\ Transition(act.transition)
  /\ UNCHANGED <<delivery, pc, now, service, host, effects>>

-----------------------------------------------------------------------------
(***************************************************************************)
(* The runner transaction: JIT secret, registration, start, one command.   *)
(***************************************************************************)
RunRunner ==
  /\ Driving("dispatch", {"Registering", "Assigned"})
  /\ attempt.runner_id = None /\ ~attempt.runner_start_started

\* After a lost JIT response the registration is adopted for cleanup.
RecoverRegistration ==
  /\ RunRunner /\ attempt.jit_generation_started /\ runner[attempt.id] # None
  /\ Transition([name |-> "RecordRegistration", runner |-> ObservedRunner(attempt.id).runner])
  /\ pc' = "idle"
  /\ UNCHANGED <<delivery, now, service, host, effects>>

\* validate_pre_jit_candidate, a ready guest and an unused runner name.
CheckpointJit ==
  /\ RunRunner /\ ~attempt.jit_generation_started /\ ~Expired(attempt) /\ Ready(attempt)
  /\ runner[attempt.id] = None
  /\ Transition([name |-> "RecordJitGenerationStarted"])
  /\ pc' = "jit"
  /\ UNCHANGED <<delivery, now, service, host, effects>>

IssuedRunners == {runner[id] : id \in AttemptIds} \cup
                 {a.runner_id : a \in Range(catalog.active \o catalog.tombstones)}

GenerateJit ==
  /\ Driving("jit", {"Registering", "Assigned"}) /\ ~Expired(attempt) /\ Ready(attempt)
  /\ \E r \in RunnerIds \ IssuedRunners : runner' = [runner EXCEPT ![attempt.id] = r]
  /\ effects' = [effects EXCEPT ![attempt.id].jits = @ + 1]
  /\ pc' = "jitted"
  /\ UNCHANGED <<durable, now, mailbox, job, host>>

RecordRegistration ==
  /\ Driving("jitted", {"Registering", "Assigned"})
  /\ Transition([name |-> "RecordRegistration", runner |-> ObservedRunner(attempt.id).runner])
  /\ pc' = "registered"
  /\ UNCHANGED <<delivery, now, service, host, effects>>

CheckpointStart ==
  /\ Driving("registered", {"Registering", "Assigned"}) /\ ~Expired(attempt) /\ Ready(attempt)
  /\ Transition([name |-> "RecordRunnerStartStarted"])
  /\ pc' = "start"
  /\ UNCHANGED <<delivery, now, service, host, effects>>

\* The command needs time left before the deadline.
ExecuteRunner ==
  /\ Driving("start", {"Registering", "Assigned"}) /\ now < attempt.not_after /\ Ready(attempt)
  /\ guest' = guest \cup {attempt.id}
  /\ effects' = [effects EXCEPT ![attempt.id].starts = @ + 1]
  /\ pc' = "running"
  /\ UNCHANGED <<durable, now, service, vm, cloning>>

-----------------------------------------------------------------------------
(***************************************************************************)
(* Cleanup.                                                                *)
(***************************************************************************)
\* Mutant: the deadline is not compared.
DeadlineCleanupEarly ==
  /\ Driving("dispatch", {"Registering", "Waiting", "Assigned", "Running"})
  /\ attempt.runner_start_started
  /\ Transition([name |-> "BeginCleanup"])
  /\ pc' = "idle"
  /\ UNCHANGED <<delivery, now, service, host, effects>>

\* Mutant: only an attempt whose job was seen to start has a deadline.
DeadlineCleanupRunningOnly ==
  /\ Driving("dispatch", {"Running"})
  /\ attempt.runner_start_started /\ Expired(attempt)
  /\ Transition([name |-> "BeginCleanup"])
  /\ pc' = "idle"
  /\ UNCHANGED <<delivery, now, service, host, effects>>

\* requires_post_start_deadline_cleanup
DeadlineCleanup ==
  /\ Driving("dispatch", {"Registering", "Waiting", "Assigned", "Running"})
  /\ attempt.runner_start_started /\ Expired(attempt)
  /\ Transition([name |-> "BeginCleanup"])
  /\ pc' = "idle"
  /\ UNCHANGED <<delivery, now, service, host, effects>>

\* A finished job, and a registration whose secret was lost, are cleaned up.
BeginCleanup ==
  /\ \/ Driving("dispatch", {"Terminal"})
     \/ /\ Driving("dispatch", {"Registering", "Assigned"})
        /\ attempt.runner_id # None /\ ~attempt.runner_start_started
  /\ Transition([name |-> "BeginCleanup"])
  /\ pc' = "idle"
  /\ UNCHANGED <<delivery, now, service, host, effects>>

CompleteUnprovisioned ==
  /\ Driving("dispatch", {"UnprovisionedReleasing"})
  /\ Transition([name |-> "CompleteUnprovisioned"])
  /\ pc' = "idle"
  /\ UNCHANGED <<delivery, now, service, host, effects>>

RetireComplete ==
  /\ Driving("dispatch", {"Complete"})
  /\ catalog' \in retire_complete(catalog, attempt.id, attempt.revision)
  /\ pc' = "idle"
  /\ UNCHANGED <<delivery, now, service, host, effects>>

\* Mutant: whatever stands under the VM's name is taken for the bound VM.
ConfirmByName ==
  /\ Driving("dispatch", Cleanup) /\ vm[attempt.id] # None
  /\ pc' = "destroy"
  /\ UNCHANGED <<durable, now, service, host, effects>>

\* observe_cleanup_worker and the last confirm_current: a VM whose disk is not
\* the bound one is an error, and stays.
ConfirmVm ==
  /\ Driving("dispatch", Cleanup) /\ Ready(attempt)
  /\ [name |-> "DestroyVm"] \in Plan("Stopped", attempt.vm_identity, UnknownRunner)
  /\ pc' = "destroy"
  /\ UNCHANGED <<durable, now, service, host, effects>>

\* The command names the VM: whatever stands under the name by now is deleted.
DestroyVm ==
  /\ Driving("destroy", Cleanup)
  /\ vm' = [vm EXCEPT ![attempt.id] = None]
  /\ guest' = guest \ {attempt.id}
  /\ pc' = "idle"
  /\ UNCHANGED <<durable, now, service, cloning, effects>>

\* The VM is gone: advance, adopt or delete the registration, or release.
CleanupPlan ==
  Plan("Absent", None, IF attempt.phase = "Destroying" THEN UnknownRunner
                                                       ELSE ObservedRunner(attempt.id))

\* Mutant: cleanup advances without a fresh look at the VM.
AdvanceCleanupUnobserved ==
  /\ Driving("dispatch", Cleanup)
  /\ \E act \in CleanupPlan :
       \/ act.name = "Persist" /\ Transition(act.transition)
       \/ /\ act.name = "ReleaseCapacity"
          /\ Transition([name |-> "AdvanceCleanup", phase |-> "Complete"])
  /\ pc' = "idle"
  /\ UNCHANGED <<delivery, now, service, host, effects>>

AdvanceCleanup ==
  /\ Driving("dispatch", Cleanup) /\ vm[attempt.id] = None
  /\ \E act \in CleanupPlan :
       \/ act.name = "Persist" /\ Transition(act.transition)
       \/ /\ act.name = "ReleaseCapacity"
          /\ Transition([name |-> "AdvanceCleanup", phase |-> "Complete"])
  /\ pc' = "idle"
  /\ UNCHANGED <<delivery, now, service, host, effects>>

RemoveRunner ==
  /\ Driving("dispatch", Cleanup) /\ vm[attempt.id] = None
  /\ \E act \in CleanupPlan :
       act.name = "DeleteRunner" /\ act.runner.id = runner[act.runner.name]
  /\ runner' = [runner EXCEPT ![attempt.id] = None]
  /\ pc' = "idle"
  /\ UNCHANGED <<durable, now, mailbox, job, host, effects>>

\* The operation ends, fails, or the controller dies: durable state stands,
\* what it knew is gone.
Return ==
  /\ pc # "idle"
  /\ pc' = "idle"
  /\ UNCHANGED <<durable, now, service, host, effects>>

-----------------------------------------------------------------------------
(***************************************************************************)
(* The world.                                                              *)
(***************************************************************************)
\* The clock stops at the bound, or past the deadline of an active attempt.
Tick ==
  /\ now < MaxTime \/ \E a \in Range(catalog.active) : ~Expired(a)
  /\ now' = now + 1
  /\ UNCHANGED <<durable, pc, service, host, effects>>

\* A clone command ends, whether or not the controller still waits for it.
CloneEnds ==
  /\ \E id \in cloning :
       /\ cloning' = cloning \ {id}
       /\ \/ UNCHANGED vm
          \/ \E v \in VmIdentities \ ({vm[other] : other \in AttemptIds} \cup
                {a.vm_identity : a \in Range(catalog.active \o catalog.tombstones)}) :
               vm' = [vm EXCEPT ![id] = v]
  /\ UNCHANGED <<durable, pc, now, service, guest, effects>>

ReplaceVm ==
  /\ VmReplaceable
  /\ \E id \in AttemptIds, v \in VmIdentities \ {vm[other] : other \in AttemptIds} :
       /\ vm[id] # None
       /\ vm' = [vm EXCEPT ![id] = v]
       /\ guest' = guest \ {id}
  /\ UNCHANGED <<durable, pc, now, service, cloning, effects>>

RunnerExits ==
  /\ \E id \in guest : guest' = guest \ {id}
  /\ UNCHANGED <<durable, pc, now, service, vm, cloning, effects>>

Job(state, served_by, result) == [state |-> state, runner |-> served_by, result |-> result]

Send(event, next) ==
  /\ mailbox' = Append(mailbox, event)
  /\ job' = [job EXCEPT ![event.id] = next]

\* New work goes only to a controller that advertises capacity.
AdvertisesCapacity ==
  /\ catalog.active = <<>> /\ delivery = None /\ pc = "idle" /\ mailbox = <<>>

OfferJob ==
  /\ AdvertisesCapacity
  /\ \E id \in Offers :
       job[id].state = "queued" /\ Send(Available(id), Job("offered", None, None))
  /\ UNCHANGED <<durable, pc, now, runner, host, effects>>

AssignJob ==
  /\ \E id \in AttemptIds :
       /\ \/ job[id].state = "queued" /\ AdvertisesCapacity
          \/ job[id].state = "acquired"
       /\ Send(Assigned(id), Job("assigned", None, None))
  /\ UNCHANGED <<durable, pc, now, runner, host, effects>>

StartJob ==
  /\ \E id \in guest :
       /\ job[id].state = "assigned" /\ runner[id] # None
       /\ Send(Started(id, [name |-> id, id |-> runner[id]]),
               Job("started", runner[id], None))
  /\ UNCHANGED <<durable, pc, now, runner, host, effects>>

\* The service removes the registration of a one-job runner, now or later.
CompleteJob ==
  /\ \E id \in AttemptIds, result \in Results :
       /\ job[id].state = "started"
       /\ Send(Completed(id, [name |-> id, id |-> job[id].runner], result),
               Job("completed", job[id].runner, result))
       /\ runner' \in {runner, [runner EXCEPT ![id] = None]}
  /\ UNCHANGED <<durable, pc, now, host, effects>>

CancelJob ==
  /\ \E id \in AttemptIds :
       /\ job[id].state \in {"acquired", "assigned"}
       /\ Send(Completed(id, None, Canceled), Job("completed", None, Canceled))
  /\ UNCHANGED <<durable, pc, now, runner, host, effects>>

-----------------------------------------------------------------------------
Init ==
  /\ catalog = empty /\ delivery = None /\ pc = "idle" /\ now = 0
  /\ mailbox = <<>>
  /\ job = [id \in AttemptIds |-> Job("queued", None, None)]
  /\ runner = [id \in AttemptIds |-> None]
  /\ vm = [id \in AttemptIds |-> None]
  /\ cloning = {} /\ guest = {}
  /\ effects = [id \in AttemptIds |-> [clones |-> 0, jits |-> 0, starts |-> 0]]

Deliveries == Reconcile \/ Acknowledge \/ Settle

Operations ==
  \/ AuthorizeClone \/ ExpireBeforeClone \/ CheckpointClone \/ ExecuteClone
  \/ BindVmIdentity \/ CheckpointRegistration
  \/ RecoverRegistration \/ CheckpointJit \/ GenerateJit \/ RecordRegistration
  \/ CheckpointStart \/ ExecuteRunner
  \/ DeadlineCleanup \/ BeginCleanup \/ CompleteUnprovisioned \/ RetireComplete
  \/ ConfirmVm \/ DestroyVm \/ AdvanceCleanup \/ RemoveRunner

World ==
  \/ Tick \/ CloneEnds \/ ReplaceVm \/ RunnerExits
  \/ OfferJob \/ AssignJob \/ StartJob \/ CompleteJob \/ CancelJob

Next == Deliveries \/ PollIdle \/ Operations \/ Return \/ World

Spec == Init /\ [][Next]_vars

\* What a tick may begin with, each a write, the confirmation before a delete or
\* the first checkpoint of a transaction.
TickOperations ==
  \/ AuthorizeClone \/ ExpireBeforeClone \/ CheckpointClone \/ CheckpointRegistration
  \/ RecoverRegistration \/ CheckpointJit
  \/ DeadlineCleanup \/ BeginCleanup \/ CompleteUnprovisioned \/ RetireComplete
  \/ ConfirmVm \/ AdvanceCleanup \/ RemoveRunner

(***************************************************************************)
(* What the code's scheduling guarantees: the supervisor ticks for ever,   *)
(* every command and exchange has a finite deadline (Return), time passes, *)
(* and ticks that could begin an operation, because their observations     *)
(* succeed, are not all lost to failures, nor all the delete commands they *)
(* get to.  Nothing is assumed of the service, of the runner or of an      *)
(* orphaned clone command.                                                 *)
(***************************************************************************)
Fairness ==
  /\ WF_vars(Tick) /\ WF_vars(Return) /\ WF_vars(Deliveries) /\ WF_vars(PollIdle)
  /\ SF_vars(TickOperations) /\ SF_vars(DestroyVm)

FairSpec == Spec /\ Fairness

-----------------------------------------------------------------------------
(***************************************************************************)
(* Safety.                                                                 *)
(***************************************************************************)
\* The clone command, the JIT request and the runner command are each issued
\* at most once for an attempt, whatever the controller forgot in between and
\* whatever the service redelivered: never a second worker for the same job.
AtMostOnceEffects ==
  \A id \in AttemptIds :
    effects[id].clones <= 1 /\ effects[id].jits <= 1 /\ effects[id].starts <= 1

\* Every VM, clone command, registration and running guest belongs to an
\* attempt that still holds capacity and has durably recorded the step that
\* made it: an empty catalog means an empty host and service.
WorkersAreOwned ==
  \A id \in AttemptIds :
    LET holds(P(_)) == \E a \in find_active(catalog, id) : a.phase # "Complete" /\ P(a) IN
    /\ id \in cloning \/ vm[id] # None => holds(LAMBDA a : has_clone_started_history(a))
    /\ runner[id] # None => holds(LAMBDA a : a.jit_generation_started)
    /\ id \in guest => holds(LAMBDA a : a.runner_start_started /\ vm[id] # None)

\* A VM that is not the one its attempt bound is deleted only by a command that
\* was under way when it came: while it stands under the attempt's name, no
\* tick gets as far as the delete.
ForeignVmIsSpared ==
  [][\A id \in AttemptIds :
       /\ vm[id] # None /\ \A a \in find_active(catalog, id) : a.vm_identity # vm[id]
       /\ vm'[id] = None \/ pc' = "destroy"
       => pc = "destroy"]_vars

\* A job that is running in its guest is torn down only past its deadline,
\* also when the controller died while serving it and recovers from the
\* catalog alone.
RunningJobIsSpared ==
  [][\A id \in guest :
       job[id].state = "started" /\ vm[id] # None /\ vm'[id] = None =>
         \E a \in find_active(catalog, id) : Expired(a)]_vars

\* A message leaves the queue only when the catalog durably holds what it
\* said: the request, the runner and job of a start, the result of a
\* completion; and an attempt whose job was canceled is on its way out.
AcknowledgedIsDurable ==
  \A id \in AttemptIds :
    LET known == find_active(catalog, id) \cup find_tombstone(catalog, id)
        taken(kind) == ~ \E e \in Range(mailbox) : e.kind = kind /\ e.id = id
        state == job[id].state
    IN
    /\ state \in {"acquired", "gone"} \/ (state = "assigned" /\ taken("Assigned")) => known # {}
    /\ state \in {"started", "completed"} /\ job[id].runner # None /\ taken("Started") =>
         \E a \in known : a.github_job_id = JobOf(id) /\ a.runner_id = job[id].runner
    /\ state = "completed" /\ taken("Completed") =>
         \E a \in known :
           \/ a.result = job[id].result
           \/ /\ job[id].runner = None
              /\ \/ a.phase \in Cleanup \cup {"UnprovisionedReleasing", "Complete"}
                 \/ a.phase = "CloneStarted" /\ a.vm_identity = None

-----------------------------------------------------------------------------
(***************************************************************************)
(* Liveness.                                                               *)
(***************************************************************************)
\* What the code leaves to an operator: a clone whose outcome is unknown, a
\* JIT request whose outcome is unknown, and a guest that was never handed its
\* JIT secret before the deadline.
RecoveryDebt(a) ==
  \/ a.phase = "CloneStarted" /\ a.vm_identity = None
  \/ /\ a.phase \in {"Registering", "Assigned"} /\ a.runner_id = None
     /\ \/ a.jit_generation_started /\ runner[a.id] = None
        \/ ~a.jit_generation_started /\ Expired(a)

\* The head of the queue is a message the consumer refuses: the completion of an
\* attempt that was retired without its result, and the assignment of an
\* attempt that was reserved for an earlier message and is not yet registered.
RefusedHead ==
  /\ mailbox # <<>>
  /\ LET event == Head(mailbox) IN
     \/ /\ event.kind = "Completed"
        /\ \E a \in find_tombstone(catalog, event.id) : ~ validate_tombstone_event(a, event)
     \/ /\ event.kind = "Assigned"
        /\ \E a \in find_active(catalog, event.id) \cup find_tombstone(catalog, event.id) :
             a.github_job_id = None

\* No reservation stays: whatever crash, cancellation, lost runner or silent
\* service comes, each is retired and its capacity returned, or ends as one of
\* the three recovery debts, so that again and again nothing else is active.
\* Only a message that is refused at every poll stops this, once it stands at
\* the head of the queue for good.
EveryAttemptEnds ==
  \/ \A id \in AttemptIds : []<>(\A a \in find_active(catalog, id) : RecoveryDebt(a))
  \/ <>[]RefusedHead

\* "The VM is destroyed after ... timeout": a bound VM whose attempt expired
\* before any JIT secret was requested is eventually gone.
TimeoutDestroysVm ==
  \A id \in AttemptIds :
    (\E a \in find_active(catalog, id) :
       a.vm_identity # None /\ ~a.jit_generation_started /\ Expired(a)) ~> (vm[id] = None)

\* "Glaeda binds the actual assigned job from the scale-set lifecycle message":
\* the assignment of an acquired job is eventually taken from the queue.
AssignmentSettles ==
  \A id \in AttemptIds :
    (mailbox # <<>> /\ Head(mailbox) = Assigned(id))
    ~> (mailbox = <<>> \/ Head(mailbox) # Assigned(id))

=============================================================================
