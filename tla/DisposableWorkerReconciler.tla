---------------------- MODULE DisposableWorkerReconciler ----------------------
(***************************************************************************)
(* reconcile_attempt: the one next action the durable attempt and fresh    *)
(* observations of its VM and runner call for.  The result is a set: {} is *)
(* Err, otherwise one action.                                              *)
(***************************************************************************)
EXTENDS DisposableAttemptCatalog

VmObservations == {"Unknown", "Absent", "Stopped", "Ready", "Conflicting"}

Act(name) == {[name |-> name]}
Observe(target) == {[name |-> "Observe", target |-> target]}
Blocked(code) == {[name |-> "Blocked", code |-> code]}
DeleteRunner(runner) == {[name |-> "DeleteRunner", runner |-> runner]}
persist(transition) == {[name |-> "Persist", transition |-> transition]}
PersistPhase(name) == persist([name |-> name])

\* persist(validate_transition(..)?)
PersistValid(a, transition) ==
  {act \in persist(transition) : apply_action(a, transition) # {}}

\* Mutant: the observed identity is not compared with the durable one.
ValidateVmPresence(a, vm, vm_identity) ==
  (vm \in {"Stopped", "Ready"}) <=> (vm_identity # None)

\* Identity evidence comes with a present VM, and only with one, and must not
\* contradict the durable identity.
validate_vm_observation(a, vm, vm_identity) ==
  /\ (vm \in {"Stopped", "Ready"}) <=> (vm_identity # None)
  /\ a.vm_identity = None \/ vm_identity \in {None, a.vm_identity}

\* A runner observation: [kind |-> Unknown | Absent | Conflicting] or
\* [kind |-> RegistrationOnly | IdleReady, runner |-> reference].
RunnerPresent(runner) == runner.kind \in {"RegistrationOnly", "IdleReady"}

validate_runner_observation(a, runner) ==
  RunnerPresent(runner) => validate_runner(a, runner.runner)

\* A job event is recorded when it changes the attempt; a replay plans nothing.
plan_job_event(a, event) ==
  IF event.kind = "Started"
  THEN [name |-> "RecordRunning", runner |-> event.runner, job |-> event.job]
  ELSE [name |-> "RecordTerminal", runner |-> event.runner, job |-> event.job,
        result |-> event.result]

-----------------------------------------------------------------------------
(***************************************************************************)
(* The plan for each group of phases; `cleanup' is cancellation or expiry. *)
(***************************************************************************)
PlanReserved(vm, cleanup) ==
  IF cleanup THEN PersistPhase("BeginUnprovisionedRelease")
  ELSE IF vm = "Unknown" THEN Observe("Vm")
  ELSE IF vm = "Absent" THEN PersistPhase("AuthorizeClone")
  ELSE Blocked("vm_exists_before_clone_authorization")

PlanCloneAuthorized(vm, cleanup) ==
  IF cleanup THEN PersistPhase("BeginUnprovisionedRelease")
  ELSE IF vm = "Unknown" THEN Observe("Vm")
  ELSE IF vm = "Absent" THEN Act("CheckpointAndCloneVm")
  ELSE Blocked("vm_changed_before_clone_start")

PlanCloneStarted(vm, cleanup) ==
  IF cleanup \/ vm = "Absent" THEN PersistPhase("BeginCleanup")
  ELSE IF vm = "Unknown" THEN Observe("Vm")
  ELSE IF vm = "Stopped" THEN Act("DiscardIncompleteVm")
  ELSE PersistPhase("BeginRegistration")

\* Registering or Assigned, the runner not yet started.
PlanHandoff(a, vm, runner, cleanup) ==
  IF cleanup \/ vm \in {"Absent", "Stopped"} THEN PersistPhase("BeginCleanup")
  ELSE IF vm = "Unknown" THEN Observe("Vm")
  ELSE IF runner.kind = "Unknown" THEN Observe("Runner")
  ELSE IF runner.kind = "Absent" THEN
    IF ~a.jit_generation_started THEN Act("CheckpointAndGenerateJit")
    ELSE IF a.runner_id = None THEN Blocked("jit_generation_outcome_unknown")
    ELSE PersistPhase("BeginCleanup")
  ELSE IF ~a.jit_generation_started THEN Blocked("runner_exists_before_jit_checkpoint")
  ELSE IF a.runner_id = None
    THEN PersistValid(a, [name |-> "RecordRegistration", runner |-> runner.runner])
  ELSE PersistPhase("BeginCleanup")

\* Registering, the runner started but not yet seen ready.
PlanStarting(a, runner, cleanup) ==
  IF cleanup THEN PersistPhase("BeginCleanup")
  ELSE IF runner.kind = "Unknown" THEN Observe("Runner")
  ELSE IF runner.kind = "IdleReady"
    THEN PersistValid(a, [name |-> "RecordRunnerReady", runner |-> runner.runner])
  ELSE PersistPhase("BeginCleanup")

PlanServing(a, vm, runner, cleanup) ==
  IF cleanup \/ vm \in {"Absent", "Stopped"} THEN PersistPhase("BeginCleanup")
  ELSE IF vm = "Unknown" THEN Observe("Vm")
  ELSE IF runner.kind = "Unknown" THEN Observe("Runner")
  ELSE IF runner.kind # "IdleReady" THEN PersistPhase("BeginCleanup")
  ELSE IF a.runner_id = None
    THEN PersistValid(a, [name |-> "RecordRunnerReady", runner |-> runner.runner])
  ELSE Act("Wait")

\* Mutant: deregistration does not look at the VM again.
PlanCleanupTrustsPhase(a, vm, runner, capacity_reserved) ==
  IF vm = "Unknown" /\ a.phase = "Destroying" THEN Observe("Vm")
  ELSE IF vm \in {"Stopped", "Ready"} /\ a.phase = "Destroying" THEN Act("DestroyVm")
  ELSE IF a.phase = "Destroying" THEN persist([name |-> "AdvanceCleanup", phase |-> "Deregistering"])
  ELSE IF a.phase = "Deregistering" THEN persist([name |-> "AdvanceCleanup", phase |-> "Releasing"])
  ELSE IF capacity_reserved THEN Act("ReleaseCapacity")
  ELSE persist([name |-> "AdvanceCleanup", phase |-> "Complete"])

\* Destroying, Deregistering, Releasing: each looks at the VM again, the last
\* two also at the registration, before anything is given up.  (An attempt in
\* cleanup always has its VM bound, so the code's unbound branches are void.)
PlanCleanup(a, vm, runner, capacity_reserved) ==
  IF vm = "Unknown" THEN Observe("Vm")
  ELSE IF vm \in {"Stopped", "Ready"} THEN Act("DestroyVm")
  ELSE IF a.phase = "Destroying"
    THEN persist([name |-> "AdvanceCleanup", phase |-> "Deregistering"])
  ELSE IF runner.kind = "Unknown" THEN Observe("Runner")
  ELSE IF runner.kind = "Absent" THEN
    IF a.phase = "Deregistering"
      THEN persist([name |-> "AdvanceCleanup", phase |-> "Releasing"])
    ELSE IF capacity_reserved THEN Act("ReleaseCapacity")
    ELSE persist([name |-> "AdvanceCleanup", phase |-> "Complete"])
  ELSE IF a.runner_id # None THEN DeleteRunner(runner.runner)
  ELSE IF a.phase = "Deregistering" /\ ~a.jit_generation_started
    THEN Blocked("runner_exists_before_jit_checkpoint")
  ELSE PersistValid(a, [name |-> "RecordRegistration", runner |-> runner.runner])

PlanComplete(vm, runner, capacity_reserved) ==
  IF capacity_reserved THEN Blocked("completed_attempt_retains_capacity")
  ELSE IF vm = "Unknown" \/ runner.kind = "Unknown"
    THEN Blocked("completed_attempt_external_state_unknown")
  ELSE IF vm # "Absent" \/ runner.kind # "Absent"
    THEN Blocked("completed_attempt_retains_external_state")
  ELSE Act("NoOp")

PlanPhase(a, in) ==
  LET cleanup == in.cancellation_requested \/ in.now > a.not_after IN
  CASE a.phase = "Reserved" -> PlanReserved(in.vm, cleanup)
    [] a.phase = "UnprovisionedReleasing" -> Act("ReleaseCapacity")
    [] a.phase = "CloneAuthorized" -> PlanCloneAuthorized(in.vm, cleanup)
    [] a.phase = "CloneStarted" -> PlanCloneStarted(in.vm, cleanup)
    [] a.phase \in {"Registering", "Assigned"} /\ ~a.runner_start_started ->
         PlanHandoff(a, in.vm, in.runner, cleanup)
    [] a.phase = "Registering" /\ a.runner_start_started ->
         PlanStarting(a, in.runner, cleanup)
    [] \/ a.phase \in {"Waiting", "Running"}
       \/ a.phase = "Assigned" /\ a.runner_start_started ->
         PlanServing(a, in.vm, in.runner, cleanup)
    [] a.phase = "Terminal" -> PersistPhase("BeginCleanup")
    [] a.phase \in Cleanup -> PlanCleanup(a, in.vm, in.runner, in.capacity_reserved)
    [] a.phase = "Complete" -> PlanComplete(in.vm, in.runner, in.capacity_reserved)

\* Mutant: every attempt is completed as if it had never been cloned.
PlanWithoutCapacityUnprovisioned(a) == PersistPhase("CompleteUnprovisioned")

\* Lost capacity ends an attempt, by whether it may own a VM.
PlanWithoutCapacity(a) ==
  IF a.phase \in PreClone THEN PersistPhase("CompleteUnprovisioned")
  ELSE PersistPhase("BeginCleanup")

reconcile_attempt(in) ==
  LET a == in.attempt
      transition == plan_job_event(a, in.job_event)
  IN
  IF in.vm = "Conflicting" THEN Blocked("conflicting_vm_identity")
  ELSE IF ~validate_vm_observation(a, in.vm, in.vm_identity) THEN {}
  ELSE IF in.runner.kind = "Conflicting" THEN Blocked("conflicting_runner_identity")
  ELSE IF ~validate_runner_observation(a, in.runner) THEN {}
  ELSE IF a.phase = "CloneStarted" /\ a.vm_identity = None
    THEN Blocked("unbound_vm_recovery_required")
  ELSE IF in.job_event # None /\ apply_action(a, transition) # {a}
    THEN PersistValid(a, transition)
  ELSE IF ~in.capacity_reserved /\ a.phase \in PreClone \cup Owned
    THEN PlanWithoutCapacity(a)
  ELSE PlanPhase(a, in)

=============================================================================
