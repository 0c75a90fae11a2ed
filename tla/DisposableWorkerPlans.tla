------------------------ MODULE DisposableWorkerPlans ------------------------
(***************************************************************************)
(* The planner asked about every document an attempt can reach, with every *)
(* observation it may be handed: unknown, foreign and contradictory ones,  *)
(* expired or canceled attempts, lost capacity, and job events.            *)
(***************************************************************************)
EXTENDS DisposableAttemptLifecycle, DisposableWorkerReconciler

RunnerObservations ==
  [kind : {"Unknown", "Absent", "Conflicting"}]
  \cup [kind : {"RegistrationOnly", "IdleReady"}, runner : RunnerReferences]

JobEvents ==
  [kind : {"Started"}, runner : RunnerReferences, job : JobIds]
  \cup [kind : {"Completed"}, runner : RunnerReferences \cup {None}, job : JobIds,
        result : Results]

\* now is taken at the deadline and one past it.
InputsFor(a, events) ==
  [now : {a.not_after, a.not_after + 1}, attempt : {a}, vm : VmObservations,
   vm_identity : Option(VmIdentities), runner : RunnerObservations, job_event : events,
   capacity_reserved : BOOLEAN, cancellation_requested : BOOLEAN]

Inputs == InputsFor(attempt, {None}) \cup
          {in \in InputsFor(attempt, JobEvents) :
             in.vm = "Unknown" /\ in.runner.kind = "Unknown" /\ ~in.cancellation_requested}

\* A plan to persist a transition names one the attempt accepts and that
\* changes it: the controller never spins on a plan that does nothing and is
\* never refused by the document it planned from.
PlansAreExecutable ==
  \A in \in Inputs : \A act \in reconcile_attempt(in) :
    act.name = "Persist" => apply_action(attempt, act.transition) \ {attempt} # {}

\* Whatever was observed, only the durable VM of the attempt is destroyed,
\* only its durable runner deleted, and neither a clone nor a JIT secret is
\* asked for a second time.
PlansStayOwned ==
  \A in \in Inputs : \A act \in reconcile_attempt(in) :
    /\ act.name \in {"DestroyVm", "DiscardIncompleteVm"} =>
         attempt.vm_identity # None /\ in.vm_identity = attempt.vm_identity
    /\ act.name = "DeleteRunner" =>
         attempt.runner_id = act.runner.id /\ attempt.id = act.runner.name
    /\ act.name = "CheckpointAndCloneVm" => "CloneStarted" \notin history
    /\ act.name = "CheckpointAndGenerateJit" => ~attempt.jit_generation_started

\* Capacity of an attempt that may own a VM is released only on positive
\* evidence that both the VM and the registration are gone.
ReleaseNeedsAbsence ==
  \A in \in Inputs : \A act \in reconcile_attempt(in) :
    /\ "CloneStarted" \in history
    /\ \/ act.name = "ReleaseCapacity"
       \/ act.name = "Persist" /\
            act.transition \in {[name |-> "CompleteUnprovisioned"],
                                [name |-> "AdvanceCleanup", phase |-> "Complete"]}
    => in.vm = "Absent" /\ in.runner.kind = "Absent"

=============================================================================
