----------------------- MODULE ScaleSetDeliveryConsumer -----------------------
(***************************************************************************)
(* What one service event does to the catalog before its message is        *)
(* acknowledged.  As in the modules below it, an operator returns the set  *)
(* of catalogs handed back, {} for Err.                                    *)
(*                                                                         *)
(* An event names its request by the identity derive_identities gives it,  *)
(* and that identity also fixes the job: JobOf(id).  The enrolment checks  *)
(* on repository, owner and labels and the policy's resources and template *)
(* are the same for every event and are left out.                          *)
(***************************************************************************)
EXTENDS DisposableAttemptCatalog

CONSTANTS
  JobOf(_),     \* the job evidence an identity is derived from
  JobMaxMillis  \* DISPOSABLE_JOB_MAX_MILLIS

ASSUME JobAssumption == \A id \in AttemptIds : JobOf(id) \in JobIds

Available(id) == [kind |-> "Available", id |-> id]
Assigned(id) == [kind |-> "Assigned", id |-> id]
Started(id, runner) == [kind |-> "Started", id |-> id, runner |-> runner]
Completed(id, runner, result) ==
  [kind |-> "Completed", id |-> id, runner |-> runner, result |-> result]

DeliveryEvents ==
  [kind : {"Available", "Assigned"}, id : AttemptIds]
  \cup [kind : {"Started"}, id : AttemptIds, runner : RunnerReferences]
  \cup [kind : {"Completed"}, id : AttemptIds, runner : Option(RunnerReferences), result : Results]

attempt_not_after(observed_at) == observed_at + JobMaxMillis

event_action(event) ==
  CASE event.kind = "Assigned" -> [name |-> "RecordAssigned", job |-> JobOf(event.id)]
    [] event.kind = "Started" ->
         [name |-> "RecordRunning", runner |-> event.runner, job |-> JobOf(event.id)]
    [] event.kind = "Completed" ->
         [name |-> "RecordTerminal", runner |-> event.runner, job |-> JobOf(event.id),
          result |-> event.result]

IsRunnerlessCancellation(event) ==
  event.kind = "Completed" /\ event.runner = None /\ event.result = Canceled

is_unbound_runnerless_cancellation(event, a) ==
  a.github_job_id = None /\ IsRunnerlessCancellation(event)

\* The three catalog steps that take an untouched reservation to history.
retire_unprovisioned_cancellation(c, a) ==
  UNION {UNION {UNION {retire_complete(complete, a.id, done.revision) :
                         done \in find_active(complete, a.id)} :
                  complete \in UNION {replace_attempt(releasing, a.id, b.revision,
                                                      [name |-> "CompleteUnprovisioned"]) :
                                        b \in find_active(releasing, a.id)}} :
           releasing \in replace_attempt(c, a.id, a.revision,
                                         [name |-> "BeginUnprovisionedRelease"])}

\* A retired attempt accepts only what it already knows, or the cancellation
\* of a job it never heard of.
validate_tombstone_event(a, event) ==
  LET same_runner == a.id = event.runner.name /\ a.runner_id = event.runner.id IN
  \/ event.kind = "Available"
  \/ event.kind = "Assigned" /\ a.github_job_id = JobOf(event.id)
  \/ event.kind = "Started" /\ a.github_job_id = JobOf(event.id) /\ same_runner
  \/ /\ event.kind = "Completed"
     /\ \/ /\ a.github_job_id = JobOf(event.id) /\ a.result = event.result
           /\ event.runner = None \/ same_runner
        \/ /\ a.phase = "Complete" /\ a.github_job_id = None /\ a.result = None
           /\ IsRunnerlessCancellation(event)

-----------------------------------------------------------------------------
(***************************************************************************)
(* reconcile_event: a request for a worker, and lifecycle evidence.        *)
(***************************************************************************)
ReconcileRequest(event, c, observed_at) ==
  LET not_after == attempt_not_after(observed_at)
      active    == find_active(c, event.id)
      retired   == find_tombstone(c, event.id)
  IN
  IF active # {} THEN
    UNION {IF \/ event.kind = "Available"
              \/ a.phase = "Reserved" /\ a.github_job_id = None
           THEN {d \in {c} : a.not_after = not_after}
           ELSE replace_attempt(c, a.id, a.revision, event_action(event)) : a \in active}
  ELSE IF retired # {} THEN
    {d \in {c} : \A a \in retired :
       /\ event.kind = "Available" => a.not_after = not_after
       /\ validate_tombstone_event(a, event)}
  ELSE IF host_usage(c) # 0 THEN {}
  ELSE reserve(c, reserved(event.id, not_after))

\* A job canceled before any runner took it, by how far the attempt has come.
CancelUnbound(c, a) ==
  IF a.phase \in {"Reserved", "CloneAuthorized"}
    THEN retire_unprovisioned_cancellation(c, a)
  ELSE IF a.phase = "CloneStarted" /\ a.vm_identity = None THEN {c}
  ELSE IF a.phase \in {"CloneStarted", "Registering", "Waiting"}
    THEN replace_attempt(c, a.id, a.revision, [name |-> "BeginCleanup"])
  ELSE IF a.phase \in Cleanup \cup {"UnprovisionedReleasing", "Complete"} THEN {c}
  ELSE {}

ReconcileEvidence(event, c) ==
  LET active == find_active(c, event.id)  retired == find_tombstone(c, event.id) IN
  IF active # {} THEN
    UNION {IF is_unbound_runnerless_cancellation(event, a) THEN CancelUnbound(c, a)
           ELSE replace_attempt(c, a.id, a.revision, event_action(event)) : a \in active}
  ELSE {d \in {c} : retired # {} /\ \A a \in retired : validate_tombstone_event(a, event)}

reconcile_event(event, c, observed_at) ==
  IF event.kind \in {"Available", "Assigned"}
  THEN ReconcileRequest(event, c, observed_at)
  ELSE ReconcileEvidence(event, c)

\* What the settlement of an acknowledged Available message does to the
\* catalog: a request the service did not hand over is released.
settle_scale_set_delivery_catalog(event, acquired, c) ==
  LET active == find_active(c, event.id)  retired == find_tombstone(c, event.id) IN
  IF event.kind # "Available" THEN {c}
  ELSE IF acquired \/ active = {} THEN {d \in {c} : active \cup retired # {}}
  ELSE UNION {IF a.phase = "Reserved" THEN retire_unprovisioned_cancellation(c, a)
              ELSE {d \in {c} : a.github_job_id # None \/ a.phase = "Complete"} : a \in active}

=============================================================================
