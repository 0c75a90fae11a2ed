--------------------- MODULE DisposableAttemptLifecycle ---------------------
(***************************************************************************)
(* One attempt under every sequence of calls its callers may make: the     *)
(* clone, runner and cleanup transactions, and the service's lifecycle     *)
(* events, which may be late, repeated, out of order or about someone      *)
(* else's runner.  The callers' own conditions are not assumed here: what  *)
(* holds below holds whatever order they call in.                          *)
(***************************************************************************)
EXTENDS DisposableAttemptState

VARIABLES
  attempt, \* the durable document
  history  \* ghost: the phases the document has been in

vars == <<attempt, history>>

Init ==
  /\ \E id \in AttemptIds, t \in Times : attempt = reserved(id, t)
  /\ history = {"Reserved"}

Becomes(documents) ==
  \E b \in documents : attempt' = b /\ history' = history \cup {b.phase}

AuthorizeClone == Becomes(authorize_clone(attempt))
RecordCloneStarted == Becomes(record_clone_started(attempt))
BindVmIdentity ==
  \E v \in VmIdentities : Becomes(bind_vm_identity_after_clone(attempt, v))
BeginUnprovisionedRelease == Becomes(begin_unprovisioned_release(attempt))
CompleteUnprovisioned == Becomes(complete_unprovisioned(attempt))
BeginRegistration == Becomes(begin_registration(attempt))
RecordJitGenerationStarted == Becomes(record_jit_generation_started(attempt))
RecordRegistration ==
  \E r \in RunnerReferences : Becomes(record_registration(attempt, r))
RecordRunnerStartStarted == Becomes(record_runner_start_started(attempt))
RecordRunnerReady ==
  \E r \in RunnerReferences : Becomes(record_runner_ready(attempt, r))
RecordAssigned == \E j \in JobIds : Becomes(record_assigned(attempt, j))
RecordRunning ==
  \E r \in RunnerReferences, j \in JobIds : Becomes(record_running(attempt, r, j))
RecordTerminal ==
  \E r \in RunnerReferences \cup {None}, j \in JobIds, x \in Results :
    Becomes(record_terminal(attempt, r, j, x))
BeginCleanup == Becomes(begin_cleanup(attempt))
AdvanceCleanup == \E p \in Phases : Becomes(advance_cleanup(attempt, p))

Next ==
  \/ AuthorizeClone \/ RecordCloneStarted \/ BindVmIdentity
  \/ BeginUnprovisionedRelease \/ CompleteUnprovisioned
  \/ BeginRegistration \/ RecordJitGenerationStarted \/ RecordRegistration
  \/ RecordRunnerStartStarted \/ RecordRunnerReady
  \/ RecordAssigned \/ RecordRunning \/ RecordTerminal
  \/ BeginCleanup \/ AdvanceCleanup

Spec == Init /\ [][Next]_vars

-----------------------------------------------------------------------------
\* The document always passes validate, so a restart can always decode it,
\* and the ghost only holds phases.
TypeOK ==
  /\ attempt \in Attempts
  /\ validate(attempt)
  /\ history \subseteq Phases

\* Identities are prechosen, and VM, runner, job and result evidence and the
\* two no-replay checkpoints are written once: no later call, however late
\* its evidence, changes or clears one.
EvidenceIsPermanent ==
  [][ /\ attempt'.id = attempt.id
      /\ attempt'.not_after = attempt.not_after
      /\ attempt.vm_identity # None => attempt'.vm_identity = attempt.vm_identity
      /\ attempt.runner_id # None => attempt'.runner_id = attempt.runner_id
      /\ attempt.github_job_id # None => attempt'.github_job_id = attempt.github_job_id
      /\ attempt.result # None => attempt'.result = attempt.result
      /\ attempt.jit_generation_started => attempt'.jit_generation_started
      /\ attempt.runner_start_started => attempt'.runner_start_started ]_vars

\* Cleanup is one way: no evidence, not even a job that starts or ends late,
\* takes an attempt out of cleanup, and it leaves each cleanup phase only for
\* the next one.
CleanupIsOneWay ==
  [][ attempt.phase \in Cleanup \cup {"Complete"} /\ attempt'.phase # attempt.phase =>
        <<attempt.phase, attempt'.phase>> \in
          {<<"Destroying", "Deregistering">>, <<"Deregistering", "Releasing">>,
           <<"Releasing", "Complete">>} ]_vars

\* has_clone_started_history reads the past off phase and revision alone; it
\* is right in every reachable document.
HistoryFromRevision ==
  has_clone_started_history(attempt) <=> "CloneStarted" \in history

\* An attempt whose clone may have run completes only after its VM, its
\* runner and its capacity went through their cleanup phases.
TeardownBeforeComplete ==
  attempt.phase = "Complete" /\ "CloneStarted" \in history => Cleanup \subseteq history

\* No sequence of calls, repeated evidence included, drives the revision of
\* an attempt past 16, so the bound of the revision space never refuses a
\* transition.
RevisionIsBounded == attempt.revision <= 16

\* Evidence that was accepted is accepted again, unchanged, when the same
\* message is delivered once more right after it.
RedeliveryIsIdempotent ==
  [][ /\ \A r \in RunnerReferences :
           /\ attempt' \in record_registration(attempt, r) =>
                record_registration(attempt', r) = {attempt'}
           /\ attempt' \in record_runner_ready(attempt, r) =>
                record_runner_ready(attempt', r) = {attempt'}
      /\ \A j \in JobIds :
           /\ attempt' \in record_assigned(attempt, j) =>
                record_assigned(attempt', j) = {attempt'}
           /\ \A r \in RunnerReferences :
                attempt' \in record_running(attempt, r, j) =>
                  record_running(attempt', r, j) = {attempt'}
           /\ \A r \in RunnerReferences \cup {None}, x \in Results :
                attempt' \in record_terminal(attempt, r, j, x) =>
                  record_terminal(attempt', r, j, x) = {attempt'} ]_vars

\* Whatever evidence has arrived, the next cleanup step of an attempt that
\* owns a VM is never refused by validation: no owned VM is stranded by its
\* own document.
CleanupNeverRefused ==
  attempt.vm_identity # None /\ attempt.phase # "Complete" =>
    \E b \in begin_cleanup(attempt) \cup UNION {advance_cleanup(attempt, p) : p \in Phases} :
      b.phase # attempt.phase

\* An unbound CloneStarted attempt is recovery debt: it cannot register, be
\* cleaned up, release capacity or accept job evidence; only the clone
\* transaction may bind its VM.
UnboundCloneIsDebt ==
  attempt.phase = "CloneStarted" /\ attempt.vm_identity = None =>
    /\ authorize_clone(attempt) \cup record_clone_started(attempt) = {}
    /\ begin_registration(attempt) \cup begin_cleanup(attempt) = {}
    /\ begin_unprovisioned_release(attempt) \cup complete_unprovisioned(attempt) = {}
    /\ record_jit_generation_started(attempt) \cup record_runner_start_started(attempt) = {}
    /\ \A p \in Phases \ {"CloneStarted"} : advance_cleanup(attempt, p) = {}
    /\ \A j \in JobIds :
         /\ record_assigned(attempt, j) = {}
         /\ \A r \in RunnerReferences : record_running(attempt, r, j) = {}
         /\ \A r \in RunnerReferences \cup {None}, x \in Results :
              record_terminal(attempt, r, j, x) = {}

\* The store's successor test accepts every public transition and never the
\* binding of a VM identity, which only the clone transaction may publish.
SuccessorTestIsExact ==
  [][ is_exact_successor_of(attempt', attempt) <=>
        attempt'.vm_identity = attempt.vm_identity ]_attempt

=============================================================================
