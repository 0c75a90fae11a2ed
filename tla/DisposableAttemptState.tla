----------------------- MODULE DisposableAttemptState -----------------------
(***************************************************************************)
(* The durable record of one disposable worker attempt, and every          *)
(* transition of it.  An operator stands for one method of                 *)
(* DisposableAttemptState and returns the set of documents the method may  *)
(* hand back: {} is Err, {a} is the idempotent Ok(self.clone()), and       *)
(* {next} is Ok(next) after next.validate().                               *)
(*                                                                         *)
(* Attempt, claim, VM, runner-name and request identities are all derived  *)
(* from one request by derive_identities, so the field `id' stands for     *)
(* them.  A runner reference is a record with the name it was observed     *)
(* under (an attempt identity) and the service's numeric id.               *)
(***************************************************************************)
EXTENDS Integers

CONSTANTS
  None,         \* Option::None
  AttemptIds,   \* identities derived from runner requests
  VmIdentities, \* digests of descriptor-bound host observations
  RunnerIds,    \* numeric runner ids handed out by the service
  JobIds,       \* Scale Set job ids
  Results,      \* job results
  Canceled,     \* the result "canceled"
  Times,        \* deadlines
  MaxAttemptRevision \* MAX_DISPOSABLE_ATTEMPT_REVISION

ASSUME NoneAssumption ==
  None \notin VmIdentities \cup RunnerIds \cup JobIds \cup Results

ASSUME CanceledAssumption == Canceled \in Results

ASSUME TimesAssumption == Times \subseteq Nat

ASSUME RevisionBoundAssumption == MaxAttemptRevision \in Nat /\ MaxAttemptRevision >= 16

-----------------------------------------------------------------------------
(***************************************************************************)
(* The phases, in groups the methods and the validation share.             *)
(***************************************************************************)
PreClone   == {"Reserved", "UnprovisionedReleasing", "CloneAuthorized"}
Owned      == {"CloneStarted", "Registering", "Waiting", "Assigned", "Running", "Terminal"}
Cleanup    == {"Destroying", "Deregistering", "Releasing"}
Phases     == PreClone \cup Owned \cup Cleanup \cup {"Complete"}

Option(S) == S \cup {None}

Attempts ==
  [id : AttemptIds, revision : 1..MaxAttemptRevision, phase : Phases,
   vm_identity : Option(VmIdentities), jit_generation_started : BOOLEAN,
   runner_id : Option(RunnerIds), runner_start_started : BOOLEAN,
   github_job_id : Option(JobIds), result : Option(Results), not_after : Times]

RunnerReferences == [name : AttemptIds, id : RunnerIds]

ASSUME RunnerAssumption == None \notin RunnerReferences

reserved(id, not_after) ==
  [id |-> id, revision |-> 1, phase |-> "Reserved", vm_identity |-> None,
   jit_generation_started |-> FALSE, runner_id |-> None,
   runner_start_started |-> FALSE, github_job_id |-> None, result |-> None,
   not_after |-> not_after]

-----------------------------------------------------------------------------
(***************************************************************************)
(* validate: what every published document must satisfy.  The revision of  *)
(* a document encodes how it came about, so each phase admits only the     *)
(* revisions its histories can have.                                       *)
(***************************************************************************)
NoEvidence(a) ==
  /\ a.vm_identity = None
  /\ a.runner_id = None
  /\ ~a.jit_generation_started
  /\ ~a.runner_start_started
  /\ a.github_job_id = None
  /\ a.result = None

\* The no-replay checkpoints a document has passed, as the code matches on them.
Checkpoints(a) ==
  <<a.jit_generation_started, a.runner_id # None, a.runner_start_started>>

EvidenceOrdered(a) ==
  /\ a.result # None => a.github_job_id # None
  /\ a.runner_start_started =>
       a.jit_generation_started /\ a.vm_identity # None /\ a.runner_id # None
  /\ a.jit_generation_started => a.vm_identity # None
  /\ a.runner_id # None => a.jit_generation_started
  /\ a.result # None /\ ~a.runner_start_started => a.result = Canceled

RegisteringShape(r, cp) ==
  \/ r = 5 /\ cp = <<FALSE, FALSE, FALSE>>
  \/ r = 6 /\ cp = <<TRUE, FALSE, FALSE>>
  \/ r = 7 /\ cp = <<TRUE, TRUE, FALSE>>
  \/ r = 8 /\ cp = <<TRUE, TRUE, TRUE>>

AssignedShape(r, cp) ==
  \/ r = 6 /\ cp = <<FALSE, FALSE, FALSE>>
  \/ r = 7 /\ cp = <<TRUE, FALSE, FALSE>>
  \/ r = 8 /\ cp = <<TRUE, TRUE, FALSE>>
  \/ r \in {9, 10} /\ cp = <<TRUE, TRUE, TRUE>>

PhaseShape(a) ==
  LET r == a.revision IN
  \/ a.phase = "Reserved" /\ r = 1 /\ NoEvidence(a)
  \/ a.phase = "UnprovisionedReleasing" /\ r \in {2, 3} /\ NoEvidence(a)
  \/ a.phase = "CloneAuthorized" /\ r = 2 /\ NoEvidence(a)
  \/ /\ a.phase = "CloneStarted"
     /\ r \in {3, 4}
     /\ (r = 3) <=> (a.vm_identity = None)
     /\ Checkpoints(a) = <<FALSE, FALSE, FALSE>>
     /\ a.github_job_id = None /\ a.result = None
  \/ /\ a.phase = "Registering"
     /\ a.vm_identity # None /\ a.github_job_id = None /\ a.result = None
     /\ RegisteringShape(r, Checkpoints(a))
  \/ /\ a.phase = "Waiting"
     /\ r = 9
     /\ a.vm_identity # None /\ Checkpoints(a) = <<TRUE, TRUE, TRUE>>
     /\ a.github_job_id = None /\ a.result = None
  \/ /\ a.phase = "Assigned"
     /\ a.vm_identity # None /\ a.github_job_id # None /\ a.result = None
     /\ AssignedShape(r, Checkpoints(a))
  \/ /\ a.phase = "Running"
     /\ r \in {9, 10, 11}
     /\ a.vm_identity # None /\ Checkpoints(a) = <<TRUE, TRUE, TRUE>>
     /\ a.github_job_id # None /\ a.result = None
  \/ /\ a.phase = "Terminal"
     /\ 5 <= r /\ r <= 12
     /\ a.vm_identity # None /\ a.github_job_id # None /\ a.result # None
  \/ a.phase = "Destroying" /\ r >= 5 /\ a.vm_identity # None
  \/ a.phase = "Deregistering" /\ r >= 6 /\ a.vm_identity # None
  \/ a.phase = "Releasing" /\ r >= 7 /\ a.vm_identity # None
  \/ a.phase = "Complete" /\ r \in {2, 3, 4} /\ NoEvidence(a)
  \/ a.phase = "Complete" /\ r >= 8 /\ a.vm_identity # None

validate(a) == EvidenceOrdered(a) /\ PhaseShape(a)

\* Mutant: the document is published unvalidated.
PublishedUnvalidated(a, next) ==
  {[next EXCEPT !.revision = a.revision + 1]}

\* next.validate()?; Ok(next), after revision.next()? (Err past the bound).
Published(a, next) ==
  {b \in {[next EXCEPT !.revision = a.revision + 1]} :
     b.revision <= MaxAttemptRevision /\ validate(b)}

advance_with(a, phase, runner_id, github_job_id, result) ==
  Published(a, [a EXCEPT !.phase = phase, !.runner_id = runner_id,
                         !.github_job_id = github_job_id, !.result = result])

\* advance_with, keeping the evidence.
MoveTo(a, phase) == advance_with(a, phase, a.runner_id, a.github_job_id, a.result)

advance_phase(a, expected, phase) ==
  IF a.phase = expected THEN MoveTo(a, phase) ELSE {}

\* Mutant: the numeric runner id is not compared.
ValidateRunnerNameOnly(a, runner) == runner.name = a.id

\* The observed runner or job must not contradict the durable one.
validate_runner(a, runner) ==
  runner.name = a.id /\ a.runner_id \in {None, runner.id}

validate_job(a, job) == a.github_job_id \in {None, job}

has_clone_started_history(a) ==
  \/ a.phase \in Owned
  \/ a.phase = "Destroying" /\ a.revision >= 5
  \/ a.phase = "Deregistering" /\ a.revision >= 6
  \/ a.phase = "Releasing" /\ a.revision >= 7
  \/ a.phase = "Complete" /\ a.revision >= 8

-----------------------------------------------------------------------------
(***************************************************************************)
(* The transitions.                                                        *)
(***************************************************************************)
authorize_clone(a) == advance_phase(a, "Reserved", "CloneAuthorized")

record_clone_started(a) == advance_phase(a, "CloneAuthorized", "CloneStarted")

bind_vm_identity_after_clone(a, identity) ==
  IF a.phase = "CloneStarted" /\ a.revision = 3 /\ a.vm_identity = None
  THEN Published(a, [a EXCEPT !.vm_identity = identity]) ELSE {}

begin_unprovisioned_release(a) ==
  IF a.phase \in {"Reserved", "CloneAuthorized"}
  THEN advance_with(a, "UnprovisionedReleasing", None, None, None) ELSE {}

\* Mutant: an attempt whose clone has started may complete without cleanup.
CompleteAfterCloneStart(a) ==
  IF a.phase \in PreClone \cup {"CloneStarted"}
  THEN advance_with(a, "Complete", None, None, None) ELSE {}

complete_unprovisioned(a) ==
  IF a.phase \in PreClone
  THEN advance_with(a, "Complete", None, None, None) ELSE {}

begin_registration(a) == advance_phase(a, "CloneStarted", "Registering")

record_jit_generation_started(a) ==
  IF a.phase \notin {"Registering", "Assigned"} \/ a.runner_id # None THEN {}
  ELSE IF a.jit_generation_started THEN {a}
  ELSE Published(a, [a EXCEPT !.jit_generation_started = TRUE])

record_registration(a, runner) ==
  IF \/ a.phase \notin {"Registering", "Assigned"} \cup Cleanup
     \/ ~a.jit_generation_started
     \/ ~validate_runner(a, runner)
  THEN {}
  ELSE IF a.runner_id = runner.id THEN {a}
  ELSE advance_with(a, a.phase, runner.id, a.github_job_id, a.result)

record_runner_start_started(a) ==
  IF \/ a.phase \notin {"Registering", "Assigned"}
     \/ ~a.jit_generation_started \/ a.runner_id = None
  THEN {}
  ELSE IF a.runner_start_started THEN {a}
  ELSE Published(a, [a EXCEPT !.runner_start_started = TRUE])

record_runner_ready(a, runner) ==
  IF ~validate_runner(a, runner) \/ ~a.runner_start_started THEN {}
  ELSE IF a.phase = "Registering" THEN advance_with(a, "Waiting", runner.id, None, None)
  ELSE IF a.phase = "Assigned" /\ a.runner_id = None
    THEN advance_with(a, "Assigned", runner.id, a.github_job_id, None)
  ELSE IF /\ a.phase \in {"Waiting", "Assigned", "Running", "Terminal"}
          /\ a.runner_id = runner.id
    THEN {a} ELSE {}

\* Mutant: a repeated assignment is refused.
RecordAssignedOnce(a, job) ==
  IF validate_job(a, job) /\ a.phase \in {"Registering", "Waiting"}
  THEN advance_with(a, "Assigned", a.runner_id, job, None) ELSE {}

record_assigned(a, job) ==
  IF ~validate_job(a, job) THEN {}
  ELSE IF a.phase \in {"Registering", "Waiting"}
    THEN advance_with(a, "Assigned", a.runner_id, job, None)
  ELSE IF a.phase \in {"Assigned", "Running", "Terminal"} /\ a.github_job_id = job
    THEN {a} ELSE {}

\* A start reported after cleanup began is recorded without leaving the
\* cleanup phase, and only when the attempt is known to have owned a VM.
record_running(a, runner, job) ==
  LET same == a.runner_id = runner.id /\ a.github_job_id = job IN
  IF ~validate_runner(a, runner) \/ ~a.runner_start_started \/ ~validate_job(a, job)
    THEN {}
  ELSE IF a.phase \in {"Registering", "Waiting", "Assigned"}
    THEN advance_with(a, "Running", runner.id, job, None)
  ELSE IF a.phase \in {"Running", "Terminal"} THEN (IF same THEN {a} ELSE {})
  ELSE IF \/ a.phase \notin Cleanup \cup {"Complete"}
          \/ a.github_job_id = None /\ ~has_clone_started_history(a)
    THEN {}
  ELSE IF same THEN {a}
  ELSE IF a.result # None THEN {}
  ELSE advance_with(a, a.phase, runner.id, job, None)

\* Mutant: a completion that arrives during cleanup moves back to Terminal.
RecordTerminalReopens(a, runner, job, result) ==
  LET observed == IF runner = None THEN None ELSE runner.id IN
  IF \/ runner # None /\ ~validate_runner(a, runner)
     \/ ~validate_job(a, job)
     \/ observed = None /\ a.github_job_id = None
     \/ a.result # None \/ a.phase \in PreClone
    THEN {}
  ELSE advance_with(a, "Terminal",
                    IF a.runner_id # None THEN a.runner_id ELSE observed, job, result)

\* runner is None for the service's runnerless completion.
record_terminal(a, runner, job, result) ==
  LET observed == IF runner = None THEN None ELSE runner.id
      late     == a.phase \in Cleanup \cup {"Complete"}
  IN
  IF \/ runner # None /\ ~validate_runner(a, runner)
     \/ ~validate_job(a, job)
     \/ observed = None /\ a.github_job_id = None
    THEN {}
  ELSE IF a.result # None THEN
    {b \in {a} : /\ a.github_job_id = job /\ a.result = result
                 /\ observed \in {None, a.runner_id}}
  ELSE IF \/ ~late /\ a.phase \notin Owned \ {"Terminal"}
          \/ late /\ a.github_job_id = None /\ ~has_clone_started_history(a)
    THEN {}
  ELSE advance_with(a, IF late THEN a.phase ELSE "Terminal",
                    IF a.runner_id # None THEN a.runner_id ELSE observed, job, result)

\* Mutant: cleanup is refused once a result has been recorded.
BeginCleanupWithoutResult(a) ==
  IF a.phase \in PreClone \/ a.result # None THEN {}
  ELSE IF a.phase \in Owned THEN MoveTo(a, "Destroying")
  ELSE {a}

begin_cleanup(a) ==
  IF a.phase \in PreClone THEN {}
  ELSE IF a.phase \in Owned THEN MoveTo(a, "Destroying")
  ELSE {a}

\* Mutant: deregistration completes the attempt directly.
AdvanceCleanupSkipsRelease(a, phase) ==
  IF a.phase = phase THEN {a}
  ELSE IF <<a.phase, phase>> \in {<<"Destroying", "Deregistering">>,
                                  <<"Deregistering", "Complete">>}
    THEN MoveTo(a, phase) ELSE {}

advance_cleanup(a, phase) ==
  IF a.phase = phase THEN {a}
  ELSE IF <<a.phase, phase>> \in {<<"Destroying", "Deregistering">>,
                                  <<"Deregistering", "Releasing">>,
                                  <<"Releasing", "Complete">>}
    THEN MoveTo(a, phase) ELSE {}

-----------------------------------------------------------------------------
(***************************************************************************)
(* is_exact_successor_of: the test a store applies to a staged document.   *)
(* It re-runs every public transition of the current document, taking the  *)
(* inputs from the candidate.  Binding the VM identity is not among them.  *)
(***************************************************************************)
\* Mutant: the successor test only tries runner-bearing completions.
SuccessorNeedsRunner(b, a) ==
  LET runner == [name |-> b.id, id |-> b.runner_id] IN
  \/ b \in authorize_clone(a) \cup record_clone_started(a)
           \cup begin_unprovisioned_release(a) \cup complete_unprovisioned(a)
           \cup begin_registration(a) \cup record_jit_generation_started(a)
           \cup record_runner_start_started(a) \cup begin_cleanup(a)
           \cup advance_cleanup(a, b.phase)
  \/ /\ b.runner_id # None
     /\ b \in record_registration(a, runner) \cup record_runner_ready(a, runner)
  \/ /\ b.github_job_id # None
     /\ \/ b \in record_assigned(a, b.github_job_id)
        \/ b.runner_id # None /\ b \in record_running(a, runner, b.github_job_id)
        \/ /\ b.result # None /\ b.runner_id # None
           /\ b \in record_terminal(a, runner, b.github_job_id, b.result)

is_exact_successor_of(b, a) ==
  LET runner == [name |-> b.id, id |-> b.runner_id] IN
  \/ b \in authorize_clone(a) \cup record_clone_started(a)
           \cup begin_unprovisioned_release(a) \cup complete_unprovisioned(a)
           \cup begin_registration(a) \cup record_jit_generation_started(a)
           \cup record_runner_start_started(a) \cup begin_cleanup(a)
           \cup advance_cleanup(a, b.phase)
  \/ /\ b.runner_id # None
     /\ b \in record_registration(a, runner) \cup record_runner_ready(a, runner)
  \/ /\ b.github_job_id # None
     /\ \/ b \in record_assigned(a, b.github_job_id)
        \/ b.runner_id # None /\ b \in record_running(a, runner, b.github_job_id)
        \/ /\ b.result # None
           /\ \/ b \in record_terminal(a, None, b.github_job_id, b.result)
              \/ /\ b.runner_id # None
                 /\ b \in record_terminal(a, runner, b.github_job_id, b.result)

=============================================================================
