----------------------- MODULE DisposableAttemptLemmas -----------------------
(***************************************************************************)
(* What each transition of an attempt document does, for every valid       *)
(* document and every set of identities, jobs, results and deadlines: one  *)
(* relation Step that all of them satisfy, what validation accepts, that   *)
(* evidence is accepted again, and what the successor test sees.  Then     *)
(* what each operation of the catalog does to the sets of active and of    *)
(* retired documents.                                                      *)
(***************************************************************************)
EXTENDS DisposableAttemptCatalog, SequenceTheorems, FiniteSetTheorems, WellFoundedInduction, TLAPS

ValidAttempts == {a \in Attempts : validate(a)}

\* What one accepted call never does to the evidence of a document.
Keeps(a, b) ==
  /\ b.id = a.id
  /\ b.not_after = a.not_after
  /\ a.vm_identity # None => b.vm_identity = a.vm_identity
  /\ a.runner_id # None => b.runner_id = a.runner_id
  /\ a.github_job_id # None => b.github_job_id = a.github_job_id
  /\ a.result # None => b.result = a.result
  /\ a.jit_generation_started => b.jit_generation_started
  /\ a.runner_start_started => b.runner_start_started

\* The cleanup phases follow one another.
CleanupMoves ==
  {<<"Destroying", "Deregistering">>, <<"Deregistering", "Releasing">>,
   <<"Releasing", "Complete">>}

\* How one accepted call may move the phase.
Moves(a, b) ==
  \/ /\ b.phase = a.phase
     /\ a.phase = "Complete" => b.revision = a.revision \/ a.revision >= 8
  \/ /\ a.phase \in PreClone
     /\ b.phase \in PreClone \cup {"CloneStarted", "Complete"}
     /\ b.phase = "Complete" => b.revision <= 4
  \/ a.phase \in Owned /\ b.phase \in (Owned \ {"CloneStarted"}) \cup {"Destroying"}
  \/ <<a.phase, b.phase>> \in CleanupMoves

\* Evidence that is still missing from a cleanup document leaves room for the
\* calls that may yet add it.
Spare(a) ==
  (IF a.github_job_id = None THEN 2 ELSE 0) + (IF a.result = None THEN 1 ELSE 0)
  + (IF a.runner_id = None THEN 1 ELSE 0)

\* The strengthening behind RevisionIsBounded.
Budget(a) ==
  /\ a.phase = "Terminal" => a.revision + Spare(a) <= 12
  /\ a.phase = "Destroying" => a.revision + Spare(a) <= 13
  /\ a.phase = "Deregistering" => a.revision + Spare(a) <= 14
  /\ a.phase = "Releasing" => a.revision + Spare(a) <= 15
  /\ a.phase = "Complete" /\ a.revision >= 8 => a.revision + Spare(a) <= 16

\* One accepted call.
Step(a, b) == b \in ValidAttempts /\ Keeps(a, b) /\ Moves(a, b) /\ (Budget(a) => Budget(b))

-----------------------------------------------------------------------------
\* Publication yields a valid document of the next revision and nothing else.
LEMMA PublishedIsValid ==
  ASSUME NEW a \in Attempts, NEW next \in Attempts, NEW b \in Published(a, next)
  PROVE  /\ b \in ValidAttempts
         /\ b = [next EXCEPT !.revision = a.revision + 1]
         /\ b.revision = a.revision + 1
<1>1. b = [next EXCEPT !.revision = a.revision + 1]
  BY DEF Published
<1>2. /\ b.revision <= MaxAttemptRevision
      /\ validate(b)
  BY DEF Published
<1>3. b.revision = a.revision + 1
  BY <1>1 DEF Attempts
<1>4. b \in Attempts
  BY <1>1, <1>2, <1>3, RevisionBoundAssumption DEF Attempts
<1> QED
  BY <1>1, <1>2, <1>3, <1>4 DEF ValidAttempts

\* advance_with replaces phase, runner, job and result, and keeps the rest.
LEMMA AdvanceWith ==
  ASSUME NEW a \in Attempts, NEW p \in Phases, NEW r \in Option(RunnerIds),
         NEW j \in Option(JobIds), NEW x \in Option(Results),
         NEW b \in advance_with(a, p, r, j, x)
  PROVE  /\ b \in ValidAttempts
         /\ b.revision = a.revision + 1
         /\ b.phase = p /\ b.runner_id = r /\ b.github_job_id = j /\ b.result = x
         /\ b.id = a.id /\ b.not_after = a.not_after /\ b.vm_identity = a.vm_identity
         /\ b.jit_generation_started = a.jit_generation_started
         /\ b.runner_start_started = a.runner_start_started
<1> DEFINE next == [a EXCEPT !.phase = p, !.runner_id = r,
                             !.github_job_id = j, !.result = x]
<1>1. next \in Attempts
  BY DEF Attempts
<1>2. b \in Published(a, next)
  BY DEF advance_with
<1>3. /\ b \in ValidAttempts
      /\ b = [next EXCEPT !.revision = a.revision + 1]
  BY <1>1, <1>2, PublishedIsValid
<1> QED
  BY <1>1, <1>3 DEF Attempts

-----------------------------------------------------------------------------
(***************************************************************************)
(* What validate says of each phase before cleanup: the revision and the   *)
(* runner binding go together.                                             *)
(***************************************************************************)
\* Before the clone nothing external is recorded.
LEMMA PreCloneShape ==
  ASSUME NEW a \in ValidAttempts, a.phase \in PreClone
  PROVE  /\ NoEvidence(a)
         /\ a.revision = 1 \/ a.revision = 2 \/ a.revision = 3
BY DEF ValidAttempts, validate, PreClone, PhaseShape

\* A started clone is bound exactly from revision 4 on.
LEMMA CloneStartedShape ==
  ASSUME NEW a \in ValidAttempts, a.phase = "CloneStarted"
  PROVE  /\ a.runner_id = None /\ a.github_job_id = None /\ a.result = None
         /\ ~a.jit_generation_started /\ ~a.runner_start_started
         /\ a.vm_identity = None => a.revision = 3
         /\ a.vm_identity # None => a.revision = 4
BY DEF ValidAttempts, validate, PhaseShape, Checkpoints

\* While registering, the runner is bound from revision 7 on.
LEMMA RegisteringShapes ==
  ASSUME NEW a \in ValidAttempts, a.phase = "Registering"
  PROVE  /\ a.vm_identity # None /\ a.github_job_id = None /\ a.result = None
         /\ \/ a.revision = 5 /\ a.runner_id = None
            \/ a.revision = 6 /\ a.runner_id = None
            \/ a.revision = 7 /\ a.runner_id # None
            \/ a.revision = 8 /\ a.runner_id # None
BY DEF ValidAttempts, validate, PhaseShape, RegisteringShape, Checkpoints

\* With a job assigned early, the runner is bound from revision 8 on.
LEMMA AssignedShapes ==
  ASSUME NEW a \in ValidAttempts, a.phase = "Assigned"
  PROVE  /\ a.vm_identity # None /\ a.github_job_id # None /\ a.result = None
         /\ \/ a.revision = 6 /\ a.runner_id = None
            \/ a.revision = 7 /\ a.runner_id = None
            \/ a.revision = 8 /\ a.runner_id # None
            \/ a.revision = 9 /\ a.runner_id # None
            \/ a.revision = 10 /\ a.runner_id # None
BY DEF ValidAttempts, validate, PhaseShape, AssignedShape, Checkpoints

\* A running job has its runner bound.
LEMMA RunningShapes ==
  ASSUME NEW a \in ValidAttempts, a.phase = "Running"
  PROVE  /\ a.vm_identity # None /\ a.runner_id # None
         /\ a.github_job_id # None /\ a.result = None
         /\ a.revision = 9 \/ a.revision = 10 \/ a.revision = 11
BY DEF ValidAttempts, validate, PhaseShape, Checkpoints

\* A waiting runner is bound at revision 9.
LEMMA WaitingShapes ==
  ASSUME NEW a \in ValidAttempts, a.phase = "Waiting"
  PROVE  /\ a.vm_identity # None /\ a.runner_id # None
         /\ a.github_job_id = None /\ a.result = None
         /\ a.revision = 9
BY DEF ValidAttempts, validate, PhaseShape, Checkpoints

-----------------------------------------------------------------------------
(***************************************************************************)
(* Every transition, applied to a valid document, is a Step.               *)
(***************************************************************************)
\* The idempotent Ok(self.clone()) of a repeated call is a step.
LEMMA StutterIsStep ==
  ASSUME NEW a \in ValidAttempts
  PROVE  Step(a, a)
BY DEF Step, Keeps, Moves, ValidAttempts

\* The types of the evidence advance_with may be given.
LEMMA EvidenceTypes ==
  ASSUME NEW a \in ValidAttempts
  PROVE  /\ a \in Attempts
         /\ a.runner_id \in Option(RunnerIds) /\ None \in Option(RunnerIds)
         /\ a.github_job_id \in Option(JobIds) /\ None \in Option(JobIds)
         /\ a.result \in Option(Results) /\ None \in Option(Results)
         /\ a.revision \in Nat /\ a.revision >= 1
         /\ a.phase \in Phases
BY DEF ValidAttempts, Attempts, Option

\* The calls that move an attempt before its runner exists.
LEMMA ProvisioningSteps ==
  ASSUME NEW a \in ValidAttempts,
         NEW b \in authorize_clone(a) \cup record_clone_started(a)
                   \cup begin_unprovisioned_release(a) \cup complete_unprovisioned(a)
                   \cup begin_registration(a)
  PROVE  Step(a, b)
<1> USE EvidenceTypes DEF Step, Keeps, Moves, Budget, Phases, PreClone, Owned, Cleanup
<1>1. CASE b \in authorize_clone(a)
  BY <1>1, AdvanceWith DEF authorize_clone, advance_phase, MoveTo
<1>2. CASE b \in record_clone_started(a)
  BY <1>2, AdvanceWith DEF record_clone_started, advance_phase, MoveTo
<1>3. CASE b \in begin_unprovisioned_release(a)
  BY <1>3, AdvanceWith, PreCloneShape DEF begin_unprovisioned_release, NoEvidence
<1>4. CASE b \in complete_unprovisioned(a)
  BY <1>4, AdvanceWith, PreCloneShape DEF complete_unprovisioned, NoEvidence
<1>5. CASE b \in begin_registration(a)
  BY <1>5, AdvanceWith DEF begin_registration, advance_phase, MoveTo
<1> QED
  BY <1>1, <1>2, <1>3, <1>4, <1>5

\* The calls that publish a checkpoint or the VM binding without advance_with.
LEMMA CheckpointSteps ==
  ASSUME NEW a \in ValidAttempts, NEW v \in VmIdentities,
         NEW b \in bind_vm_identity_after_clone(a, v) \cup record_jit_generation_started(a)
                   \cup record_runner_start_started(a)
  PROVE  Step(a, b)
<1> USE EvidenceTypes DEF Step, Keeps, Moves, Budget
<1>1. CASE b \in bind_vm_identity_after_clone(a, v)
  <2> DEFINE next == [a EXCEPT !.vm_identity = v]
  <2>1. a.phase = "CloneStarted" /\ a.vm_identity = None /\ b \in Published(a, next)
    BY <1>1 DEF bind_vm_identity_after_clone
  <2>2. next \in Attempts
    BY DEF Attempts, Option
  <2>3. b \in ValidAttempts /\ b = [next EXCEPT !.revision = a.revision + 1]
    BY <2>1, <2>2, PublishedIsValid
  <2>4. /\ b.phase = a.phase /\ b.id = a.id /\ b.not_after = a.not_after
        /\ b.runner_id = a.runner_id /\ b.github_job_id = a.github_job_id
        /\ b.result = a.result
        /\ b.jit_generation_started = a.jit_generation_started
        /\ b.runner_start_started = a.runner_start_started
    BY <2>2, <2>3 DEF Attempts
  <2> QED
    BY <2>1, <2>3, <2>4
<1>2. CASE b \in record_jit_generation_started(a)
  <2> DEFINE next == [a EXCEPT !.jit_generation_started = TRUE]
  <2>1. a.phase \in {"Registering", "Assigned"} /\ (b = a \/ b \in Published(a, next))
    BY <1>2 DEF record_jit_generation_started
  <2>2. next \in Attempts
    BY DEF Attempts
  <2>3. b # a => b \in ValidAttempts /\ b = [next EXCEPT !.revision = a.revision + 1]
    BY <2>1, <2>2, PublishedIsValid
  <2>4. b # a =>
          /\ b.phase = a.phase /\ b.id = a.id /\ b.not_after = a.not_after
          /\ b.runner_id = a.runner_id /\ b.github_job_id = a.github_job_id
          /\ b.result = a.result /\ b.vm_identity = a.vm_identity
          /\ b.jit_generation_started = TRUE
          /\ b.runner_start_started = a.runner_start_started
    BY <2>2, <2>3 DEF Attempts
  <2> QED
    BY <2>1, <2>3, <2>4, StutterIsStep
<1>3. CASE b \in record_runner_start_started(a)
  <2> DEFINE next == [a EXCEPT !.runner_start_started = TRUE]
  <2>1. a.phase \in {"Registering", "Assigned"} /\ (b = a \/ b \in Published(a, next))
    BY <1>3 DEF record_runner_start_started
  <2>2. next \in Attempts
    BY DEF Attempts
  <2>3. b # a => b \in ValidAttempts /\ b = [next EXCEPT !.revision = a.revision + 1]
    BY <2>1, <2>2, PublishedIsValid
  <2>4. b # a =>
          /\ b.phase = a.phase /\ b.id = a.id /\ b.not_after = a.not_after
          /\ b.runner_id = a.runner_id /\ b.github_job_id = a.github_job_id
          /\ b.result = a.result /\ b.vm_identity = a.vm_identity
          /\ b.jit_generation_started = a.jit_generation_started
          /\ b.runner_start_started = TRUE
    BY <2>2, <2>3 DEF Attempts
  <2> QED
    BY <2>1, <2>3, <2>4, StutterIsStep
<1> QED
  BY <1>1, <1>2, <1>3

\* Binding the runner, in its own phase or during cleanup, and readiness.
LEMMA RunnerSteps ==
  ASSUME NEW a \in ValidAttempts, NEW r \in RunnerReferences,
         NEW b \in record_registration(a, r) \cup record_runner_ready(a, r)
  PROVE  Step(a, b)
<1> USE EvidenceTypes
<1>0. r.id \in Option(RunnerIds) /\ r.id # None
  BY NoneAssumption DEF RunnerReferences, Option
<1>1. CASE b \in record_registration(a, r) /\ b # a
  <2>1. /\ b \in advance_with(a, a.phase, r.id, a.github_job_id, a.result)
        /\ a.phase \in {"Registering", "Assigned"} \cup Cleanup
        /\ a.runner_id = None
    BY <1>1, <1>0 DEF record_registration, validate_runner
  <2>2. /\ b \in ValidAttempts /\ b.revision = a.revision + 1
        /\ b.phase = a.phase /\ b.runner_id = r.id
        /\ b.github_job_id = a.github_job_id /\ b.result = a.result
        /\ Keeps(a, b)
    BY <1>0, <2>1, AdvanceWith DEF Keeps
  <2>3. Spare(b) + 1 = Spare(a)
    BY <1>0, <2>1, <2>2 DEF Spare
  <2>4. Spare(a) \in Nat /\ Spare(b) \in Nat
    BY DEF Spare
  <2>5. b.revision + Spare(b) = a.revision + Spare(a)
    BY <2>2, <2>3, <2>4
  <2>6. a.phase # "Complete" /\ a.phase # "Terminal"
    BY <2>1 DEF Cleanup
  <2>7. Moves(a, b)
    BY <2>2, <2>6 DEF Moves
  <2>8. Budget(a) => Budget(b)
    BY <2>2, <2>5, <2>6 DEF Budget
  <2> QED
    BY <2>2, <2>7, <2>8 DEF Step
<1>2. CASE b \in record_runner_ready(a, r) /\ b # a
  <2>1. \/ a.phase = "Registering" /\ b \in advance_with(a, "Waiting", r.id, None, None)
        \/ /\ a.phase = "Assigned" /\ a.runner_id = None
           /\ b \in advance_with(a, "Assigned", r.id, a.github_job_id, None)
    BY <1>2 DEF record_runner_ready
  <2>2. a.runner_id # None => a.runner_id = r.id
    BY <1>2 DEF record_runner_ready, validate_runner
  <2>3. CASE a.phase = "Registering" /\ b \in advance_with(a, "Waiting", r.id, None, None)
    BY <1>0, <2>2, <2>3, AdvanceWith, RegisteringShapes
       DEF Step, Keeps, Moves, Budget, Phases, Owned
  <2>4. CASE /\ a.phase = "Assigned" /\ a.runner_id = None
             /\ b \in advance_with(a, "Assigned", r.id, a.github_job_id, None)
    BY <1>2, <2>4 DEF record_runner_ready, ValidAttempts, validate, EvidenceOrdered
  <2> QED
    BY <2>1, <2>3, <2>4
<1> QED
  BY <1>1, <1>2, StutterIsStep

\* A job assigned to an attempt whose runner is not yet running it.
LEMMA AssignedStep ==
  ASSUME NEW a \in ValidAttempts, NEW j \in JobIds, NEW b \in record_assigned(a, j)
  PROVE  Step(a, b)
<1> USE EvidenceTypes
<1>1. j \in Option(JobIds)
  BY DEF Option
<1>2. CASE b # a
  <2>1. /\ a.phase \in {"Registering", "Waiting"}
        /\ b \in advance_with(a, "Assigned", a.runner_id, j, None)
    BY <1>2 DEF record_assigned
  <2>2. a.github_job_id = None /\ a.result = None
    BY <2>1, RegisteringShapes, WaitingShapes
  <2> QED
    BY <1>1, <2>1, <2>2, AdvanceWith DEF Step, Keeps, Moves, Budget, Phases, Owned
<1> QED
  BY <1>2, StutterIsStep

\* Evidence that cleanup may still receive is paid for by the spare revisions.
LEMMA LateBudget ==
  ASSUME NEW a \in ValidAttempts, NEW b \in ValidAttempts,
         a.phase \in Cleanup \cup {"Complete"}, b.phase = a.phase,
         b.revision = a.revision + 1, Spare(b) + 1 <= Spare(a),
         a.phase = "Complete" => a.revision >= 8
  PROVE  Budget(a) => Budget(b)
<1>1. Spare(a) \in Nat /\ Spare(b) \in Nat /\ a.revision \in Nat
  BY EvidenceTypes DEF Spare
<1>2. b.revision + Spare(b) <= a.revision + Spare(a)
  BY <1>1
<1>3. a.phase # "Terminal"
  BY DEF Cleanup
<1>4. b.revision \in Nat /\ b.revision + Spare(b) \in Nat /\ a.revision + Spare(a) \in Nat
  BY <1>1
<1> QED
  BY <1>1, <1>2, <1>3, <1>4 DEF Budget

\* A job start, on time or during cleanup.
LEMMA RunningStep ==
  ASSUME NEW a \in ValidAttempts, NEW r \in RunnerReferences, NEW j \in JobIds,
         NEW b \in record_running(a, r, j)
  PROVE  Step(a, b)
<1> USE EvidenceTypes
<1>0. /\ r.id \in Option(RunnerIds) /\ r.id # None
      /\ j \in Option(JobIds) /\ j # None
  BY NoneAssumption DEF RunnerReferences, Option
<1>1. a.runner_id = r.id /\ a.github_job_id \in {None, j}
  BY DEF record_running, validate_runner, validate_job, ValidAttempts, validate, EvidenceOrdered
<1>2. CASE a.phase \in {"Registering", "Waiting", "Assigned"}
  <2>1. b \in advance_with(a, "Running", r.id, j, None)
    BY <1>2 DEF record_running
  <2>2. a.result = None
    BY <1>2, RegisteringShapes, WaitingShapes, AssignedShapes
  <2> QED
    BY <1>0, <1>1, <1>2, <2>1, <2>2, AdvanceWith
       DEF Step, Keeps, Moves, Budget, Phases, Owned
<1>3. CASE a.phase \notin {"Registering", "Waiting", "Assigned"} /\ b # a
  <2>1. /\ a.phase \in Cleanup \cup {"Complete"}
        /\ a.github_job_id # None \/ has_clone_started_history(a)
        /\ a.github_job_id # j /\ a.result = None
        /\ b \in advance_with(a, a.phase, r.id, j, None)
    BY <1>1, <1>3 DEF record_running
  <2>2. a.github_job_id = None /\ has_clone_started_history(a)
    BY <1>1, <2>1
  <2>3. a.phase = "Complete" => a.revision >= 8
    BY <2>2 DEF has_clone_started_history, Owned
  <2>4. /\ b \in ValidAttempts /\ b.revision = a.revision + 1 /\ b.phase = a.phase
        /\ b.github_job_id = j /\ b.runner_id = a.runner_id /\ b.result = a.result
        /\ Keeps(a, b)
    BY <1>0, <1>1, <2>1, <2>2, AdvanceWith DEF Keeps
  <2>5. Spare(b) + 1 <= Spare(a)
    BY <1>0, <2>2, <2>4 DEF Spare
  <2>6. Budget(a) => Budget(b)
    BY <2>1, <2>3, <2>4, <2>5, LateBudget
  <2>7. Moves(a, b)
    BY <2>3, <2>4 DEF Moves
  <2> QED
    BY <2>4, <2>6, <2>7 DEF Step
<1> QED
  BY <1>2, <1>3, StutterIsStep

\* A job end, with or without a runner, on time or during cleanup.
LEMMA TerminalStep ==
  ASSUME NEW a \in ValidAttempts, NEW r \in RunnerReferences \cup {None},
         NEW j \in JobIds, NEW x \in Results, NEW b \in record_terminal(a, r, j, x)
  PROVE  Step(a, b)
<1> USE EvidenceTypes
<1> DEFINE observed == IF r = None THEN None ELSE r.id
           runner   == IF a.runner_id # None THEN a.runner_id ELSE observed
           late     == a.phase \in Cleanup \cup {"Complete"}
<1>0. /\ observed \in Option(RunnerIds)
      /\ j \in Option(JobIds) /\ j # None
      /\ x \in Option(Results) /\ x # None
  BY NoneAssumption DEF RunnerReferences, Option
<1>1. runner \in Option(RunnerIds)
  BY <1>0
<1>2. a.github_job_id \in {None, j}
  BY DEF record_terminal, validate_job
<1>3. CASE b # a
  <2>1. /\ a.result = None
        /\ late \/ a.phase \in Owned \ {"Terminal"}
        /\ late => a.github_job_id # None \/ has_clone_started_history(a)
        /\ b \in advance_with(a, IF late THEN a.phase ELSE "Terminal", runner, j, x)
    BY <1>3 DEF record_terminal
  <2>2. (IF late THEN a.phase ELSE "Terminal") \in Phases
    BY DEF Phases, Owned
  <2>3. /\ b \in ValidAttempts /\ b.revision = a.revision + 1
        /\ b.phase = (IF late THEN a.phase ELSE "Terminal")
        /\ b.github_job_id = j /\ b.runner_id = runner /\ b.result = x
        /\ b.jit_generation_started = a.jit_generation_started
        /\ b.vm_identity = a.vm_identity
        /\ Keeps(a, b)
    BY <1>0, <1>1, <1>2, <2>1, <2>2, AdvanceWith DEF Keeps
  <2>4. CASE late
    <3>1. a.phase = "Complete" => a.revision >= 8
      <4>1. CASE has_clone_started_history(a)
        BY <4>1 DEF has_clone_started_history, Owned
      <4>2. CASE a.github_job_id # None
        BY <4>2 DEF ValidAttempts, validate, PhaseShape, NoEvidence
      <4> QED
        BY <2>1, <2>4, <4>1, <4>2
    <3>2. Spare(b) + 1 <= Spare(a)
      BY <1>0, <2>1, <2>3 DEF Spare
    <3>3. b.phase = a.phase
      BY <2>3, <2>4
    <3>4. Budget(a) => Budget(b)
      BY <2>3, <2>4, <3>1, <3>2, <3>3, LateBudget
    <3>5. Moves(a, b)
      BY <3>1, <3>3 DEF Moves
    <3> QED
      BY <2>3, <3>4, <3>5 DEF Step
  <2>5. CASE ~late
    <3>1. b.phase = "Terminal" /\ a.phase \in Owned \ {"Terminal"}
      BY <2>1, <2>3, <2>5
    <3>2. Moves(a, b)
      BY <3>1 DEF Moves, Owned
    <3>3. b.revision <= 12
      BY <2>3, <3>1 DEF ValidAttempts, validate, PhaseShape
    <3>4. b.runner_id = None => b.revision <= 11
      <4>1. SUFFICES ASSUME a.runner_id = None PROVE a.revision <= 10
        BY <2>3
      <4>2. a.phase \in {"CloneStarted", "Registering", "Waiting", "Assigned", "Running"}
        BY <3>1 DEF Owned
      <4> QED
        BY <4>1, <4>2, CloneStartedShape, RegisteringShapes, WaitingShapes,
           AssignedShapes, RunningShapes
    <3>5. Spare(b) = IF b.runner_id = None THEN 1 ELSE 0
      BY <1>0, <2>3 DEF Spare
    <3>6. Budget(b)
      BY <2>3, <3>1, <3>3, <3>4, <3>5 DEF Budget
    <3> QED
      BY <2>3, <3>2, <3>6 DEF Step
  <2> QED
    BY <2>4, <2>5
<1> QED
  BY <1>3, StutterIsStep

\* Entering cleanup and going through it.
LEMMA CleanupSteps ==
  ASSUME NEW a \in ValidAttempts, NEW p \in Phases,
         NEW b \in begin_cleanup(a) \cup advance_cleanup(a, p)
  PROVE  Step(a, b)
<1> USE EvidenceTypes
<1>1. CASE b \in begin_cleanup(a) /\ b # a
  <2>1. a.phase \in Owned /\ b \in MoveTo(a, "Destroying")
    BY <1>1 DEF begin_cleanup
  <2>2. /\ b \in ValidAttempts /\ b.phase = "Destroying" /\ b.revision = a.revision + 1
        /\ Keeps(a, b) /\ b.runner_id = a.runner_id
        /\ b.github_job_id = a.github_job_id /\ b.result = a.result
    BY <2>1, AdvanceWith DEF MoveTo, Keeps, Phases, Cleanup
  <2>3. Spare(b) = Spare(a) /\ Spare(a) \in Nat
    BY <2>2 DEF Spare
  <2>4. Budget(a) => a.revision + Spare(a) <= 12
    <3>1. CASE a.phase = "Terminal"
      BY <3>1 DEF Budget
    <3>2. CASE a.phase = "Running"
      BY <3>2, RunningShapes DEF Spare
    <3>3. CASE a.phase = "Assigned"
      BY <3>3, AssignedShapes DEF Spare
    <3>4. CASE a.phase = "Waiting"
      BY <3>4, WaitingShapes DEF Spare
    <3>5. CASE a.phase = "Registering"
      BY <3>5, RegisteringShapes DEF Spare
    <3>6. CASE a.phase = "CloneStarted"
      BY <3>6, CloneStartedShape DEF Spare
    <3> QED
      BY <2>1, <3>1, <3>2, <3>3, <3>4, <3>5, <3>6 DEF Owned
  <2>5. Budget(a) => Budget(b)
    BY <2>2, <2>3, <2>4 DEF Budget
  <2>6. Moves(a, b)
    BY <2>1, <2>2 DEF Moves
  <2> QED
    BY <2>2, <2>5, <2>6 DEF Step
<1>2. CASE b \in advance_cleanup(a, p) /\ b # a
  <2>1. <<a.phase, p>> \in CleanupMoves /\ b \in MoveTo(a, p)
    BY <1>2 DEF advance_cleanup, CleanupMoves
  <2>2. /\ b \in ValidAttempts /\ b.phase = p /\ b.revision = a.revision + 1
        /\ Keeps(a, b) /\ b.runner_id = a.runner_id
        /\ b.github_job_id = a.github_job_id /\ b.result = a.result
    BY <2>1, AdvanceWith DEF MoveTo, Keeps
  <2>3. Spare(b) = Spare(a) /\ Spare(a) \in Nat
    BY <2>2 DEF Spare
  <2>4. \/ a.phase = "Destroying" /\ p = "Deregistering"
        \/ a.phase = "Deregistering" /\ p = "Releasing"
        \/ a.phase = "Releasing" /\ p = "Complete"
    BY <2>1 DEF CleanupMoves
  <2>5. Budget(a) => Budget(b)
    BY <2>2, <2>3, <2>4 DEF Budget
  <2>6. Moves(a, b)
    BY <2>1, <2>2 DEF Moves
  <2> QED
    BY <2>2, <2>5, <2>6 DEF Step
<1> QED
  BY <1>1, <1>2, StutterIsStep

-----------------------------------------------------------------------------
(***************************************************************************)
(* What validation reads off a document, and what it accepts.              *)
(***************************************************************************)
\* What the revision test of has_clone_started_history amounts to.
LEMMA HistoryShape ==
  ASSUME NEW a \in ValidAttempts
  PROVE  has_clone_started_history(a) <=>
           \/ a.phase \in Owned \cup Cleanup
           \/ a.phase = "Complete" /\ a.revision >= 8
<1>1. /\ a.phase = "Destroying" => a.revision >= 5
      /\ a.phase = "Deregistering" => a.revision >= 6
      /\ a.phase = "Releasing" => a.revision >= 7
  BY DEF ValidAttempts, validate, PhaseShape
<1> QED
  BY <1>1 DEF has_clone_started_history, Cleanup

\* A completed document either never owned a VM or has revision 8 or more.
LEMMA CompleteShape ==
  ASSUME NEW a \in ValidAttempts, a.phase = "Complete"
  PROVE  IF a.vm_identity = None THEN a.revision = 2 \/ a.revision = 3 \/ a.revision = 4
                                 ELSE a.revision >= 8
BY DEF ValidAttempts, validate, PhaseShape, NoEvidence

\* Validation accepts the next cleanup document of an attempt that owns a VM
\* as soon as its revision is high enough.
LEMMA CleanupMoveAccepted ==
  ASSUME NEW a \in ValidAttempts, NEW p \in Cleanup \cup {"Complete"},
         a.vm_identity # None, a.revision < MaxAttemptRevision,
         p = "Destroying" => a.revision >= 4,
         p = "Deregistering" => a.revision >= 5,
         p = "Releasing" => a.revision >= 6,
         p = "Complete" => a.revision >= 7
  PROVE  \E b \in MoveTo(a, p) : b.phase = p
<1> DEFINE next == [a EXCEPT !.phase = p, !.runner_id = a.runner_id,
                             !.github_job_id = a.github_job_id, !.result = a.result]
           b == [next EXCEPT !.revision = a.revision + 1]
<1>1. a \in Attempts /\ EvidenceOrdered(a)
  BY DEF ValidAttempts, validate
<1>2. /\ b.phase = p /\ b.revision = a.revision + 1 /\ b.vm_identity = a.vm_identity
      /\ b.runner_id = a.runner_id /\ b.github_job_id = a.github_job_id /\ b.result = a.result
      /\ b.jit_generation_started = a.jit_generation_started
      /\ b.runner_start_started = a.runner_start_started
  BY <1>1 DEF Attempts
<1>3. EvidenceOrdered(b)
  BY <1>1, <1>2 DEF EvidenceOrdered
<1>4. a.revision \in Nat
  BY EvidenceTypes
<1>5. PhaseShape(b)
  <2>1. b.vm_identity # None
    BY <1>2
  <2>2. CASE p = "Destroying"
    <3>1. b.phase = "Destroying" /\ b.revision >= 5
      BY <1>2, <1>4, <2>2
    <3> QED
      BY <2>1, <3>1 DEF PhaseShape
  <2>3. CASE p = "Deregistering"
    <3>1. b.phase = "Deregistering" /\ b.revision >= 6
      BY <1>2, <1>4, <2>3
    <3> QED
      BY <2>1, <3>1 DEF PhaseShape
  <2>4. CASE p = "Releasing"
    <3>1. b.phase = "Releasing" /\ b.revision >= 7
      BY <1>2, <1>4, <2>4
    <3> QED
      BY <2>1, <3>1 DEF PhaseShape
  <2>5. CASE p = "Complete"
    <3>1. b.phase = "Complete" /\ b.revision >= 8
      BY <1>2, <1>4, <2>5
    <3> QED
      BY <2>1, <3>1 DEF PhaseShape
  <2> QED
    BY <2>2, <2>3, <2>4, <2>5 DEF Cleanup
<1>6. b.revision <= MaxAttemptRevision
  BY <1>2, <1>4, RevisionBoundAssumption
<1>7. b \in MoveTo(a, p)
  BY <1>3, <1>5, <1>6 DEF MoveTo, advance_with, Published, validate
<1> QED
  BY <1>2, <1>7

-----------------------------------------------------------------------------
\* Validation refuses every later phase to a document without a VM.
LEMMA UnboundIsEarly ==
  ASSUME NEW a \in ValidAttempts,
         a.phase \in {"Registering", "Terminal", "Destroying"}
  PROVE  a.vm_identity # None
BY DEF ValidAttempts, validate, PhaseShape

-----------------------------------------------------------------------------
(***************************************************************************)
(* Redelivery.                                                             *)
(***************************************************************************)
\* A registration that was accepted is accepted again.
LEMMA RegistrationAgain ==
  ASSUME NEW a \in ValidAttempts, NEW r \in RunnerReferences,
         NEW b \in record_registration(a, r)
  PROVE  record_registration(b, r) = {b}
<1>1. r.id \in Option(RunnerIds)
  BY DEF RunnerReferences, Option
<1>2. CASE a.runner_id = r.id
  <2>1. b = a
    BY <1>2 DEF record_registration
  <2> QED BY <1>2, <2>1 DEF record_registration
<1>3. CASE a.runner_id # r.id
  <2>1. /\ a.phase \in {"Registering", "Assigned"} \cup Cleanup
        /\ a.jit_generation_started /\ r.name = a.id
        /\ b \in advance_with(a, a.phase, r.id, a.github_job_id, a.result)
    BY <1>3 DEF record_registration, validate_runner
  <2>2. /\ b.phase = a.phase /\ b.runner_id = r.id /\ b.id = a.id
        /\ b.jit_generation_started = a.jit_generation_started
    <3>1. /\ a \in Attempts /\ a.phase \in Phases
          /\ a.github_job_id \in Option(JobIds) /\ a.result \in Option(Results)
      BY EvidenceTypes
    <3>2. b \in advance_with(a, a.phase, r.id, a.github_job_id, a.result)
      BY <2>1
    <3> QED BY <1>1, <3>1, <3>2, AdvanceWith
  <2> QED BY <2>1, <2>2 DEF record_registration, validate_runner
<1> QED BY <1>2, <1>3

\* So is a runner's readiness.
LEMMA ReadyAgain ==
  ASSUME NEW a \in ValidAttempts, NEW r \in RunnerReferences,
         NEW b \in record_runner_ready(a, r)
  PROVE  record_runner_ready(b, r) = {b}
<1>1. r.id \in Option(RunnerIds) /\ r.id # None
  BY NoneAssumption DEF RunnerReferences, Option
<1>2. /\ a.runner_start_started /\ r.name = a.id /\ a.runner_id \in {None, r.id}
  BY DEF record_runner_ready, validate_runner
<1>3. CASE a.phase = "Registering"
  <2>1. b \in advance_with(a, "Waiting", r.id, None, None)
    BY <1>3 DEF record_runner_ready
  <2>2. /\ b.phase = "Waiting" /\ b.runner_id = r.id /\ b.id = a.id
        /\ b.runner_start_started = a.runner_start_started
    BY <1>1, <2>1, EvidenceTypes, AdvanceWith DEF Phases, Owned
  <2> QED BY <1>2, <2>2 DEF record_runner_ready, validate_runner
<1>4. CASE a.phase = "Assigned" /\ a.runner_id = None
  <2>1. b \in advance_with(a, "Assigned", r.id, a.github_job_id, None)
    BY <1>4 DEF record_runner_ready
  <2>2. /\ b.phase = "Assigned" /\ b.runner_id = r.id /\ b.id = a.id
        /\ b.runner_start_started = a.runner_start_started
    <3>1. /\ a \in Attempts /\ "Assigned" \in Phases
          /\ a.github_job_id \in Option(JobIds) /\ None \in Option(Results)
      BY EvidenceTypes DEF Phases, Owned
    <3> QED BY <1>1, <2>1, <3>1, AdvanceWith
  <2> QED BY <1>1, <1>2, <2>2 DEF record_runner_ready, validate_runner
<1>5. CASE a.phase # "Registering" /\ ~ (a.phase = "Assigned" /\ a.runner_id = None)
  <2>1. b = a
    BY <1>5 DEF record_runner_ready
  <2> QED BY <1>5, <2>1 DEF record_runner_ready
<1> QED BY <1>3, <1>4, <1>5

\* So is an assignment.
LEMMA AssignedAgain ==
  ASSUME NEW a \in ValidAttempts, NEW j \in JobIds, NEW b \in record_assigned(a, j)
  PROVE  record_assigned(b, j) = {b}
<1>1. j \in Option(JobIds)
  BY DEF Option
<1>2. CASE a.phase \in {"Registering", "Waiting"}
  <2>1. b \in advance_with(a, "Assigned", a.runner_id, j, None)
    BY <1>2 DEF record_assigned
  <2>2. b.phase = "Assigned" /\ b.github_job_id = j
    BY <1>1, <2>1, EvidenceTypes, AdvanceWith DEF Phases, Owned
  <2> QED BY <2>2 DEF record_assigned, validate_job
<1>3. CASE a.phase \notin {"Registering", "Waiting"}
  <2>1. b = a
    BY <1>3 DEF record_assigned
  <2> QED BY <1>3, <2>1 DEF record_assigned
<1> QED BY <1>2, <1>3

\* So is a start, also one recorded during cleanup.
LEMMA RunningAgain ==
  ASSUME NEW a \in ValidAttempts, NEW r \in RunnerReferences, NEW j \in JobIds,
         NEW b \in record_running(a, r, j)
  PROVE  record_running(b, r, j) = {b}
<1>1. r.id \in Option(RunnerIds) /\ j \in Option(JobIds) /\ j # None
  BY NoneAssumption DEF RunnerReferences, Option
<1>2. a.runner_start_started /\ r.name = a.id
  BY DEF record_running, validate_runner
<1>3. CASE a.phase \in {"Registering", "Waiting", "Assigned"}
  <2>1. b \in advance_with(a, "Running", r.id, j, None)
    BY <1>3 DEF record_running
  <2>2. a \in Attempts /\ "Running" \in Phases /\ None \in Option(Results)
    BY DEF ValidAttempts, Phases, Owned, Option
  <2>3. /\ b.phase = "Running" /\ b.runner_id = r.id /\ b.github_job_id = j /\ b.id = a.id
        /\ b.runner_start_started = a.runner_start_started
    BY <1>1, <2>1, <2>2, AdvanceWith
  <2> QED BY <1>2, <2>3 DEF record_running, validate_runner, validate_job
<1>4. CASE /\ a.phase \notin {"Registering", "Waiting", "Assigned"}
           /\ a.runner_id = r.id /\ a.github_job_id = j
  <2>1. b = a
    BY <1>4 DEF record_running
  <2> QED BY <1>4, <2>1 DEF record_running
<1>5. CASE /\ a.phase \notin {"Registering", "Waiting", "Assigned"}
           /\ ~ (a.runner_id = r.id /\ a.github_job_id = j)
  <2>1. /\ a.phase \in Cleanup \cup {"Complete"}
        /\ b \in advance_with(a, a.phase, r.id, j, None)
    BY <1>5 DEF record_running
  <2>2. /\ b.phase = a.phase /\ b.runner_id = r.id /\ b.github_job_id = j /\ b.id = a.id
        /\ b.runner_start_started = a.runner_start_started
    BY <1>1, <2>1, EvidenceTypes, AdvanceWith
  <2>3. b.phase \notin {"Registering", "Waiting", "Assigned", "Running", "Terminal"}
    BY <2>1, <2>2 DEF Cleanup
  <2> QED BY <1>1, <1>2, <2>1, <2>2, <2>3 DEF record_running, validate_runner, validate_job
<1> QED BY <1>3, <1>4, <1>5

\* So is an end, with or without a runner.
LEMMA TerminalAgain ==
  ASSUME NEW a \in ValidAttempts, NEW r \in RunnerReferences \cup {None}, NEW j \in JobIds,
         NEW x \in Results, NEW b \in record_terminal(a, r, j, x)
  PROVE  record_terminal(b, r, j, x) = {b}
<1> DEFINE observed == IF r = None THEN None ELSE r.id
           runner == IF a.runner_id # None THEN a.runner_id ELSE observed
           phase == IF a.phase \in Cleanup \cup {"Complete"} THEN a.phase ELSE "Terminal"
<1>1. /\ observed \in Option(RunnerIds) /\ j \in Option(JobIds) /\ x \in Option(Results)
      /\ j # None /\ x # None
  BY NoneAssumption DEF RunnerReferences, Option
<1>2. /\ r # None => r.name = a.id /\ a.runner_id \in {None, r.id}
      /\ a.github_job_id \in {None, j}
  BY DEF record_terminal, validate_runner, validate_job
<1>3. CASE a.result # None
  <2>1. b = a
    BY <1>3 DEF record_terminal
  <2>2. /\ a.github_job_id = j /\ a.result = x /\ observed \in {None, a.runner_id}
    BY <1>3 DEF record_terminal
  <2> QED BY <1>1, <1>2, <1>3, <2>1, <2>2 DEF record_terminal, validate_runner, validate_job
<1>4. CASE a.result = None
  <2>1. b \in advance_with(a, phase, runner, j, x)
    BY <1>4 DEF record_terminal
  <2>2. phase \in Phases /\ runner \in Option(RunnerIds)
    BY <1>1, EvidenceTypes DEF Phases, Owned
  <2>3. b.runner_id = runner /\ b.github_job_id = j /\ b.result = x /\ b.id = a.id
    BY <1>1, <2>1, <2>2, EvidenceTypes, AdvanceWith
  <2>4. observed \in {None, b.runner_id} /\ (r # None => b.runner_id = r.id)
    BY <1>2, <2>3
  <2> QED BY <1>1, <1>2, <2>3, <2>4 DEF record_terminal, validate_runner, validate_job
<1> QED BY <1>3, <1>4

-----------------------------------------------------------------------------
(***************************************************************************)
(* The successor test.                                                     *)
(***************************************************************************)
\* These documents have the VM identity of a, and are a or one revision on.
Succeeds(a, documents) ==
  \A b \in documents : /\ b.vm_identity = a.vm_identity
                       /\ b = a \/ b.revision = a.revision + 1

\* So it is with publication, with a refused call and with a repeated one.
LEMMA PublicationSucceeds ==
  ASSUME NEW a \in Attempts
  PROVE  /\ Succeeds(a, {}) /\ Succeeds(a, {a})
         /\ \A p, r, j, x : Succeeds(a, advance_with(a, p, r, j, x))
         /\ Succeeds(a, Published(a, [a EXCEPT !.jit_generation_started = TRUE]))
         /\ Succeeds(a, Published(a, [a EXCEPT !.runner_start_started = TRUE]))
BY DEF Succeeds, advance_with, Published, Attempts

\* So it is with every transition other than the binding.
LEMMA TransitionsSucceed ==
  ASSUME NEW a \in ValidAttempts
  PROVE  /\ Succeeds(a, authorize_clone(a)) /\ Succeeds(a, record_clone_started(a))
         /\ Succeeds(a, begin_unprovisioned_release(a)) /\ Succeeds(a, complete_unprovisioned(a))
         /\ Succeeds(a, begin_registration(a)) /\ Succeeds(a, record_jit_generation_started(a))
         /\ Succeeds(a, record_runner_start_started(a)) /\ Succeeds(a, begin_cleanup(a))
         /\ \A p : Succeeds(a, advance_cleanup(a, p))
         /\ \A r : Succeeds(a, record_registration(a, r)) /\ Succeeds(a, record_runner_ready(a, r))
         /\ \A j : Succeeds(a, record_assigned(a, j))
         /\ \A r, j : Succeeds(a, record_running(a, r, j))
         /\ \A r, j, x : Succeeds(a, record_terminal(a, r, j, x))
<1>0. a \in Attempts
  BY EvidenceTypes
<1>1. /\ Succeeds(a, {}) /\ Succeeds(a, {a})
      /\ \A p, r, j, x : Succeeds(a, advance_with(a, p, r, j, x))
      /\ Succeeds(a, Published(a, [a EXCEPT !.jit_generation_started = TRUE]))
      /\ Succeeds(a, Published(a, [a EXCEPT !.runner_start_started = TRUE]))
  BY <1>0, PublicationSucceeds
<1>2. /\ Succeeds(a, authorize_clone(a)) /\ Succeeds(a, record_clone_started(a))
      /\ Succeeds(a, begin_registration(a))
  BY <1>1 DEF authorize_clone, record_clone_started, begin_registration, advance_phase, MoveTo
<1>3. Succeeds(a, begin_unprovisioned_release(a)) /\ Succeeds(a, complete_unprovisioned(a))
  BY <1>1 DEF begin_unprovisioned_release, complete_unprovisioned
<1>4. Succeeds(a, record_jit_generation_started(a)) /\ Succeeds(a, record_runner_start_started(a))
  BY <1>1 DEF record_jit_generation_started, record_runner_start_started
<1>5. Succeeds(a, begin_cleanup(a)) /\ \A p : Succeeds(a, advance_cleanup(a, p))
  BY <1>1 DEF begin_cleanup, advance_cleanup, MoveTo
<1>6. ASSUME NEW r
      PROVE  Succeeds(a, record_registration(a, r)) /\ Succeeds(a, record_runner_ready(a, r))
  BY <1>1 DEF record_registration, record_runner_ready
<1>7. ASSUME NEW j PROVE Succeeds(a, record_assigned(a, j))
  BY <1>1 DEF record_assigned
<1>8. ASSUME NEW r, NEW j PROVE Succeeds(a, record_running(a, r, j))
  BY <1>1 DEF record_running
<1>9. ASSUME NEW r, NEW j, NEW x PROVE Succeeds(a, record_terminal(a, r, j, x))
  <2>1. ASSUME a.result # None PROVE Succeeds(a, record_terminal(a, r, j, x))
    <3>1. record_terminal(a, r, j, x) \subseteq {a}
      BY <2>1 DEF record_terminal
    <3> QED BY <3>1 DEF Succeeds
  <2>2. ASSUME a.result = None PROVE Succeeds(a, record_terminal(a, r, j, x))
    BY <1>1, <2>2 DEF record_terminal
  <2> QED BY <2>1, <2>2
<1> QED BY <1>2, <1>3, <1>4, <1>5, <1>6, <1>7, <1>8, <1>9

\* So what passes the test has the VM identity of the current document, and is
\* that document or one revision on.
LEMMA SuccessorAdvances ==
  ASSUME NEW a \in ValidAttempts, NEW b, is_exact_successor_of(b, a)
  PROVE  b.vm_identity = a.vm_identity /\ (b = a \/ b.revision = a.revision + 1)
BY TransitionsSucceed DEF is_exact_successor_of, Succeeds

\* What a runner or a job event makes of a document names that event.
LEMMA RegistrationIsNamed ==
  ASSUME NEW a \in ValidAttempts, NEW r \in RunnerReferences, NEW b, b # a,
         b \in record_registration(a, r) \cup record_runner_ready(a, r)
  PROVE  b.runner_id # None /\ r = [name |-> b.id, id |-> b.runner_id]
<1>1. r.id \in Option(RunnerIds) /\ r.id # None
  BY NoneAssumption DEF RunnerReferences, Option
<1>2. r.name = a.id
  BY DEF record_registration, record_runner_ready, validate_runner
<1>3. \E p \in Phases, j \in Option(JobIds), x \in Option(Results) :
        b \in advance_with(a, p, r.id, j, x)
  BY EvidenceTypes DEF record_registration, record_runner_ready, Phases, Owned
<1>4. b.runner_id = r.id /\ b.id = a.id
  BY <1>1, <1>3, EvidenceTypes, AdvanceWith
<1> QED BY <1>1, <1>2, <1>4 DEF RunnerReferences

\* A start names its runner and its job.
LEMMA RunningIsNamed ==
  ASSUME NEW a \in ValidAttempts, NEW r \in RunnerReferences, NEW j \in JobIds, NEW b, b # a,
         b \in record_running(a, r, j)
  PROVE  /\ b.runner_id # None /\ r = [name |-> b.id, id |-> b.runner_id]
         /\ b.github_job_id = j /\ j # None
<1>1. /\ r.id \in Option(RunnerIds) /\ r.id # None /\ j \in Option(JobIds) /\ j # None
  BY NoneAssumption DEF RunnerReferences, Option
<1>2. r.name = a.id
  BY DEF record_running, validate_runner
<1>3. \E p \in Phases : b \in advance_with(a, p, r.id, j, None)
  BY EvidenceTypes DEF record_running, Phases, Owned
<1>4. b.runner_id = r.id /\ b.id = a.id /\ b.github_job_id = j
  BY <1>1, <1>3, EvidenceTypes, AdvanceWith
<1> QED BY <1>1, <1>2, <1>4 DEF RunnerReferences

\* An assignment names its job.
LEMMA AssignedIsNamed ==
  ASSUME NEW a \in ValidAttempts, NEW j \in JobIds, NEW b, b # a, b \in record_assigned(a, j)
  PROVE  b.github_job_id = j /\ j # None
<1>1. j \in Option(JobIds) /\ j # None
  BY NoneAssumption DEF Option
<1>2. b \in advance_with(a, "Assigned", a.runner_id, j, None) /\ "Assigned" \in Phases
  BY DEF record_assigned, Phases, Owned
<1>3. /\ a \in Attempts /\ a.runner_id \in Option(RunnerIds) /\ None \in Option(Results)
  BY EvidenceTypes
<1> QED BY <1>1, <1>2, <1>3, AdvanceWith

\* An end names its job and its result, and its runner if it has one.
LEMMA TerminalIsNamed ==
  ASSUME NEW a \in ValidAttempts, NEW r \in RunnerReferences \cup {None}, NEW j \in JobIds,
         NEW x \in Results, NEW b, b # a, b \in record_terminal(a, r, j, x)
  PROVE  /\ b.github_job_id = j /\ j # None /\ b.result = x /\ x # None
         /\ r # None => b.runner_id # None /\ r = [name |-> b.id, id |-> b.runner_id]
<1> DEFINE observed == IF r = None THEN None ELSE r.id
           runner == IF a.runner_id # None THEN a.runner_id ELSE observed
           phase == IF a.phase \in Cleanup \cup {"Complete"} THEN a.phase ELSE "Terminal"
<1>1. /\ observed \in Option(RunnerIds) /\ j \in Option(JobIds) /\ x \in Option(Results)
      /\ j # None /\ x # None /\ (r # None => r.id # None)
  BY NoneAssumption DEF RunnerReferences, Option
<1>2. r # None => r.name = a.id /\ a.runner_id \in {None, r.id}
  BY DEF record_terminal, validate_runner
<1>3. b \in advance_with(a, phase, runner, j, x)
  BY DEF record_terminal
<1>4. phase \in Phases /\ runner \in Option(RunnerIds)
  BY <1>1, EvidenceTypes DEF Phases, Owned
<1>5. b.runner_id = runner /\ b.github_job_id = j /\ b.result = x /\ b.id = a.id
  BY <1>1, <1>3, <1>4, EvidenceTypes, AdvanceWith
<1> QED BY <1>1, <1>2, <1>5 DEF RunnerReferences

-----------------------------------------------------------------------------
(***************************************************************************)
(* The catalog's operations.                                               *)
(***************************************************************************)
Catalogs == [revision : Nat, active : Seq(ValidAttempts), tombstones : Seq(ValidAttempts)]

\* The empty sum.
LEMMA EmptySum == RevisionSum(<< >>) = 0
<1> DEFINE s == << >>
           zero == [n \in 0 .. 0 |-> 0]
           IsSum(f) ==
             f = [n \in 0 .. Len(s) |-> IF n = 0 THEN 0 ELSE f[n - 1] + s[n].revision]
           sum == CHOOSE f : IsSum(f)
<1>1. Len(s) = 0
  OBVIOUS
<1>2. IsSum(zero)
  <2>1. \A n \in 0 .. 0 : n = 0
    OBVIOUS
  <2> QED
    BY <1>1, <2>1
<1>3. IsSum(sum)
  BY <1>2
<1>4. sum[0] = 0
  BY <1>1, <1>3
<1> QED
  BY <1>1, <1>4 DEF RevisionSum

\* The empty catalog is valid.
LEMMA EmptyIsCatalog == empty \in Catalogs /\ validate_catalog(empty)
<1>1. /\ empty.revision = 1 /\ empty.active = << >> /\ empty.tombstones = << >>
  BY DEF empty
<1>2. empty \in Catalogs
  BY DEF Catalogs, empty
<1>3. Len(<< >>) = 0 /\ DOMAIN << >> = {} /\ << >> \o << >> = << >>
  OBVIOUS
<1>4. Range(<< >>) = {}
  BY <1>3 DEF Range
<1>5. represented_revision(empty) = 1
  BY <1>1, <1>3, EmptySum DEF represented_revision
<1>6. RevisionIsConsistent(empty)
  BY <1>1, <1>5 DEF RevisionIsConsistent
<1>7. IdentitiesUnique(empty)
  BY <1>1, <1>3 DEF IdentitiesUnique
<1> QED
  BY <1>1, <1>2, <1>3, <1>4, <1>6, <1>7, CatalogBoundsAssumption DEF validate_catalog

\* Publication yields a valid catalog of the next revision and nothing else.
LEMMA PublishedIsCatalog ==
  ASSUME NEW c \in Catalogs, NEW next \in Catalogs, NEW d \in PublishedCatalog(c, next)
  PROVE  /\ d \in Catalogs /\ validate_catalog(d)
         /\ d.revision = c.revision + 1
         /\ d.active = next.active /\ d.tombstones = next.tombstones
BY DEF PublishedCatalog, Catalogs

\* A fresh reservation is a valid document.
LEMMA ReservedIsValid ==
  ASSUME NEW id \in AttemptIds, NEW t \in Times
  PROVE  reserved(id, t) \in ValidAttempts
<1>1. reserved(id, t) \in Attempts
  BY RevisionBoundAssumption DEF reserved, Attempts, Option, Phases, PreClone
<1>2. validate(reserved(id, t))
  BY DEF reserved, validate, EvidenceOrdered, PhaseShape, NoEvidence
<1> QED
  BY <1>1, <1>2 DEF ValidAttempts

\* One attempt of a catalog replaced.
Replaced(d, c, i, b) ==
  /\ d \in Catalogs /\ validate_catalog(d) /\ d.revision = c.revision + 1
  /\ d.tombstones = c.tombstones
  /\ Len(d.active) = Len(c.active)
  /\ d.active[i] = b
  /\ \A k \in DOMAIN c.active : k # i => d.active[k] = c.active[k]

\* Publishing a new document of one attempt replaces it alone.
LEMMA ReplacementIsReplaced ==
  ASSUME NEW c \in Catalogs, NEW i \in DOMAIN c.active, NEW b \in ValidAttempts,
         NEW d \in PublishedCatalog(c, [c EXCEPT !.active[i] = b])
  PROVE  Replaced(d, c, i, b)
<1> DEFINE next == [c EXCEPT !.active[i] = b]
<1>1. c.active \in Seq(ValidAttempts) /\ DOMAIN c.active = 1 .. Len(c.active)
  BY LenProperties DEF Catalogs
<1>2. /\ [c.active EXCEPT ![i] = b] \in Seq(ValidAttempts)
      /\ Len([c.active EXCEPT ![i] = b]) = Len(c.active)
      /\ \A k \in 1 .. Len(c.active) :
           [c.active EXCEPT ![i] = b][k] = IF k = i THEN b ELSE c.active[k]
  BY <1>1, ExceptSeq
<1>3. next.active = [c.active EXCEPT ![i] = b] /\ next.tombstones = c.tombstones
  BY DEF Catalogs
<1>4. next \in Catalogs
  BY <1>2 DEF Catalogs
<1>5. /\ d \in Catalogs /\ validate_catalog(d) /\ d.revision = c.revision + 1
      /\ d.active = next.active /\ d.tombstones = next.tombstones
  BY <1>4, PublishedIsCatalog
<1> QED
  BY <1>1, <1>2, <1>3, <1>5 DEF Replaced

\* Every public action yields a valid document that the successor test accepts.
LEMMA ActionIsSuccessor ==
  ASSUME NEW a \in ValidAttempts, NEW action \in Actions,
         NEW b \in apply_action(a, action), b # a
  PROVE  b \in ValidAttempts /\ Step(a, b) /\ is_exact_successor_of(b, a)
<1> DEFINE named == [name |-> b.id, id |-> b.runner_id]
           n == action.name
<1>1. CASE n \in {"AuthorizeClone", "RecordCloneStarted", "BeginUnprovisionedRelease",
                  "CompleteUnprovisioned", "BeginRegistration",
                  "RecordJitGenerationStarted", "RecordRunnerStartStarted", "BeginCleanup"}
  <2>1. b \in authorize_clone(a) \cup record_clone_started(a)
              \cup begin_unprovisioned_release(a) \cup complete_unprovisioned(a)
              \cup begin_registration(a) \cup record_jit_generation_started(a)
              \cup record_runner_start_started(a) \cup begin_cleanup(a)
    BY <1>1 DEF apply_action
  <2>2. is_exact_successor_of(b, a)
    BY <2>1 DEF is_exact_successor_of
  <2>3. Step(a, b)
    <3>1. CASE b \in authorize_clone(a) \cup record_clone_started(a)
                     \cup begin_unprovisioned_release(a) \cup complete_unprovisioned(a)
                     \cup begin_registration(a)
      BY <3>1, ProvisioningSteps
    <3>2. CASE b \in record_jit_generation_started(a) \cup record_runner_start_started(a)
      <4>1. a.phase \in {"Registering", "Assigned"}
        BY <3>2 DEF record_jit_generation_started, record_runner_start_started
      <4>2. a.vm_identity \in VmIdentities
        BY <4>1, RegisteringShapes, AssignedShapes DEF ValidAttempts, Attempts, Option
      <4> QED
        BY <3>2, <4>2, CheckpointSteps
    <3>3. CASE b \in begin_cleanup(a)
      BY <3>3, CleanupSteps DEF Phases
    <3> QED
      BY <2>1, <3>1, <3>2, <3>3
  <2> QED
    BY <2>2, <2>3 DEF Step
<1>2. CASE n \in {"RecordRegistration", "RecordRunnerReady"}
  <2>1. action.runner \in RunnerReferences
    BY <1>2 DEF Actions
  <2>2. b \in record_registration(a, action.runner) \cup record_runner_ready(a, action.runner)
    BY <1>2 DEF apply_action
  <2>3. b.runner_id # None /\ action.runner = named
    BY <2>1, <2>2, RegistrationIsNamed
  <2>4. is_exact_successor_of(b, a)
    BY <2>2, <2>3 DEF is_exact_successor_of
  <2> QED
    BY <2>1, <2>2, <2>4, RunnerSteps DEF Step
<1>3. CASE n = "RecordAssigned"
  <2>1. action.job \in JobIds /\ b \in record_assigned(a, action.job)
    BY <1>3 DEF Actions, apply_action
  <2>2. b.github_job_id = action.job /\ action.job # None
    BY <2>1, AssignedIsNamed
  <2>3. is_exact_successor_of(b, a)
    BY <2>1, <2>2 DEF is_exact_successor_of
  <2> QED
    BY <2>1, <2>3, AssignedStep DEF Step
<1>4. CASE n = "RecordRunning"
  <2>1. /\ action.runner \in RunnerReferences /\ action.job \in JobIds
        /\ b \in record_running(a, action.runner, action.job)
    BY <1>4 DEF Actions, apply_action
  <2>2. /\ b.runner_id # None /\ action.runner = named
        /\ b.github_job_id = action.job /\ action.job # None
    BY <2>1, RunningIsNamed
  <2>3. is_exact_successor_of(b, a)
    BY <2>1, <2>2 DEF is_exact_successor_of
  <2> QED
    BY <2>1, <2>3, RunningStep DEF Step
<1>5. CASE n = "RecordTerminal"
  <2>1. /\ action.runner \in RunnerReferences \cup {None} /\ action.job \in JobIds
        /\ action.result \in Results
        /\ b \in record_terminal(a, action.runner, action.job, action.result)
    BY <1>5 DEF Actions, apply_action
  <2>2. /\ b.github_job_id = action.job /\ action.job # None
        /\ b.result = action.result /\ action.result # None
        /\ action.runner # None => b.runner_id # None /\ action.runner = named
    BY <2>1, TerminalIsNamed
  <2>3. is_exact_successor_of(b, a)
    BY <2>1, <2>2 DEF is_exact_successor_of
  <2> QED
    BY <2>1, <2>3, TerminalStep DEF Step
<1>6. CASE n = "AdvanceCleanup"
  <2>1. action.phase \in Phases /\ b \in advance_cleanup(a, action.phase)
    BY <1>6 DEF Actions, apply_action, Phases
  <2>2. b \in MoveTo(a, action.phase)
    BY <2>1 DEF advance_cleanup
  <2>3. b.phase = action.phase
    BY <2>1, <2>2, EvidenceTypes, AdvanceWith DEF MoveTo
  <2>4. is_exact_successor_of(b, a)
    BY <2>1, <2>3 DEF is_exact_successor_of
  <2> QED
    BY <2>1, <2>4, CleanupSteps DEF Step
<1> QED
  BY <1>1, <1>2, <1>3, <1>4, <1>5, <1>6 DEF Actions

\* A retirement takes one attempt off the active list.
LEMMA RetirementShortens ==
  ASSUME NEW c \in Catalogs, NEW id, NEW expected, NEW d \in retire_complete(c, id, expected)
  PROVE  /\ d \in Catalogs /\ validate_catalog(d) /\ d.revision = c.revision + 1
         /\ Len(d.active) + 1 = Len(c.active)
<1>1. PICK i \in DOMAIN c.active :
        d \in PublishedCatalog(c, [c EXCEPT !.active = RemoveAt(c.active, i),
                                            !.tombstones = Retained(Append(@, c.active[i]))])
  BY DEF retire_complete, Positions
<1> DEFINE before == SubSeq(c.active, 1, i - 1)
           after == SubSeq(c.active, i + 1, Len(c.active))
           pushed == Append(c.tombstones, c.active[i])
           next == [c EXCEPT !.active = RemoveAt(c.active, i), !.tombstones = Retained(pushed)]
<1>2. /\ c.active \in Seq(ValidAttempts) /\ c.tombstones \in Seq(ValidAttempts)
      /\ Len(c.active) \in Nat /\ i \in 1 .. Len(c.active)
      /\ \A k \in 1 .. Len(c.active) : c.active[k] \in ValidAttempts
  BY LenProperties, ElementOfSeq DEF Catalogs
<1>3. before \in Seq(ValidAttempts) /\ Len(before) = i - 1
  <2>1. \A k \in 1 .. i - 1 : c.active[k] \in ValidAttempts
    BY <1>2
  <2> QED
    BY <1>2, <2>1, SubSeqProperties
<1>4. after \in Seq(ValidAttempts) /\ Len(after) = Len(c.active) - i
  <2>1. \A k \in i + 1 .. Len(c.active) : c.active[k] \in ValidAttempts
    BY <1>2
  <2> QED
    BY <1>2, <2>1, SubSeqProperties
<1>5. /\ RemoveAt(c.active, i) \in Seq(ValidAttempts)
      /\ Len(RemoveAt(c.active, i)) + 1 = Len(c.active)
  <2>1. RemoveAt(c.active, i) = before \o after
    BY DEF RemoveAt
  <2> HIDE DEF before, after
  <2>2. before \o after \in Seq(ValidAttempts) /\ Len(before \o after) = Len(before) + Len(after)
    BY <1>3, <1>4, ConcatProperties
  <2> QED
    BY <1>2, <1>3, <1>4, <2>1, <2>2
<1>6. pushed \in Seq(ValidAttempts) /\ pushed # << >>
  BY <1>2, AppendProperties
<1>7. Retained(pushed) \in Seq(ValidAttempts)
  BY <1>6, HeadTailProperties DEF Retained
<1>8. next \in Catalogs /\ next.active = RemoveAt(c.active, i)
  BY <1>5, <1>7 DEF Catalogs
<1>9. d \in PublishedCatalog(c, next)
  BY <1>1
<1> HIDE DEF next
<1> QED
  BY <1>5, <1>8, <1>9, PublishedIsCatalog

\* A binding adds the VM identity at revision 3 and changes nothing else.
LEMMA BindingShape ==
  ASSUME NEW a \in ValidAttempts, NEW v \in VmIdentities,
         NEW b \in bind_vm_identity_after_clone(a, v)
  PROVE  /\ a.phase = "CloneStarted" /\ a.revision = 3 /\ a.vm_identity = None
         /\ b.phase = "CloneStarted" /\ b.revision = 4 /\ b.vm_identity # None
         /\ b.id = a.id /\ b.runner_id = a.runner_id /\ b.github_job_id = a.github_job_id
         /\ b.result = a.result /\ b.not_after = a.not_after
<1>1. /\ a.phase = "CloneStarted" /\ a.revision = 3 /\ a.vm_identity = None
      /\ b \in Published(a, [a EXCEPT !.vm_identity = v])
  BY DEF bind_vm_identity_after_clone
<1>2. a \in Attempts
  BY DEF ValidAttempts
<1>3. b = [[a EXCEPT !.vm_identity = v] EXCEPT !.revision = a.revision + 1]
  BY <1>1 DEF Published
<1> QED
  BY <1>1, <1>2, <1>3, NoneAssumption DEF Attempts

-----------------------------------------------------------------------------
(***************************************************************************)
(* The represented revision: sums over the two lists.                      *)
(***************************************************************************)
\* A nonempty set of naturals has a least member.
LEMMA LeastMember ==
  ASSUME NEW S, S \subseteq Nat, S # {}
  PROVE  \E i \in S : \A j \in S : i <= j
<1>1. PICK i \in S : \A j \in S : ~ (<<j, i>> \in OpToRel(<, Nat))
  BY NatLessThanWellFounded, WFMin
<1>2. \A j \in S : ~ (j < i)
  BY <1>1 DEF OpToRel
<1> QED BY <1>2

\* The partial sums of the revisions of `attempts'.
PartialSums(s, f) ==
  /\ f \in [0 .. Len(s) -> Int] /\ f[0] = 0
  /\ \A n \in 1 .. Len(s) : f[n] = f[n - 1] + s[n].revision

\* The last partial sum is the sum, whatever computed it.
LEMMA SumIsLast ==
  ASSUME NEW s \in Seq(ValidAttempts), NEW f, PartialSums(s, f)
  PROVE  RevisionSum(s) = f[Len(s)]
<1> DEFINE N == Len(s)
           IsSum(g) == g = [n \in 0 .. Len(s) |-> IF n = 0 THEN 0 ELSE g[n - 1] + s[n].revision]
           sum == CHOOSE g : IsSum(g)
<1>1. N \in Nat /\ f \in [0 .. N -> Int] /\ f[0] = 0
  BY LenProperties DEF PartialSums
<1>2. IsSum(f)
  <2>1. \A n \in 0 .. N : f[n] = IF n = 0 THEN 0 ELSE f[n - 1] + s[n].revision
    BY <1>1 DEF PartialSums
  <2> QED BY <1>1, <2>1
<1>3. IsSum(sum)
  BY <1>2
<1> HIDE DEF sum
<1>4. /\ sum[0] = 0
      /\ \A n \in 1 .. N : sum[n] = sum[n - 1] + s[n].revision
  BY <1>1, <1>3
<1> DEFINE Bad == {n \in 0 .. N : sum[n] # f[n]}
<1>5. Bad = {}
  <2> SUFFICES ASSUME Bad # {} PROVE FALSE
    OBVIOUS
  <2>0. Bad \subseteq Nat
    BY <1>1
  <2>1. PICK m \in Bad : \A j \in Bad : m <= j
    <3> HIDE DEF Bad
    <3> QED BY <2>0, LeastMember
  <2>2. m \in 1 .. N
    BY <1>1, <1>4, <2>1
  <2>3. m - 1 \in 0 .. N /\ ~ (m <= m - 1)
    BY <1>1, <2>2
  <2>4. sum[m - 1] = f[m - 1]
    BY <2>1, <2>3
  <2>5. f[m] = f[m - 1] + s[m].revision
    BY <2>2 DEF PartialSums
  <2> QED BY <1>4, <2>1, <2>2, <2>4, <2>5
<1>6. sum[N] = f[N]
  BY <1>1, <1>5
<1> QED BY <1>6 DEF RevisionSum, sum

\* Every list of attempts has its partial sums.
LEMMA SumsExist ==
  ASSUME NEW s \in Seq(ValidAttempts)
  PROVE  \E f : PartialSums(s, f)
<1> DEFINE N == Len(s)
           Upto(n, f) == /\ f \in [0 .. n -> Int] /\ f[0] = 0
                         /\ \A k \in 1 .. n : f[k] = f[k - 1] + s[k].revision
           Bad == {n \in 0 .. N : ~ \E f : Upto(n, f)}
<1>1. N \in Nat /\ \A n \in 1 .. N : s[n].revision \in Int
  BY LenProperties, ElementOfSeq DEF ValidAttempts, Attempts
<1> HIDE DEF N
<1>2. Bad = {}
  <2> SUFFICES ASSUME Bad # {} PROVE FALSE
    OBVIOUS
  <2>0. Bad \subseteq Nat
    BY <1>1
  <2>1. PICK m \in Bad : \A j \in Bad : m <= j
    <3> HIDE DEF Bad
    <3> QED BY <2>0, LeastMember
  <2>2. m # 0
    <3> SUFFICES ASSUME m = 0 PROVE FALSE
      OBVIOUS
    <3>1. Upto(0, [k \in 0 .. 0 |-> 0])
      OBVIOUS
    <3> QED BY <2>1, <3>1
  <2>3. m \in 1 .. N /\ m - 1 \in 0 .. N /\ ~ (m <= m - 1)
    BY <1>1, <2>1, <2>2
  <2>4. PICK f : Upto(m - 1, f)
    BY <2>1, <2>3
  <2> DEFINE g == [k \in 0 .. m |-> IF k = m THEN f[m - 1] + s[m].revision ELSE f[k]]
  <2>5. s[m].revision \in Int /\ f[m - 1] \in Int
    BY <1>1, <2>3, <2>4
  <2>6. g \in [0 .. m -> Int] /\ g[0] = 0
    BY <1>1, <2>3, <2>4, <2>5
  <2>7. ASSUME NEW k \in 1 .. m PROVE g[k] = g[k - 1] + s[k].revision
    <3>1. k \in 0 .. m /\ k - 1 \in 0 .. m /\ k - 1 # m /\ g[k - 1] = f[k - 1]
      BY <2>3
    <3>2. CASE k = m
      BY <3>1, <3>2
    <3>3. CASE k # m
      <4>1. k \in 1 .. m - 1
        BY <2>3, <3>3
      <4>2. f[k] = f[k - 1] + s[k].revision
        BY <2>4, <4>1
      <4>3. g[k] = f[k]
        BY <3>1, <3>3
      <4> QED BY <3>1, <4>2, <4>3
    <3> QED BY <3>2, <3>3
  <2>8. Upto(m, g)
    BY <2>6, <2>7
  <2> QED BY <2>1, <2>8
<1>3. N \in 0 .. N
  BY <1>1
<1>4. \E f : Upto(N, f)
  BY <1>2, <1>3
<1> QED BY <1>4 DEF PartialSums, N

\* What pushing, replacing and removing an attempt do to the sum.
LEMMA SumOfAppend ==
  ASSUME NEW s \in Seq(ValidAttempts), NEW a \in ValidAttempts
  PROVE  /\ RevisionSum(s) \in Int
         /\ RevisionSum(Append(s, a)) = RevisionSum(s) + a.revision
<1> DEFINE t == Append(s, a)
           N == Len(s)
<1>1. PICK f : PartialSums(s, f)
  BY SumsExist
<1>2. N \in Nat /\ a.revision \in Int
  BY LenProperties DEF ValidAttempts, Attempts
<1>3. /\ t \in Seq(ValidAttempts) /\ Len(t) = N + 1 /\ t[N + 1] = a
      /\ \A n \in 1 .. N : t[n] = s[n]
  BY AppendProperties
<1> DEFINE g == [n \in 0 .. N + 1 |-> IF n = N + 1 THEN f[N] + a.revision ELSE f[n]]
<1>4. RevisionSum(s) = f[N] /\ f[N] \in Int
  BY <1>1, <1>2, SumIsLast DEF PartialSums
<1>5. PartialSums(t, g)
  <2>0. f \in [0 .. N -> Int] /\ f[0] = 0 /\ \A n \in 1 .. N : f[n] = f[n - 1] + s[n].revision
    BY <1>1 DEF PartialSums
  <2> HIDE DEF t, N
  <2>1. g \in [0 .. N + 1 -> Int] /\ g[0] = 0
    BY <1>2, <1>4, <2>0
  <2>2. ASSUME NEW n \in 1 .. N + 1 PROVE g[n] = g[n - 1] + t[n].revision
    <3>1. /\ n \in 0 .. N + 1 /\ n - 1 \in 0 .. N + 1 /\ n - 1 # N + 1
          /\ g[n - 1] = f[n - 1]
      BY <1>2
    <3>2. CASE n = N + 1
      <4>1. n - 1 = N /\ t[n] = a
        BY <1>2, <1>3, <3>2
      <4>2. g[n] = f[N] + a.revision
        BY <3>1, <3>2
      <4> QED BY <3>1, <4>1, <4>2
    <3>3. CASE n # N + 1
      <4>1. n \in 1 .. N
        BY <1>2, <3>3
      <4>2. g[n] = f[n]
        BY <3>1, <3>3
      <4> QED BY <1>3, <2>0, <3>1, <4>1, <4>2
    <3> QED BY <3>2, <3>3
  <2> QED BY <1>3, <2>1, <2>2 DEF PartialSums
<1>6. RevisionSum(t) = g[N + 1]
  BY <1>3, <1>5, SumIsLast
<1> QED BY <1>2, <1>4, <1>6

LEMMA SumOfExcept ==
  ASSUME NEW s \in Seq(ValidAttempts), NEW i \in 1 .. Len(s), NEW b \in ValidAttempts
  PROVE  RevisionSum([s EXCEPT ![i] = b]) = RevisionSum(s) + b.revision - s[i].revision
<1> DEFINE t == [s EXCEPT ![i] = b]
           N == Len(s)
<1>1. PICK f : PartialSums(s, f)
  BY SumsExist
<1>2. N \in Nat /\ i \in 1 .. N /\ b.revision \in Int /\ s[i].revision \in Int
  BY LenProperties, ElementOfSeq DEF ValidAttempts, Attempts
<1>3. /\ t \in Seq(ValidAttempts) /\ Len(t) = N
      /\ \A n \in 1 .. N : t[n] = IF n = i THEN b ELSE s[n]
  BY ExceptSeq
<1> DEFINE g == [n \in 0 .. N |-> IF n < i THEN f[n] ELSE f[n] + b.revision - s[i].revision]
<1>4. RevisionSum(s) = f[N] /\ f[N] \in Int
  BY <1>1, <1>2, SumIsLast DEF PartialSums
<1>5. PartialSums(t, g)
  <2>0. f \in [0 .. N -> Int] /\ f[0] = 0 /\ \A n \in 1 .. N : f[n] = f[n - 1] + s[n].revision
    BY <1>1 DEF PartialSums
  <2>s. \A n \in 1 .. N : s[n].revision \in Int
    BY ElementOfSeq DEF ValidAttempts, Attempts
  <2> HIDE DEF t, N
  <2>1. g \in [0 .. N -> Int] /\ g[0] = 0
    <3>1. \A n \in 0 .. N : f[n] \in Int
      BY <2>0
    <3>2. \A n \in 0 .. N : f[n] + b.revision - s[i].revision \in Int
      BY <1>2, <3>1
    <3>3. 0 \in 0 .. N /\ 0 < i
      BY <1>2
    <3> QED BY <2>0, <3>1, <3>2, <3>3
  <2>2. \A n \in 1 .. N : g[n] = g[n - 1] + t[n].revision
    <3> SUFFICES ASSUME NEW n \in 1 .. N PROVE g[n] = g[n - 1] + t[n].revision
      OBVIOUS
    <3>1. /\ n \in 0 .. N /\ n - 1 \in 0 .. N /\ f[n] = f[n - 1] + s[n].revision
          /\ f[n - 1] \in Int /\ s[n].revision \in Int
      BY <1>2, <2>0, <2>s
    <3>2. CASE n < i
      BY <1>2, <1>3, <3>1, <3>2
    <3>3. CASE n = i
      BY <1>2, <1>3, <3>1, <3>3
    <3>4. CASE n > i
      BY <1>2, <1>3, <3>1, <3>4
    <3> QED BY <1>2, <3>2, <3>3, <3>4
  <2> QED BY <1>3, <2>1, <2>2 DEF PartialSums
<1>6. RevisionSum(t) = g[N]
  BY <1>3, <1>5, SumIsLast
<1> QED BY <1>2, <1>4, <1>6

\* A list without its member at i.
Without(t, s, i) ==
  /\ t \in Seq(ValidAttempts) /\ Len(t) = Len(s) - 1
  /\ \A n \in 1 .. Len(t) : t[n] = IF n < i THEN s[n] ELSE s[n + 1]

LEMMA SumOfWithout ==
  ASSUME NEW s \in Seq(ValidAttempts), NEW i \in 1 .. Len(s), NEW t, Without(t, s, i)
  PROVE  RevisionSum(t) = RevisionSum(s) - s[i].revision
<1> DEFINE N == Len(s)
<1>1. PICK f : PartialSums(s, f)
  BY SumsExist
<1>2. N \in Nat /\ i \in 1 .. N /\ s[i].revision \in Int
  BY LenProperties, ElementOfSeq DEF ValidAttempts, Attempts
<1>3. /\ t \in Seq(ValidAttempts) /\ Len(t) = N - 1
      /\ \A n \in 1 .. N - 1 : t[n] = IF n < i THEN s[n] ELSE s[n + 1]
  BY DEF Without
<1> DEFINE g == [n \in 0 .. N - 1 |-> IF n < i THEN f[n] ELSE f[n + 1] - s[i].revision]
<1>4. RevisionSum(s) = f[N] /\ f[N] \in Int
  BY <1>1, <1>2, SumIsLast DEF PartialSums
<1>0. /\ f \in [0 .. N -> Int] /\ f[0] = 0
      /\ \A n \in 1 .. N : f[n] = f[n - 1] + s[n].revision
  BY <1>1 DEF PartialSums
<1>s. \A n \in 1 .. N : s[n].revision \in Int
  BY ElementOfSeq DEF ValidAttempts, Attempts
<1>5. PartialSums(t, g)
  <2> HIDE DEF N
  <2>1. g \in [0 .. N - 1 -> Int] /\ g[0] = 0
    BY <1>2, <1>4, <1>0
  <2>2. \A n \in 1 .. N - 1 : g[n] = g[n - 1] + t[n].revision
    <3> SUFFICES ASSUME NEW n \in 1 .. N - 1 PROVE g[n] = g[n - 1] + t[n].revision
      OBVIOUS
    <3>1. /\ n \in 1 .. N /\ n + 1 \in 1 .. N /\ n - 1 \in 0 .. N - 1 /\ n \in 0 .. N - 1
          /\ n \in Int /\ (n + 1) - 1 = n /\ (n - 1) + 1 = n
      BY <1>2
    <3>a. f[n + 1] = f[(n + 1) - 1] + s[n + 1].revision
      BY <1>0, <3>1
    <3>b. f[n] = f[n - 1] + s[n].revision /\ f[n + 1] = f[n] + s[n + 1].revision
      BY <1>0, <3>1, <3>a
    <3>c. n - 1 \in 0 .. N
      BY <1>2, <3>1
    <3>d. f[n - 1] \in Int /\ s[n].revision \in Int /\ s[n + 1].revision \in Int
      BY <1>0, <1>s, <3>1, <3>c
    <3>2. /\ f[n] = f[n - 1] + s[n].revision /\ f[n + 1] = f[n] + s[n + 1].revision
          /\ f[n - 1] \in Int /\ s[n].revision \in Int /\ s[n + 1].revision \in Int
      BY <3>b, <3>d
    <3>3. CASE n < i
      BY <1>2, <1>3, <3>1, <3>2, <3>3
    <3>4. CASE n = i
      <4>1. g[n] = f[n + 1] - s[i].revision /\ t[n] = s[n + 1]
        BY <1>2, <1>3, <3>1, <3>4
      <4>2. g[n - 1] = f[n - 1]
        BY <1>2, <3>1, <3>4
      <4> HIDE DEF g
      <4> QED BY <1>2, <3>2, <3>4, <4>1, <4>2
    <3>5. CASE n > i
      <4>1. g[n] = f[n + 1] - s[i].revision /\ t[n] = s[n + 1]
        BY <1>2, <1>3, <3>1, <3>5
      <4>2. ~ (n - 1 < i)
        BY <1>2, <3>1, <3>5
      <4>3. g[n - 1] = f[n] - s[i].revision
        BY <3>1, <4>2
      <4> HIDE DEF g
      <4> QED BY <1>2, <3>2, <4>1, <4>3
    <3> QED BY <1>2, <3>3, <3>4, <3>5
  <2> QED BY <1>3, <2>1, <2>2 DEF PartialSums
<1>6. RevisionSum(t) = g[N - 1]
  BY <1>3, <1>5, SumIsLast
<1>7. g[N - 1] = f[N] - s[i].revision
  <2> HIDE DEF N
  <2>1. CASE i = N
    <3>1. f[N] = f[N - 1] + s[N].revision /\ f[N - 1] \in Int /\ N - 1 \in 0 .. N - 1
      BY <1>0, <1>2
    <3> QED BY <1>2, <2>1, <3>1
  <2>2. CASE i < N
    BY <1>2, <2>2
  <2> QED BY <1>2, <2>1, <2>2
<1> QED BY <1>4, <1>6, <1>7

-----------------------------------------------------------------------------
(***************************************************************************)
(* The catalog as two sets of documents.                                   *)
(***************************************************************************)
Live(c) == Range(c.active)
Past(c) == Range(c.tombstones)

\* A valid catalog.
Sound(c) == c \in Catalogs /\ validate_catalog(c)

\* The documents of a catalog are valid.
LEMMA DocumentsAreValid ==
  ASSUME NEW c \in Catalogs
  PROVE  /\ Live(c) \subseteq ValidAttempts /\ Past(c) \subseteq ValidAttempts
         /\ Live(c) = {c.active[i] : i \in 1 .. Len(c.active)}
         /\ Past(c) = {c.tombstones[i] : i \in 1 .. Len(c.tombstones)}
         /\ DOMAIN c.active = 1 .. Len(c.active) /\ Len(c.active) \in Nat
         /\ DOMAIN c.tombstones = 1 .. Len(c.tombstones) /\ Len(c.tombstones) \in Nat
<1>1. c.active \in Seq(ValidAttempts) /\ c.tombstones \in Seq(ValidAttempts)
  BY DEF Catalogs
<1> QED
  BY <1>1, RangeOfSeq, RangeEquality, LenProperties DEF Live, Past

\* Where the documents of a catalog stand when both lists are read as one.
LEMMA JoinedLists ==
  ASSUME NEW c \in Catalogs
  PROVE  LET all == c.active \o c.tombstones
             m == Len(c.active)  n == Len(c.tombstones) IN
         /\ DOMAIN all = 1 .. m + n /\ m \in Nat /\ n \in Nat
         /\ \A i \in 1 .. m : i \in DOMAIN all /\ all[i] = c.active[i]
         /\ \A j \in 1 .. n : m + j \in DOMAIN all /\ all[m + j] = c.tombstones[j]
         /\ \A i \in 1 .. m + n : all[i] \in ValidAttempts
<1> DEFINE all == c.active \o c.tombstones
           m == Len(c.active)
           n == Len(c.tombstones)
<1>1. c.active \in Seq(ValidAttempts) /\ c.tombstones \in Seq(ValidAttempts)
  BY DEF Catalogs
<1>2. /\ all \in Seq(ValidAttempts) /\ Len(all) = m + n
      /\ \A i \in 1 .. m + n : all[i] = IF i <= m THEN c.active[i] ELSE c.tombstones[i - m]
  BY <1>1, ConcatProperties
<1>3. /\ DOMAIN all = 1 .. m + n /\ m \in Nat /\ n \in Nat
      /\ \A i \in 1 .. m + n : all[i] \in ValidAttempts
  BY <1>1, <1>2, LenProperties, ElementOfSeq
<1> HIDE DEF all, m, n
<1>4. \A i \in 1 .. m : i \in 1 .. m + n /\ i <= m
  BY <1>3
<1>5. \A j \in 1 .. n : m + j \in 1 .. m + n /\ ~ (m + j <= m) /\ (m + j) - m = j
  BY <1>3
<1>6. \A i \in 1 .. m : i \in DOMAIN all /\ all[i] = c.active[i]
  BY <1>2, <1>3, <1>4
<1>7. \A j \in 1 .. n : m + j \in DOMAIN all /\ all[m + j] = c.tombstones[j]
  BY <1>2, <1>3, <1>5
<1> QED
  BY <1>3, <1>6, <1>7 DEF all, m, n

\* An identity names one document of a valid catalog, active or retired.
LEMMA IdentityIsUnique ==
  ASSUME NEW c, Sound(c)
  PROVE  /\ \A i, j \in DOMAIN c.active : c.active[i].id = c.active[j].id => i = j
         /\ \A a, b \in Live(c) : a.id = b.id => a = b
         /\ \A a, b \in Past(c) : a.id = b.id => a = b
         /\ \A a \in Live(c), b \in Past(c) : a.id # b.id
<1> DEFINE all == c.active \o c.tombstones
           m == Len(c.active)
           n == Len(c.tombstones)
<1>0. c \in Catalogs
  BY DEF Sound
<1>1. /\ DOMAIN all = 1 .. m + n /\ m \in Nat /\ n \in Nat
      /\ \A i \in 1 .. m : i \in DOMAIN all /\ all[i] = c.active[i]
      /\ \A j \in 1 .. n : m + j \in DOMAIN all /\ all[m + j] = c.tombstones[j]
  BY <1>0, JoinedLists
<1>2. \A i, j \in DOMAIN all : i # j => all[i].id # all[j].id
  BY DEF Sound, validate_catalog, IdentitiesUnique
<1>3. /\ Live(c) = {c.active[i] : i \in 1 .. m} /\ DOMAIN c.active = 1 .. m
      /\ Past(c) = {c.tombstones[i] : i \in 1 .. n}
  BY <1>0, DocumentsAreValid
<1> HIDE DEF all, m, n
<1>4. \A i, j \in 1 .. m : c.active[i].id = c.active[j].id => i = j
  BY <1>1, <1>2
<1>5. \A i, j \in 1 .. n : c.tombstones[i].id = c.tombstones[j].id => i = j
  <2>1. ASSUME NEW i \in 1 .. n, NEW j \in 1 .. n, i # j
        PROVE  c.tombstones[i].id # c.tombstones[j].id
    <3>1. m + i # m + j
      BY <1>1, <2>1
    <3>2. all[m + i].id # all[m + j].id
      BY <1>1, <1>2, <3>1
    <3>3. all[m + i] = c.tombstones[i] /\ all[m + j] = c.tombstones[j]
      BY <1>1
    <3> QED
      BY <3>2, <3>3
  <2> QED
    BY <2>1
<1>6. \A i \in 1 .. m, j \in 1 .. n : c.active[i].id # c.tombstones[j].id
  <2>1. \A i \in 1 .. m, j \in 1 .. n : i # m + j
    BY <1>1
  <2> QED
    BY <1>1, <1>2, <2>1
<1> QED
  BY <1>3, <1>4, <1>5, <1>6

\* The document b takes the place of a.
Swap(d, c, a, b) ==
  /\ Sound(d)
  /\ Live(d) = (Live(c) \ {a}) \cup {b}
  /\ Past(d) = Past(c)
  /\ Len(d.active) = Len(c.active)

\* Replacing one position, or none, swaps its document.
LEMMA ReplacedIsSwap ==
  ASSUME NEW c, Sound(c), NEW i \in DOMAIN c.active, NEW b, NEW d,
         Replaced(d, c, i, b) \/ (d = c /\ b = c.active[i])
  PROVE  Swap(d, c, c.active[i], b)
<1>0. /\ c \in Catalogs
      /\ Live(c) = {c.active[k] : k \in DOMAIN c.active}
      /\ \A k \in DOMAIN c.active : c.active[k] = c.active[i] => k = i
  BY DocumentsAreValid, IdentityIsUnique DEF Sound
<1>1. CASE d = c /\ b = c.active[i]
  BY <1>0, <1>1 DEF Swap
<1>2. CASE Replaced(d, c, i, b)
  <2>1. /\ Sound(d) /\ d.tombstones = c.tombstones /\ Len(d.active) = Len(c.active)
        /\ d.active[i] = b
        /\ \A k \in DOMAIN c.active : k # i => d.active[k] = c.active[k]
    BY <1>2 DEF Replaced, Sound
  <2>2. Live(d) = {d.active[k] : k \in DOMAIN c.active}
    BY <1>0, <2>1, DocumentsAreValid DEF Sound
  <2>3. Live(d) = (Live(c) \ {c.active[i]}) \cup {b}
    BY <1>0, <2>1, <2>2
  <2> QED
    BY <2>1, <2>3 DEF Swap, Past
<1> QED
  BY <1>1, <1>2

\* An action swaps the attempt it is addressed to for its successor.
LEMMA TransitionSwaps ==
  ASSUME NEW c, Sound(c), NEW id, NEW expected, NEW action \in Actions,
         NEW d \in replace_attempt(c, id, expected, action)
  PROVE  \E a \in Live(c) : \E b \in apply_action(a, action) :
           /\ a.id = id /\ a.revision = expected
           /\ Step(a, b) /\ b.vm_identity = a.vm_identity
           /\ Swap(d, c, a, b)
<1>1. PICK i \in Positions(c, id, expected) :
        d \in UNION {IF b = c.active[i] THEN {c}
                     ELSE PublishedCatalog(c, [c EXCEPT !.active[i] = b]) :
                       b \in apply_action(c.active[i], action)}
  BY DEF replace_attempt
<1>2. PICK b \in apply_action(c.active[i], action) :
        d \in IF b = c.active[i] THEN {c} ELSE PublishedCatalog(c, [c EXCEPT !.active[i] = b])
  BY <1>1
<1>3. i \in DOMAIN c.active /\ c.active[i].id = id /\ c.active[i].revision = expected
  BY DEF Positions
<1>4. c \in Catalogs /\ c.active[i] \in ValidAttempts /\ c.active[i] \in Live(c)
  BY <1>3, DocumentsAreValid DEF Sound
<1>5. CASE b = c.active[i]
  <2>1. d = c
    BY <1>2, <1>5
  <2>2. Step(c.active[i], b) /\ Swap(d, c, c.active[i], b)
    BY <1>3, <1>4, <1>5, <2>1, StutterIsStep, ReplacedIsSwap
  <2> QED
    BY <1>3, <1>4, <1>5, <2>2
<1>6. CASE b # c.active[i]
  <2>1. /\ b \in ValidAttempts /\ Step(c.active[i], b)
        /\ is_exact_successor_of(b, c.active[i])
    BY <1>4, <1>6, ActionIsSuccessor
  <2>2. b.vm_identity = c.active[i].vm_identity
    BY <1>4, <2>1, SuccessorAdvances
  <2>3. Replaced(d, c, i, b)
    BY <1>2, <1>3, <1>4, <1>6, <2>1, ReplacementIsReplaced
  <2>4. Swap(d, c, c.active[i], b)
    BY <1>3, <2>3, ReplacedIsSwap
  <2> QED
    BY <1>3, <1>4, <2>1, <2>2, <2>4
<1> QED
  BY <1>5, <1>6

\* A binding swaps the attempt for the bound one.
LEMMA BindingSwaps ==
  ASSUME NEW c, Sound(c), NEW id, NEW expected, NEW v \in VmIdentities,
         NEW d \in catalog_bind_vm_identity_after_clone(c, id, expected, v)
  PROVE  \E a \in Live(c) : \E b \in bind_vm_identity_after_clone(a, v) :
           a.id = id /\ Step(a, b) /\ Swap(d, c, a, b)
<1>1. PICK i \in Positions(c, id, expected) :
        d \in UNION {PublishedCatalog(c, [c EXCEPT !.active[i] = b]) :
                       b \in bind_vm_identity_after_clone(c.active[i], v)}
  BY DEF catalog_bind_vm_identity_after_clone
<1>2. PICK b \in bind_vm_identity_after_clone(c.active[i], v) :
        d \in PublishedCatalog(c, [c EXCEPT !.active[i] = b])
  BY <1>1
<1>3. i \in DOMAIN c.active /\ c.active[i].id = id
  BY DEF Positions
<1>4. c \in Catalogs /\ c.active[i] \in ValidAttempts /\ c.active[i] \in Live(c)
  BY <1>3, DocumentsAreValid DEF Sound
<1>5. Step(c.active[i], b) /\ b \in ValidAttempts
  BY <1>4, CheckpointSteps DEF Step
<1>6. Replaced(d, c, i, b)
  BY <1>2, <1>3, <1>4, <1>5, ReplacementIsReplaced
<1>7. Swap(d, c, c.active[i], b)
  BY <1>3, <1>6, ReplacedIsSwap
<1> QED
  BY <1>3, <1>4, <1>5, <1>7

\* What an appended sequence contains.
LEMMA AppendRange ==
  ASSUME NEW S, NEW s \in Seq(S), NEW e \in S
  PROVE  Range(Append(s, e)) = Range(s) \cup {e}
<1>1. <<e>> \in Seq(S) /\ Range(<<e>>) = {e}
  BY DEF Range
<1>2. Range(s \o <<e>>) = Range(s) \cup Range(<<e>>)
  BY <1>1, RangeConcatenation
<1>3. Append(s, e) = s \o <<e>>
  BY AppendIsConcat
<1> QED
  BY <1>1, <1>2, <1>3

\* A reservation of an identity the catalog does not know adds its document.
LEMMA ReservationAdds ==
  ASSUME NEW c, Sound(c), NEW id \in AttemptIds, NEW t \in Times,
         find_active(c, id) = {}, NEW d \in reserve(c, reserved(id, t))
  PROVE  /\ Sound(d) /\ find_tombstone(c, id) = {}
         /\ Live(d) = Live(c) \cup {reserved(id, t)} /\ Past(d) = Past(c)
         /\ Len(d.active) = Len(c.active) + 1
<1> DEFINE a == reserved(id, t)
           next == [c EXCEPT !.active = Append(@, a)]
           added == Append(c.active, a)
<1>1. a \in ValidAttempts /\ a.id = id
  BY ReservedIsValid DEF reserved
<1> HIDE DEF a
<1>2. c \in Catalogs /\ c.active \in Seq(ValidAttempts)
  BY DEF Sound, Catalogs
<1>3. d \in PublishedCatalog(c, next) /\ find_tombstone(c, id) = {}
  BY <1>1 DEF reserve, a
<1>4. added \in Seq(ValidAttempts) /\ Len(added) = Len(c.active) + 1
  BY <1>1, <1>2, AppendProperties
<1>5. Range(added) = Range(c.active) \cup {a}
  BY <1>1, <1>2, AppendRange
<1>6. next \in Catalogs /\ next.active = added /\ next.tombstones = c.tombstones
  BY <1>2, <1>4 DEF Catalogs
<1> HIDE DEF next, added
<1>7. /\ d \in Catalogs /\ validate_catalog(d)
      /\ d.active = added /\ d.tombstones = c.tombstones
  BY <1>2, <1>3, <1>6, PublishedIsCatalog
<1> QED
  BY <1>3, <1>4, <1>5, <1>7 DEF Sound, Live, Past, a

\* A retirement moves a complete attempt to the history, which forgets at most
\* its oldest entry, and nothing while it has room.
LEMMA RetirementMoves ==
  ASSUME NEW c, Sound(c), NEW id, NEW expected, NEW d \in retire_complete(c, id, expected)
  PROVE  \E a \in Live(c) :
           /\ a.id = id /\ a.revision = expected /\ a.phase = "Complete" /\ Sound(d)
           /\ Live(d) = Live(c) \ {a} /\ Past(d) \subseteq Past(c) \cup {a}
           /\ Len(c.tombstones) < MaxTombstones => Past(d) = Past(c) \cup {a}
           /\ Len(d.active) + 1 = Len(c.active)
<1>0. /\ c \in Catalogs /\ c.active \in Seq(ValidAttempts) /\ c.tombstones \in Seq(ValidAttempts)
      /\ Live(c) = {c.active[k] : k \in 1 .. Len(c.active)}
      /\ DOMAIN c.active = 1 .. Len(c.active) /\ Len(c.active) \in Nat
      /\ Len(c.tombstones) \in Nat
      /\ \A k, l \in DOMAIN c.active : c.active[k].id = c.active[l].id => k = l
      /\ \A k \in 1 .. Len(c.active) : c.active[k] \in ValidAttempts
  BY DocumentsAreValid, IdentityIsUnique DEF Sound, Catalogs
<1>1. PICK i \in {k \in Positions(c, id, expected) : c.active[k].phase = "Complete"} :
        d \in PublishedCatalog(c, [c EXCEPT !.active = RemoveAt(c.active, i),
                                            !.tombstones = Retained(Append(@, c.active[i]))])
  BY DEF retire_complete
<1> DEFINE n == Len(c.active)
           before == SubSeq(c.active, 1, i - 1)
           after == SubSeq(c.active, i + 1, n)
           pushed == Append(c.tombstones, c.active[i])
           next == [c EXCEPT !.active = RemoveAt(c.active, i), !.tombstones = Retained(pushed)]
<1>2. /\ i \in 1 .. n /\ c.active[i].id = id /\ c.active[i].revision = expected
      /\ c.active[i].phase = "Complete"
  BY <1>0 DEF Positions
<1>3. /\ before \in Seq(ValidAttempts) /\ Len(before) = i - 1
      /\ \A k \in 1 .. i - 1 : before[k] = c.active[k]
  <2>1. \A k \in 1 .. i - 1 : c.active[k] \in ValidAttempts
    BY <1>0, <1>2
  <2>2. /\ before \in Seq(ValidAttempts)
        /\ Len(before) = IF 1 <= i - 1 THEN i - 1 - 1 + 1 ELSE 0
        /\ \A k \in 1 .. i - 1 - 1 + 1 : before[k] = c.active[1 + k - 1]
    BY <1>2, <2>1, SubSeqProperties
  <2> HIDE DEF before
  <2> QED
    BY <1>2, <2>2
<1>4. /\ after \in Seq(ValidAttempts) /\ Len(after) = n - i
      /\ \A k \in 1 .. n - i : after[k] = c.active[i + k]
  <2>1. \A k \in i + 1 .. n : c.active[k] \in ValidAttempts
    BY <1>0, <1>2
  <2>2. /\ after \in Seq(ValidAttempts)
        /\ Len(after) = IF i + 1 <= n THEN n - (i + 1) + 1 ELSE 0
        /\ \A k \in 1 .. n - (i + 1) + 1 : after[k] = c.active[i + 1 + k - 1]
    BY <1>0, <1>2, <2>1, SubSeqProperties
  <2> HIDE DEF after, n
  <2>3. n \in Nat
    BY <1>0 DEF n
  <2> QED
    BY <1>2, <2>2, <2>3
<1>5. /\ RemoveAt(c.active, i) \in Seq(ValidAttempts)
      /\ Len(RemoveAt(c.active, i)) + 1 = n
      /\ Range(RemoveAt(c.active, i)) = Range(before) \cup Range(after)
  <2>1. RemoveAt(c.active, i) = before \o after
    BY DEF RemoveAt
  <2> HIDE DEF before, after
  <2>2. /\ before \o after \in Seq(ValidAttempts)
        /\ Len(before \o after) = Len(before) + Len(after)
        /\ Range(before \o after) = Range(before) \cup Range(after)
    BY <1>3, <1>4, ConcatProperties, RangeConcatenation
  <2> QED
    BY <1>0, <1>2, <1>3, <1>4, <2>1, <2>2
<1>6. Range(before) \cup Range(after) = Live(c) \ {c.active[i]}
  <2> HIDE DEF before, after
  <2>1. Range(before) = {c.active[k] : k \in 1 .. i - 1}
    BY <1>3, RangeEquality
  <2>2. Range(after) = {after[k] : k \in 1 .. n - i}
    BY <1>4, RangeEquality
  <2> HIDE DEF n
  <2>n. n \in Nat /\ Live(c) = {c.active[k] : k \in 1 .. n} /\ DOMAIN c.active = 1 .. n
    BY <1>0 DEF n
  <2>3. \A k \in 1 .. n - i : i + k \in i + 1 .. n
    BY <1>2, <2>n
  <2>4. \A k \in i + 1 .. n : k - i \in 1 .. n - i /\ i + (k - i) = k
    BY <1>2, <2>n
  <2>5. Range(after) = {c.active[k] : k \in i + 1 .. n}
    <3>1. \A k \in 1 .. n - i : after[k] \in {c.active[l] : l \in i + 1 .. n}
      BY <1>4, <2>3
    <3>2. \A k \in i + 1 .. n : c.active[k] = after[k - i]
      BY <1>4, <2>4
    <3> QED
      BY <2>2, <2>4, <3>1, <3>2
  <2>6. \A k \in 1 .. n : k # i => c.active[k] # c.active[i]
    BY <1>0, <1>2, <2>n
  <2>7. 1 .. n = (1 .. i - 1) \cup {i} \cup (i + 1 .. n) /\ i \notin 1 .. i - 1 /\ i \notin i + 1 .. n
    BY <1>2, <2>n
  <2> QED
    BY <2>1, <2>5, <2>6, <2>7, <2>n
<1>7. /\ pushed \in Seq(ValidAttempts) /\ pushed # << >>
      /\ Len(pushed) = Len(c.tombstones) + 1
      /\ Range(pushed) = Past(c) \cup {c.active[i]}
  BY <1>0, <1>2, AppendProperties, AppendRange DEF Past
<1> HIDE DEF pushed
<1>8. /\ Retained(pushed) \in Seq(ValidAttempts)
      /\ Range(Retained(pushed)) \subseteq Range(pushed)
      /\ Len(c.tombstones) < MaxTombstones => Retained(pushed) = pushed
  <2>1. /\ Tail(pushed) \in Seq(ValidAttempts)
        /\ Len(Tail(pushed)) = Len(pushed) - 1
        /\ \A k \in 1 .. Len(Tail(pushed)) : Tail(pushed)[k] = pushed[k + 1]
    BY <1>7, HeadTailProperties
  <2>2. Range(Tail(pushed)) \subseteq Range(pushed)
    <3>1. /\ Range(Tail(pushed)) = {Tail(pushed)[k] : k \in 1 .. Len(Tail(pushed))}
          /\ Range(pushed) = {pushed[k] : k \in 1 .. Len(pushed)}
      BY <1>7, <2>1, RangeEquality
    <3>2. \A k \in 1 .. Len(Tail(pushed)) : k + 1 \in 1 .. Len(pushed)
      BY <1>0, <1>7, <2>1
    <3> QED
      BY <2>1, <3>1, <3>2
  <2>3. Len(c.tombstones) < MaxTombstones => ~ (Len(pushed) > MaxTombstones)
    BY <1>0, <1>7, CatalogBoundsAssumption
  <2> QED
    BY <1>7, <2>1, <2>2, <2>3 DEF Retained
<1>9. /\ next \in Catalogs /\ next.active = RemoveAt(c.active, i)
      /\ next.tombstones = Retained(pushed)
  BY <1>0, <1>5, <1>8 DEF Catalogs
<1>10. d \in PublishedCatalog(c, next)
  BY <1>1 DEF pushed
<1> HIDE DEF next
<1>11. /\ d \in Catalogs /\ validate_catalog(d)
       /\ d.active = RemoveAt(c.active, i) /\ d.tombstones = Retained(pushed)
  BY <1>0, <1>9, <1>10, PublishedIsCatalog
<1>12. c.active[i] \in Live(c)
  BY <1>0, <1>2
<1> WITNESS c.active[i] \in Live(c)
<1>13. Live(d) = Live(c) \ {c.active[i]}
  BY <1>5, <1>6, <1>11 DEF Live
<1>14. /\ Past(d) \subseteq Past(c) \cup {c.active[i]}
       /\ Len(c.tombstones) < MaxTombstones => Past(d) = Past(c) \cup {c.active[i]}
  BY <1>7, <1>8, <1>11 DEF Past
<1> QED
  BY <1>2, <1>5, <1>11, <1>13, <1>14 DEF Sound

\* The bound on history is never reached: there are no more identities than
\* history has room for.
HistorySuffices == IsFiniteSet(AttemptIds) /\ Cardinality(AttemptIds) <= MaxTombstones

\* Then history has room for one more as long as an attempt is active.
LEMMA RoomForHistory ==
  ASSUME NEW c, Sound(c), Live(c) # {}, HistorySuffices
  PROVE  Len(c.tombstones) < MaxTombstones
<1> DEFINE all == c.active \o c.tombstones
           m == Len(c.active)
           n == Len(c.tombstones)
           f == [i \in 1 .. m + n |-> all[i].id]
<1>0. c \in Catalogs
  BY DEF Sound
<1>1. /\ DOMAIN all = 1 .. m + n /\ m \in Nat /\ n \in Nat
      /\ \A i \in 1 .. m + n : all[i] \in ValidAttempts
  BY <1>0, JoinedLists
<1>2. m # 0
  BY <1>0, DocumentsAreValid
<1>3. \A i, j \in 1 .. m + n : i # j => all[i].id # all[j].id
  BY <1>1 DEF Sound, validate_catalog, IdentitiesUnique
<1> HIDE DEF all, m, n
<1>4. f \in [1 .. m + n -> AttemptIds]
  BY <1>1 DEF ValidAttempts, Attempts
<1>5. IsFiniteSet(1 .. m + n) /\ Cardinality(1 .. m + n) = m + n
  BY <1>1, <1>2, FS_Interval
<1>6. Cardinality(AttemptIds) \in Nat
  BY FS_CardinalityType DEF HistorySuffices
<1>7. ~ (Cardinality(AttemptIds) < m + n)
  <2> SUFFICES ASSUME Cardinality(AttemptIds) < m + n PROVE FALSE
    OBVIOUS
  <2>1. Cardinality(AttemptIds) < Cardinality(1 .. m + n) /\ IsFiniteSet(AttemptIds)
    BY <1>5 DEF HistorySuffices
  <2> HIDE DEF f
  <2>2. \E x, y \in 1 .. m + n : x # y /\ f[x] = f[y]
    BY <1>4, <1>5, <2>1, FS_PigeonHole
  <2> QED
    BY <1>3, <2>2 DEF f
<1>8. Cardinality(AttemptIds) <= MaxTombstones /\ MaxTombstones \in Nat
  BY CatalogBoundsAssumption DEF HistorySuffices
<1> QED
  BY <1>1, <1>2, <1>6, <1>7, <1>8 DEF n

-----------------------------------------------------------------------------
(***************************************************************************)
(* What an action does to the phase.                                       *)
(***************************************************************************)
\* An attempt that may own a VM, and one whose clone is not yet identified.
Held(a) == a.phase \in Owned \cup Cleanup
UnboundClone(a) == a.phase = "CloneStarted" /\ a.vm_identity = None

\* An attempt whose runner was started and that is on its way out.
Ending(a) == a.phase \in Cleanup \cup {"Terminal"} /\ a.runner_start_started

\* Only the bound attempts go on from a started clone.
LEMMA UnboundStays ==
  ASSUME NEW a \in ValidAttempts, NEW b, Step(a, b), b.vm_identity = a.vm_identity,
         UnboundClone(a)
  PROVE  UnboundClone(b)
<1>1. b \in ValidAttempts /\ b.vm_identity = None
  BY DEF Step, UnboundClone
<1>2. b.phase \in Owned \cup {"Destroying"}
  BY DEF Step, Moves, UnboundClone, CleanupMoves, PreClone, Owned
<1>3. b.phase = "CloneStarted"
  BY <1>1, <1>2 DEF ValidAttempts, validate, PhaseShape, Owned
<1> QED
  BY <1>1, <1>3 DEF UnboundClone

\* Only the last cleanup step gives up what an attempt may own.
LEMMA HeldStays ==
  ASSUME NEW a \in ValidAttempts, NEW b, Step(a, b), Held(a), a.phase # "Releasing"
  PROVE  Held(b)
BY DEF Step, Moves, Held, CleanupMoves, PreClone, Owned, Cleanup

\* How an action moves the phase, by its name.
Arrow(n, p, q) ==
  \/ n = "AuthorizeClone" /\ p = "Reserved" /\ q = "CloneAuthorized"
  \/ n = "RecordCloneStarted" /\ p = "CloneAuthorized" /\ q = "CloneStarted"
  \/ /\ n = "BeginUnprovisionedRelease" /\ p \in {"Reserved", "CloneAuthorized"}
     /\ q = "UnprovisionedReleasing"
  \/ n = "CompleteUnprovisioned" /\ p \in PreClone /\ q = "Complete"
  \/ n = "BeginRegistration" /\ p = "CloneStarted" /\ q = "Registering"
  \/ n = "RecordRunnerReady" /\ p = "Registering" /\ q = "Waiting"
  \/ n = "RecordAssigned" /\ p \in {"Registering", "Waiting"} /\ q = "Assigned"
  \/ n = "RecordRunning" /\ p \in {"Registering", "Waiting", "Assigned"} /\ q = "Running"
  \/ n = "RecordTerminal" /\ p \in Owned /\ q = "Terminal"
  \/ n = "BeginCleanup" /\ p \in Owned /\ q = "Destroying"
  \/ n = "AdvanceCleanup" /\ <<p, q>> \in CleanupMoves

\* An action keeps the phase or moves it along its arrow, and only the start
\* checkpoint marks the runner as started.
LEMMA ActionArrow ==
  ASSUME NEW a \in ValidAttempts, NEW action \in Actions, NEW b \in apply_action(a, action)
  PROVE  /\ b.phase = a.phase \/ Arrow(action.name, a.phase, b.phase)
         /\ \/ b.runner_start_started = a.runner_start_started
            \/ action.name = "RecordRunnerStartStarted" /\ b.phase = a.phase
<1> USE EvidenceTypes
<1> DEFINE n == action.name
           Kept == b.runner_start_started = a.runner_start_started
           Moved == b.phase = a.phase \/ Arrow(n, a.phase, b.phase)
<1>0. \A p \in Phases, r \in Option(RunnerIds), j \in Option(JobIds), x \in Option(Results) :
        b \in advance_with(a, p, r, j, x) => b.phase = p /\ Kept
  BY AdvanceWith
<1>p. \A p \in {"CloneAuthorized", "CloneStarted", "UnprovisionedReleasing", "Complete",
                "Registering", "Waiting", "Assigned", "Running", "Terminal", "Destroying",
                "Deregistering", "Releasing"} : p \in Phases
  BY DEF Phases, PreClone, Owned, Cleanup
<1> HIDE DEF Kept
<1>1. CASE n \in {"AuthorizeClone", "RecordCloneStarted", "BeginRegistration"}
  <2>1. \/ n = "AuthorizeClone" /\ b \in advance_phase(a, "Reserved", "CloneAuthorized")
        \/ n = "RecordCloneStarted" /\ b \in advance_phase(a, "CloneAuthorized", "CloneStarted")
        \/ n = "BeginRegistration" /\ b \in advance_phase(a, "CloneStarted", "Registering")
    BY <1>1 DEF apply_action, authorize_clone, record_clone_started, begin_registration
  <2>2. Moved /\ Kept
    BY <1>0, <1>p, <2>1 DEF advance_phase, MoveTo, Arrow
  <2> QED BY <2>2 DEF Kept
<1>2. CASE n \in {"BeginUnprovisionedRelease", "CompleteUnprovisioned"}
  <2>1. \/ /\ n = "BeginUnprovisionedRelease" /\ a.phase \in {"Reserved", "CloneAuthorized"}
           /\ b \in advance_with(a, "UnprovisionedReleasing", None, None, None)
        \/ /\ n = "CompleteUnprovisioned" /\ a.phase \in PreClone
           /\ b \in advance_with(a, "Complete", None, None, None)
    BY <1>2 DEF apply_action, begin_unprovisioned_release, complete_unprovisioned
  <2>2. Moved /\ Kept
    BY <1>0, <1>p, <2>1 DEF Arrow
  <2> QED BY <2>2 DEF Kept
<1>3. CASE n = "RecordJitGenerationStarted"
  <2>1. b = a \/ b \in Published(a, [a EXCEPT !.jit_generation_started = TRUE])
    BY <1>3 DEF apply_action, record_jit_generation_started
  <2> QED BY <2>1 DEF Published, Attempts
<1>4. CASE n = "RecordRunnerStartStarted"
  <2>1. b = a \/ b \in Published(a, [a EXCEPT !.runner_start_started = TRUE])
    BY <1>4 DEF apply_action, record_runner_start_started
  <2> QED BY <1>4, <2>1 DEF Published, Attempts
<1>5. CASE n = "BeginCleanup"
  <2>1. b = a \/ (a.phase \in Owned /\ b \in MoveTo(a, "Destroying"))
    BY <1>5 DEF apply_action, begin_cleanup
  <2>2. Moved /\ Kept
    BY <1>0, <1>p, <1>5, <2>1 DEF MoveTo, Arrow, Kept
  <2> QED BY <2>2 DEF Kept
<1>6. CASE n \in {"RecordRegistration", "RecordRunnerReady"}
  <2>1. action.runner.id \in Option(RunnerIds)
    BY <1>6 DEF Actions, RunnerReferences, Option
  <2>2. \/ b = a
        \/ b \in advance_with(a, a.phase, action.runner.id, a.github_job_id, a.result)
        \/ /\ n = "RecordRunnerReady" /\ a.phase = "Registering"
           /\ b \in advance_with(a, "Waiting", action.runner.id, None, None)
        \/ b \in advance_with(a, a.phase, action.runner.id, a.github_job_id, None)
    BY <1>6 DEF apply_action, record_registration, record_runner_ready
  <2>3. Moved /\ Kept
    BY <1>0, <1>p, <2>1, <2>2 DEF Arrow, Kept
  <2> QED BY <2>3 DEF Kept
<1>7. CASE n = "RecordAssigned"
  <2>1. action.job \in Option(JobIds)
    BY <1>7 DEF Actions, Option
  <2>2. \/ b = a
        \/ /\ a.phase \in {"Registering", "Waiting"}
           /\ b \in advance_with(a, "Assigned", a.runner_id, action.job, None)
    BY <1>7 DEF apply_action, record_assigned
  <2>3. Moved /\ Kept
    BY <1>0, <1>p, <1>7, <2>1, <2>2 DEF Arrow, Kept
  <2> QED BY <2>3 DEF Kept
<1>8. CASE n = "RecordRunning"
  <2>1. action.runner.id \in Option(RunnerIds) /\ action.job \in Option(JobIds)
    BY <1>8 DEF Actions, RunnerReferences, Option
  <2>2. \/ b = a \/ b \in advance_with(a, a.phase, action.runner.id, action.job, None)
        \/ /\ a.phase \in {"Registering", "Waiting", "Assigned"}
           /\ b \in advance_with(a, "Running", action.runner.id, action.job, None)
    BY <1>8 DEF apply_action, record_running
  <2>3. Moved /\ Kept
    BY <1>0, <1>p, <1>8, <2>1, <2>2 DEF Arrow, Kept
  <2> QED BY <2>3 DEF Kept
<1>9. CASE n = "RecordTerminal"
  <2> DEFINE observed == IF action.runner = None THEN None ELSE action.runner.id
             bound == IF a.runner_id # None THEN a.runner_id ELSE observed
  <2>1. /\ bound \in Option(RunnerIds) /\ action.job \in Option(JobIds)
        /\ action.result \in Option(Results)
    BY <1>9 DEF Actions, RunnerReferences, Option
  <2>2. \/ b = a \/ b \in advance_with(a, a.phase, bound, action.job, action.result)
        \/ a.phase \in Owned /\ b \in advance_with(a, "Terminal", bound, action.job, action.result)
    BY <1>9 DEF apply_action, record_terminal
  <2> HIDE DEF bound
  <2>3. Moved /\ Kept
    BY <1>0, <1>p, <1>9, <2>1, <2>2 DEF Arrow, Kept
  <2> QED BY <2>3 DEF Kept
<1>10. CASE n = "AdvanceCleanup"
  <2>1. \/ b = a
        \/ <<a.phase, action.phase>> \in CleanupMoves /\ b \in MoveTo(a, action.phase)
    BY <1>10 DEF apply_action, advance_cleanup, CleanupMoves
  <2>2. action.phase \in Phases
    BY <1>10 DEF Actions, Phases
  <2>3. Moved /\ Kept
    BY <1>0, <1>10, <2>1, <2>2 DEF MoveTo, Arrow, Kept
  <2> QED BY <2>3 DEF Kept
<1> QED
  BY <1>1, <1>2, <1>3, <1>4, <1>5, <1>6, <1>7, <1>8, <1>9, <1>10 DEF Actions

\* Only the last cleanup step completes an attempt that may own a VM, and an
\* unprovisioned release is not taken back.
LEMMA ReleaseStays ==
  ASSUME NEW a \in ValidAttempts, NEW action \in Actions, NEW b \in apply_action(a, action)
  PROVE  /\ Step(a, b) /\ Held(a) /\ action.name # "AdvanceCleanup" => Held(b)
         /\ a.phase = "UnprovisionedReleasing" =>
              b.phase \in {"UnprovisionedReleasing", "Complete"}
<1>1. b.phase = a.phase \/ Arrow(action.name, a.phase, b.phase)
  BY ActionArrow
<1> QED
  BY <1>1, HeldStays DEF Arrow, Held, Owned, Cleanup, PreClone, CleanupMoves

\* A started runner's attempt begins to end only with a completion or a cleanup.
LEMMA EndingBegins ==
  ASSUME NEW a \in ValidAttempts, NEW action \in Actions, NEW b \in apply_action(a, action),
         Ending(b)
  PROVE  /\ a.runner_start_started
         /\ Ending(a) \/ action.name \in {"BeginCleanup", "RecordTerminal"}
<1>1. /\ b.phase = a.phase \/ Arrow(action.name, a.phase, b.phase)
      /\ \/ b.runner_start_started = a.runner_start_started
         \/ action.name = "RecordRunnerStartStarted" /\ b.phase = a.phase
  BY ActionArrow
<1>2. action.name = "RecordRunnerStartStarted" => a.phase \in {"Registering", "Assigned"}
  BY DEF apply_action, record_runner_start_started
<1>3. b.runner_start_started = a.runner_start_started
  BY <1>1, <1>2 DEF Ending, Cleanup
<1> QED
  BY <1>1, <1>3 DEF Ending, Cleanup, Arrow, CleanupMoves

-----------------------------------------------------------------------------
(***************************************************************************)
(* Every operation makes a document that the successor tests accept.       *)
(***************************************************************************)
\* What one operation may make of a catalog.
CatalogKinds(d, c) ==
  \/ /\ d \in Catalogs /\ validate_catalog(d) /\ d.revision = c.revision + 1
     /\ Len(d.active) = Len(c.active) + 1 /\ d \in reserve(c, Last(d.active))
  \/ \E i \in DOMAIN c.active :
       /\ Replaced(d, c, i, d.active[i])
       /\ d.active[i] # c.active[i]
       /\ \/ is_exact_successor_of(d.active[i], c.active[i])
          \/ \E v \in VmIdentities : d.active[i] \in bind_vm_identity_after_clone(c.active[i], v)
  \/ IsRetirement(d, c)

\* A reservation.
LEMMA ReservationKinds ==
  ASSUME NEW c \in Catalogs, NEW id \in AttemptIds, NEW t \in Times,
         NEW d \in reserve(c, reserved(id, t)), d # c
  PROVE  CatalogKinds(d, c)
<1>0. /\ c.active \in Seq(ValidAttempts) /\ Len(c.active) \in Nat
      /\ \A i \in DOMAIN c.active : c.active[i] \in ValidAttempts
  BY LenProperties, ElementOfSeq DEF Catalogs
<1> DEFINE a == reserved(id, t)
           next == [c EXCEPT !.active = Append(@, a)]
<1>2. a \in ValidAttempts
  BY ReservedIsValid
<1> HIDE DEF a
<1>3. d \in PublishedCatalog(c, next)
  BY <1>0 DEF reserve, a
<1>4. /\ Append(c.active, a) \in Seq(ValidAttempts)
      /\ Len(Append(c.active, a)) = Len(c.active) + 1
      /\ Append(c.active, a)[Len(c.active) + 1] = a
  BY <1>0, <1>2, AppendProperties
<1>5. next \in Catalogs /\ next.active = Append(c.active, a)
  BY <1>0, <1>4 DEF Catalogs
<1> HIDE DEF next
<1>6. /\ d \in Catalogs /\ validate_catalog(d) /\ d.revision = c.revision + 1
      /\ d.active = Append(c.active, a)
  BY <1>0, <1>3, <1>5, PublishedIsCatalog
<1>7. Last(d.active) = a
  BY <1>4, <1>6 DEF Last
<1>8. d \in reserve(c, a)
  BY DEF a
<1> QED
  BY <1>4, <1>6, <1>7, <1>8 DEF CatalogKinds

\* One transition of an attempt.
LEMMA TransitionKinds ==
  ASSUME NEW c \in Catalogs, NEW id, NEW expected, NEW action \in Actions,
         NEW d \in replace_attempt(c, id, expected, action), d # c
  PROVE  CatalogKinds(d, c)
<1>0. /\ c.active \in Seq(ValidAttempts) /\ Len(c.active) \in Nat
      /\ \A i \in DOMAIN c.active : c.active[i] \in ValidAttempts
  BY LenProperties, ElementOfSeq DEF Catalogs
<1>1. PICK i \in Positions(c, id, expected) :
        d \in UNION {IF b = c.active[i] THEN {c}
                     ELSE PublishedCatalog(c, [c EXCEPT !.active[i] = b]) :
                       b \in apply_action(c.active[i], action)}
  BY Zenon DEF replace_attempt
<1>2. i \in DOMAIN c.active /\ \E b \in apply_action(c.active[i], action) :
        d \in (IF b = c.active[i] THEN {c} ELSE PublishedCatalog(c, [c EXCEPT !.active[i] = b]))
  BY <1>1 DEF Positions
<1>3. PICK b \in apply_action(c.active[i], action) :
        b # c.active[i] /\ d \in PublishedCatalog(c, [c EXCEPT !.active[i] = b])
  BY <1>0, <1>2
<1>4. b \in ValidAttempts /\ is_exact_successor_of(b, c.active[i])
  BY <1>0, <1>2, <1>3, ActionIsSuccessor
<1>5. Replaced(d, c, i, b)
  BY <1>0, <1>2, <1>3, <1>4, ReplacementIsReplaced
<1>6. d.active[i] = b
  BY <1>5 DEF Replaced
<1> QED
  BY <1>2, <1>3, <1>4, <1>5, <1>6 DEF CatalogKinds

\* The binding of a VM.
LEMMA BindingKinds ==
  ASSUME NEW c \in Catalogs, NEW id, NEW expected, NEW v \in VmIdentities,
         NEW d \in catalog_bind_vm_identity_after_clone(c, id, expected, v)
  PROVE  CatalogKinds(d, c)
<1>0. /\ c.active \in Seq(ValidAttempts) /\ Len(c.active) \in Nat
      /\ \A i \in DOMAIN c.active : c.active[i] \in ValidAttempts
  BY LenProperties, ElementOfSeq DEF Catalogs
<1>1. PICK i \in DOMAIN c.active :
        d \in UNION {PublishedCatalog(c, [c EXCEPT !.active[i] = b]) :
                       b \in bind_vm_identity_after_clone(c.active[i], v)}
  BY DEF catalog_bind_vm_identity_after_clone, Positions
<1>2. PICK b \in bind_vm_identity_after_clone(c.active[i], v) :
        d \in PublishedCatalog(c, [c EXCEPT !.active[i] = b])
  BY <1>1
<1>3. b \in ValidAttempts
  BY <1>0, CheckpointSteps DEF Step
<1>4. Replaced(d, c, i, b)
  BY <1>0, <1>2, <1>3, ReplacementIsReplaced
<1>5. d.active[i] = b
  BY <1>4 DEF Replaced
<1>6. b # c.active[i]
  <2>1. /\ c.active[i].vm_identity = None
        /\ b \in Published(c.active[i], [c.active[i] EXCEPT !.vm_identity = v])
    BY <1>2 DEF bind_vm_identity_after_clone
  <2>2. c.active[i] \in Attempts
    BY <1>0 DEF ValidAttempts
  <2>3. b.vm_identity = v
    BY <2>1, <2>2 DEF Published, Attempts
  <2> QED
    BY <2>1, <2>3, NoneAssumption
<1> QED
  BY <1>4, <1>5, <1>6 DEF CatalogKinds

\* The VM identities of a catalog that an ordinary writer leaves alone.
Unbound(d, c) ==
  \E i \in DOMAIN c.active :
    /\ c.active[i].vm_identity = None
    /\ Len(d.active) = Len(c.active)
    /\ d.active[i].vm_identity # None

\* Both successor tests on one operation's document.
LEMMA TestsAreExact ==
  ASSUME NEW c \in Catalogs, NEW d, validate_catalog(c), CatalogKinds(d, c)
  PROVE  /\ validate_recovery_successor_of(d, c)
         /\ validate_successor_of(d, c) <=> ~ Unbound(d, c)
<1>0. /\ Len(c.active) \in Nat /\ DOMAIN c.active = 1 .. Len(c.active)
      /\ \A i \in DOMAIN c.active : c.active[i] \in ValidAttempts
  BY LenProperties, ElementOfSeq DEF Catalogs
<1>1. CASE /\ d \in Catalogs /\ validate_catalog(d) /\ d.revision = c.revision + 1
           /\ Len(d.active) = Len(c.active) + 1 /\ d \in reserve(c, Last(d.active))
  <2>1. validate_successor_of(d, c)
    BY <1>1 DEF validate_successor_of
  <2>2. ~ Unbound(d, c)
    BY <1>0, <1>1 DEF Unbound
  <2> QED
    BY <2>1, <2>2 DEF validate_recovery_successor_of
<1>2. CASE IsRetirement(d, c)
  <2>1. /\ d \in Catalogs /\ validate_catalog(d) /\ d.revision = c.revision + 1
        /\ Len(d.active) + 1 = Len(c.active) /\ Len(d.active) \in Nat
    BY <1>2, RetirementShortens, LenProperties DEF IsRetirement, Catalogs
  <2>2. validate_successor_of(d, c)
    BY <1>2, <2>1 DEF validate_successor_of
  <2>3. ~ Unbound(d, c)
    BY <1>0, <2>1 DEF Unbound
  <2> QED
    BY <2>2, <2>3 DEF validate_recovery_successor_of
<1>3. ASSUME NEW i \in DOMAIN c.active,
             Replaced(d, c, i, d.active[i]), d.active[i] # c.active[i],
             \/ is_exact_successor_of(d.active[i], c.active[i])
             \/ \E v \in VmIdentities :
                  d.active[i] \in bind_vm_identity_after_clone(c.active[i], v)
      PROVE  /\ validate_recovery_successor_of(d, c)
             /\ validate_successor_of(d, c) <=> ~ Unbound(d, c)
  <2>1. /\ validate_catalog(d) /\ d.revision = c.revision + 1 /\ d.tombstones = c.tombstones
        /\ Len(d.active) = Len(c.active)
        /\ \A k \in DOMAIN c.active : k # i => d.active[k] = c.active[k]
    BY <1>3 DEF Replaced
  <2>2. ChangedPositions(d, c) = {i}
    BY <1>3, <2>1 DEF ChangedPositions
  <2>3. CASE is_exact_successor_of(d.active[i], c.active[i])
    <3>1. validate_successor_of(d, c)
      BY <2>1, <2>2, <2>3 DEF validate_successor_of
    <3>2. d.active[i].vm_identity = c.active[i].vm_identity
      BY <1>0, <2>3, SuccessorAdvances
    <3>3. ~ Unbound(d, c)
      BY <2>1, <3>2 DEF Unbound
    <3> QED
      BY <3>1, <3>3 DEF validate_recovery_successor_of
  <2>4. CASE ~ is_exact_successor_of(d.active[i], c.active[i])
    <3>1. PICK v \in VmIdentities :
            d.active[i] \in bind_vm_identity_after_clone(c.active[i], v)
      BY <1>3, <2>4
    <3> DEFINE a == c.active[i]
               b == d.active[i]
    <3>2. /\ a.phase = "CloneStarted" /\ a.revision = 3 /\ a.vm_identity = None
          /\ b.phase = "CloneStarted" /\ b.revision = 4 /\ b.vm_identity # None
          /\ b.id = a.id /\ b.runner_id = a.runner_id /\ b.github_job_id = a.github_job_id
          /\ b.result = a.result /\ b.not_after = a.not_after
      BY <1>0, <3>1, BindingShape
    <3>3. validate_recovery_successor_of(d, c)
      <4>1. \A f \in {"id", "runner_id", "github_job_id", "result", "not_after"} : b[f] = a[f]
        BY <3>2
      <4> QED
        BY <2>1, <2>2, <3>2, <4>1 DEF validate_recovery_successor_of
    <3>4. Unbound(d, c)
      BY <2>1, <3>2 DEF Unbound
    <3>5. ~ validate_successor_of(d, c)
      <4>1. ~ IsRetirement(d, c)
        BY <1>0, <2>1, RetirementShortens DEF IsRetirement
      <4>2. Len(d.active) # Len(c.active) + 1
        BY <1>0, <2>1
      <4>3. ~ \E k \in DOMAIN c.active :
                 ChangedPositions(d, c) = {k} /\ is_exact_successor_of(d.active[k], c.active[k])
        <5>1. ASSUME NEW k, ChangedPositions(d, c) = {k} PROVE k = i
          BY <2>2, <5>1
        <5> QED
          BY <2>4, <5>1
      <4> QED
        BY <4>1, <4>2, <4>3, Zenon DEF validate_successor_of
    <3> QED
      BY <3>3, <3>4, <3>5
  <2> QED
    BY <2>3, <2>4
<1> QED
  BY <1>1, <1>2, <1>3 DEF CatalogKinds

=============================================================================
