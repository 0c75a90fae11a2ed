--------------------- MODULE DisposableWorkerPlansProofs ---------------------
(***************************************************************************)
(* What DisposableAttemptLifecycle promises for every set of identities,   *)
(* jobs, results and deadlines, and on top of it the planner's promises    *)
(* for every document an attempt can reach and every observation.  The     *)
(* inductive invariant is the lifecycle's; the planner adds no state.      *)
(***************************************************************************)
EXTENDS DisposableWorkerPlans, DisposableAttemptLifecycle, DisposableAttemptLemmas

\* The cleanup phases behind a document that has left them.
PassedCleanup ==
  /\ attempt.phase \in {"Deregistering", "Releasing"} => "Destroying" \in history
  /\ attempt.phase = "Releasing" => "Deregistering" \in history
  /\ attempt.phase = "Complete" /\ "CloneStarted" \in history => Cleanup \subseteq history

\* The inductive invariant of the lifecycle.
IInv ==
  /\ TypeOK
  /\ Budget(attempt)
  /\ HistoryFromRevision
  /\ attempt.phase \in history
  /\ PassedCleanup

\* Every step of the specification is an accepted call.
LEMMA NextIsStep ==
  ASSUME TypeOK, Next
  PROVE  Step(attempt, attempt') /\ history' = history \cup {attempt'.phase}
<1>0. attempt \in ValidAttempts
  BY DEF TypeOK, ValidAttempts
<1> USE DEF Becomes
<1>1. CASE \/ AuthorizeClone \/ RecordCloneStarted \/ BeginUnprovisionedRelease
           \/ CompleteUnprovisioned \/ BeginRegistration
  BY <1>0, <1>1, ProvisioningSteps DEF AuthorizeClone, RecordCloneStarted,
     BeginUnprovisionedRelease, CompleteUnprovisioned, BeginRegistration
<1>2. CASE BindVmIdentity
  BY <1>0, <1>2, CheckpointSteps DEF BindVmIdentity
<1>3. CASE RecordJitGenerationStarted \/ RecordRunnerStartStarted
  <2>1. PICK b \in record_jit_generation_started(attempt)
                   \cup record_runner_start_started(attempt) :
          attempt' = b /\ history' = history \cup {b.phase}
    BY <1>3 DEF RecordJitGenerationStarted, RecordRunnerStartStarted
  <2>2. attempt.vm_identity \in VmIdentities
    <3>1. attempt.phase \in {"Registering", "Assigned"}
      BY <2>1 DEF record_jit_generation_started, record_runner_start_started
    <3>2. attempt.vm_identity # None
      BY <1>0, <3>1, RegisteringShapes, AssignedShapes
    <3> QED
      BY <1>0, <3>2 DEF ValidAttempts, Attempts, Option
  <2> QED
    BY <1>0, <2>1, <2>2, CheckpointSteps
<1>4. CASE RecordRegistration \/ RecordRunnerReady
  BY <1>0, <1>4, RunnerSteps DEF RecordRegistration, RecordRunnerReady
<1>5. CASE RecordAssigned
  BY <1>0, <1>5, AssignedStep DEF RecordAssigned
<1>6. CASE RecordRunning
  BY <1>0, <1>6, RunningStep DEF RecordRunning
<1>7. CASE RecordTerminal
  BY <1>0, <1>7, TerminalStep DEF RecordTerminal
<1>8. CASE BeginCleanup
  <2>1. attempt.phase \in Phases
    BY <1>0, EvidenceTypes
  <2> QED
    BY <1>0, <1>8, <2>1, CleanupSteps DEF BeginCleanup
<1>9. CASE AdvanceCleanup
  BY <1>0, <1>9, CleanupSteps DEF AdvanceCleanup
<1> QED
  BY <1>1, <1>2, <1>3, <1>4, <1>5, <1>6, <1>7, <1>8, <1>9 DEF Next

\* A fresh reservation satisfies the invariant.
LEMMA InitInv == Init => IInv
<1> SUFFICES ASSUME Init PROVE IInv
  OBVIOUS
<1>1. PICK id \in AttemptIds, t \in Times : attempt = reserved(id, t)
  BY DEF Init
<1>2. attempt \in Attempts
  BY <1>1, RevisionBoundAssumption DEF reserved, Attempts, Option, Phases, PreClone
<1>3. validate(attempt)
  BY <1>1 DEF reserved, validate, EvidenceOrdered, PhaseShape, NoEvidence
<1>4. attempt.phase = "Reserved" /\ history = {"Reserved"}
  BY <1>1 DEF reserved, Init
<1> QED
  BY <1>2, <1>3, <1>4 DEF IInv, TypeOK, Budget, HistoryFromRevision, PassedCleanup,
     has_clone_started_history, Phases, PreClone, Owned

\* The invariant is inductive.
LEMMA NextInv == IInv /\ [Next]_vars => IInv'
<1> SUFFICES ASSUME IInv, [Next]_vars PROVE IInv'
  OBVIOUS
<1>1. CASE UNCHANGED vars
  BY <1>1 DEF vars, IInv, TypeOK, HistoryFromRevision, PassedCleanup
<1>2. CASE Next
  <2>1. Step(attempt, attempt') /\ history' = history \cup {attempt'.phase}
    BY <1>2, NextIsStep DEF IInv
  <2>2. attempt' \in ValidAttempts /\ Moves(attempt, attempt') /\ Budget(attempt')
    BY <2>1 DEF Step, IInv
  <2>3. attempt \in ValidAttempts
    BY DEF IInv, TypeOK, ValidAttempts
  <2>4. attempt'.phase \in Phases /\ attempt'.phase \in history'
    BY <2>1, <2>2, EvidenceTypes
  <2>5. TypeOK'
    BY <2>1, <2>2, <2>4 DEF TypeOK, ValidAttempts, IInv
  <2>6. HistoryFromRevision'
    <3>1. /\ has_clone_started_history(attempt) <=>
               \/ attempt.phase \in Owned \cup Cleanup
               \/ attempt.phase = "Complete" /\ attempt.revision >= 8
          /\ has_clone_started_history(attempt') <=>
               \/ attempt'.phase \in Owned \cup Cleanup
               \/ attempt'.phase = "Complete" /\ attempt'.revision >= 8
      BY <2>2, <2>3, HistoryShape
    <3>2. has_clone_started_history(attempt) <=> "CloneStarted" \in history
      BY DEF IInv, HistoryFromRevision
    <3>3. attempt.revision \in Nat /\ attempt'.revision \in Nat
      BY <2>2, <2>3, EvidenceTypes
    <3>4. attempt.phase = "Complete" /\ attempt'.phase = "Complete" /\ attempt.revision >= 8
            => attempt'.revision >= 8
      BY <2>1, <2>2, <2>3, CompleteShape DEF Step, Keeps
    <3>5. attempt.phase = "Releasing" /\ attempt'.phase = "Complete" => attempt'.revision >= 8
      <4>1. attempt.phase = "Releasing" => attempt.vm_identity # None
        BY <2>3 DEF ValidAttempts, validate, PhaseShape
      <4> QED
        BY <2>1, <2>2, <4>1, CompleteShape DEF Step, Keeps
    <3> QED
      BY <2>1, <2>2, <3>1, <3>2, <3>3, <3>4, <3>5
         DEF Moves, CleanupMoves, HistoryFromRevision, PreClone, Owned, Cleanup
  <2>7. PassedCleanup'
    <3>1. attempt.phase \in PreClone => "CloneStarted" \notin history
      BY DEF IInv, HistoryFromRevision, has_clone_started_history, PreClone, Owned
    <3>2. CASE attempt'.phase = attempt.phase
      BY <2>1, <3>2 DEF IInv, PassedCleanup
    <3>3. CASE attempt.phase \in PreClone /\ attempt'.phase \in PreClone \cup {"CloneStarted", "Complete"}
      BY <2>1, <3>1, <3>3 DEF PassedCleanup, PreClone
    <3>4. CASE attempt.phase \in Owned /\ attempt'.phase \in (Owned \ {"CloneStarted"}) \cup {"Destroying"}
      BY <3>4 DEF PassedCleanup, Owned
    <3>5. CASE <<attempt.phase, attempt'.phase>> \in CleanupMoves
      BY <2>1, <3>5 DEF IInv, PassedCleanup, CleanupMoves, Cleanup
    <3> QED
      BY <2>2, <3>2, <3>3, <3>4, <3>5 DEF Moves
  <2> QED
    BY <2>2, <2>4, <2>5, <2>6, <2>7 DEF IInv
<1> QED
  BY <1>1, <1>2

\* The inductive invariant holds throughout, for every set of inputs.
THEOREM Invariance == Spec => []IInv
BY InitInv, NextInv, PTL DEF Spec

\* Type correctness: every reachable document passes validate and decodes.
THEOREM TypeCorrect == Spec => []TypeOK
<1>1. IInv => TypeOK
  BY DEF IInv
<1> QED
  BY <1>1, Invariance, PTL

\* has_clone_started_history never misjudges the past of a document.
THEOREM HistoryIsRight == Spec => []HistoryFromRevision
<1>1. IInv => HistoryFromRevision
  BY DEF IInv
<1> QED
  BY <1>1, Invariance, PTL

\* A cloned attempt completes only after all three cleanup phases.
THEOREM NoCompletionWithoutTeardown == Spec => []TeardownBeforeComplete
<1>1. IInv => TeardownBeforeComplete
  BY DEF IInv, PassedCleanup, TeardownBeforeComplete
<1> QED
  BY <1>1, Invariance, PTL

\* No call sequence exhausts the revision space.
THEOREM RevisionsAreBounded == Spec => []RevisionIsBounded
<1>1. IInv => RevisionIsBounded
  <2> SUFFICES ASSUME IInv PROVE attempt.revision <= 16
    BY DEF RevisionIsBounded
  <2>1. attempt \in ValidAttempts
    BY DEF IInv, TypeOK, ValidAttempts
  <2>2. attempt.revision \in Nat /\ Spare(attempt) \in Nat /\ attempt.phase \in Phases
    BY <2>1, EvidenceTypes DEF Spare
  <2>3. CASE attempt.phase \in PreClone
    BY <2>1, <2>3, PreCloneShape
  <2>4. CASE attempt.phase \in Owned \ {"Terminal"}
    BY <2>1, <2>4, CloneStartedShape, RegisteringShapes, WaitingShapes, AssignedShapes,
       RunningShapes DEF Owned
  <2>5. CASE attempt.phase \in {"Terminal"} \cup Cleanup
    BY <2>2, <2>5 DEF IInv, Budget, Cleanup
  <2>6. CASE attempt.phase = "Complete"
    BY <2>1, <2>2, <2>6, CompleteShape DEF IInv, Budget
  <2> QED
    BY <2>2, <2>3, <2>4, <2>5, <2>6 DEF Phases
<1> QED
  BY <1>1, Invariance, PTL

\* Evidence and checkpoints are written once.
THEOREM EvidenceNeverChanges == Spec => EvidenceIsPermanent
<1>1. IInv /\ [Next]_vars => [Keeps(attempt, attempt')]_vars
  BY NextIsStep DEF IInv, Step
<1> QED
  BY <1>1, Invariance, PTL DEF Spec, EvidenceIsPermanent, Keeps

\* Cleanup is never left backwards.
THEOREM CleanupNeverReopens == Spec => CleanupIsOneWay
<1>1. IInv /\ [Next]_vars =>
        [attempt.phase \in Cleanup \cup {"Complete"} /\ attempt'.phase # attempt.phase =>
           <<attempt.phase, attempt'.phase>> \in
             {<<"Destroying", "Deregistering">>, <<"Deregistering", "Releasing">>,
              <<"Releasing", "Complete">>}]_vars
  <2>1. ASSUME IInv, Next, attempt.phase \in Cleanup \cup {"Complete"},
               attempt'.phase # attempt.phase
        PROVE  <<attempt.phase, attempt'.phase>> \in CleanupMoves
    BY <2>1, NextIsStep DEF IInv, Step, Moves, PreClone, Owned, Cleanup
  <2> QED
    BY <2>1 DEF CleanupMoves
<1> QED
  BY <1>1, Invariance, PTL DEF Spec, CleanupIsOneWay

\* No owned VM is stranded by the validation of its own document.
THEOREM CleanupIsAlwaysOpen == Spec => []CleanupNeverRefused
<1>1. IInv => CleanupNeverRefused
  <2> SUFFICES ASSUME IInv, attempt.vm_identity # None, attempt.phase # "Complete"
               PROVE  \E b \in begin_cleanup(attempt)
                               \cup UNION {advance_cleanup(attempt, p) : p \in Phases} :
                        b.phase # attempt.phase
    BY DEF CleanupNeverRefused
  <2>1. attempt \in ValidAttempts
    BY DEF IInv, TypeOK, ValidAttempts
  <2>2. attempt.revision \in Nat /\ Spare(attempt) \in Nat /\ attempt.phase \in Phases
    BY <2>1, EvidenceTypes DEF Spare
  <2>3. attempt.phase \notin PreClone
    BY <2>1, PreCloneShape DEF NoEvidence
  <2>4. CASE attempt.phase \in Owned
    <3>1. attempt.revision >= 4 /\ attempt.revision <= 12
      <4>1. CASE attempt.phase = "Terminal"
        <5>1. 5 <= attempt.revision /\ attempt.revision <= 12
          BY <2>1, <4>1 DEF ValidAttempts, validate, PhaseShape
        <5> QED
          BY <2>2, <5>1
      <4>2. CASE attempt.phase # "Terminal"
        <5>1. \/ attempt.revision = 4 \/ attempt.revision = 5 \/ attempt.revision = 6
              \/ attempt.revision = 7 \/ attempt.revision = 8 \/ attempt.revision = 9
              \/ attempt.revision = 10 \/ attempt.revision = 11
          BY <2>1, <2>4, <4>2, CloneStartedShape, RegisteringShapes, WaitingShapes,
             AssignedShapes, RunningShapes DEF Owned
        <5> QED
          BY <5>1
      <4> QED
        BY <4>1, <4>2
    <3>2. \E b \in MoveTo(attempt, "Destroying") : b.phase = "Destroying"
      BY <2>1, <2>2, <3>1, CleanupMoveAccepted, RevisionBoundAssumption DEF Cleanup
    <3>3. begin_cleanup(attempt) = MoveTo(attempt, "Destroying")
      BY <2>4 DEF begin_cleanup, PreClone, Owned
    <3> QED
      BY <2>4, <3>2, <3>3 DEF Owned
  <2>5. ASSUME NEW p \in Phases, <<attempt.phase, p>> \in CleanupMoves
        PROVE  \E b \in advance_cleanup(attempt, p) : b.phase # attempt.phase
    <3>1. \/ attempt.phase = "Destroying" /\ p = "Deregistering" /\ attempt.revision >= 5
          \/ attempt.phase = "Deregistering" /\ p = "Releasing" /\ attempt.revision >= 6
          \/ attempt.phase = "Releasing" /\ p = "Complete" /\ attempt.revision >= 7
      BY <2>1, <2>5 DEF CleanupMoves, ValidAttempts, validate, PhaseShape
    <3>2. attempt.revision < MaxAttemptRevision
      BY <2>2, <3>1, RevisionBoundAssumption DEF IInv, Budget
    <3>3. \E b \in MoveTo(attempt, p) : b.phase = p
      BY <2>1, <2>2, <3>1, <3>2, CleanupMoveAccepted DEF Cleanup
    <3>4. p # attempt.phase /\ advance_cleanup(attempt, p) = MoveTo(attempt, p)
      BY <2>5, <3>1 DEF advance_cleanup, CleanupMoves
    <3> QED
      BY <3>3, <3>4
  <2>6. CASE attempt.phase \in Cleanup
    <3>1. \E p \in Phases : <<attempt.phase, p>> \in CleanupMoves
      BY <2>6 DEF Cleanup, CleanupMoves, Phases
    <3> QED
      BY <2>5, <3>1
  <2> QED
    BY <2>2, <2>3, <2>4, <2>6 DEF Phases
<1> QED
  BY <1>1, Invariance, PTL

\* An attempt whose clone started and whose VM is not bound is recovery debt:
\* every other transition refuses it, by its guard or by validation.
THEOREM UnboundCloneStaysDebt == Spec => []UnboundCloneIsDebt
<1>1. IInv => UnboundCloneIsDebt
  <2> SUFFICES ASSUME IInv, attempt.phase = "CloneStarted", attempt.vm_identity = None
               PROVE  UnboundCloneIsDebt
    BY DEF UnboundCloneIsDebt
  <2> DEFINE a == attempt
  <2>1. a \in ValidAttempts
    BY DEF IInv, TypeOK, ValidAttempts
  <2>2. /\ a \in Attempts /\ a.runner_id \in Option(RunnerIds)
        /\ a.github_job_id \in Option(JobIds) /\ a.result \in Option(Results)
    BY <2>1, EvidenceTypes
  <2>3. /\ a.runner_id = None /\ a.github_job_id = None /\ a.result = None
        /\ ~ a.runner_start_started
    BY <2>1, CloneStartedShape
  <2>4. ASSUME NEW p \in {"Registering", "Terminal", "Destroying"},
               NEW r \in Option(RunnerIds), NEW j \in Option(JobIds), NEW x \in Option(Results)
        PROVE  advance_with(a, p, r, j, x) = {}
    <3>1. p \in Phases
      BY DEF Phases, Owned, Cleanup
    <3>2. ASSUME NEW b \in advance_with(a, p, r, j, x) PROVE FALSE
      <4>1. b \in ValidAttempts /\ b.phase = p /\ b.vm_identity = a.vm_identity
        BY <2>2, <3>1, AdvanceWith
      <4> QED BY <4>1, UnboundIsEarly
    <3> QED BY <3>2
  <2>5. authorize_clone(a) \cup record_clone_started(a) = {}
    BY DEF authorize_clone, record_clone_started, advance_phase
  <2>6. begin_registration(a) \cup begin_cleanup(a) = {}
    BY <2>2, <2>4 DEF begin_registration, begin_cleanup, advance_phase, MoveTo, PreClone, Owned
  <2>7. begin_unprovisioned_release(a) \cup complete_unprovisioned(a) = {}
    BY DEF begin_unprovisioned_release, complete_unprovisioned, PreClone
  <2>8. record_jit_generation_started(a) \cup record_runner_start_started(a) = {}
    BY DEF record_jit_generation_started, record_runner_start_started
  <2>9. \A p \in Phases \ {"CloneStarted"} : advance_cleanup(a, p) = {}
    BY DEF advance_cleanup
  <2>10. ASSUME NEW j \in JobIds PROVE record_assigned(a, j) = {}
    BY DEF record_assigned
  <2>11. ASSUME NEW r \in RunnerReferences, NEW j \in JobIds PROVE record_running(a, r, j) = {}
    BY <2>3 DEF record_running
  <2>12. ASSUME NEW r \in RunnerReferences \cup {None}, NEW j \in JobIds, NEW x \in Results
         PROVE  record_terminal(a, r, j, x) = {}
    <3>1. ~ (a.phase \in Cleanup \cup {"Complete"})
      BY DEF Cleanup
    <3>2. (IF a.runner_id # None THEN a.runner_id ELSE IF r = None THEN None ELSE r.id)
            \in Option(RunnerIds)
      BY <2>3 DEF RunnerReferences, Option
    <3>3. j \in Option(JobIds) /\ x \in Option(Results)
      BY DEF Option
    <3>4. advance_with(a, "Terminal",
                       IF a.runner_id # None THEN a.runner_id
                       ELSE IF r = None THEN None ELSE r.id, j, x) = {}
      BY <2>4, <3>2, <3>3
    <3> QED BY <2>3, <3>1, <3>4 DEF record_terminal
  <2> QED
    BY <2>5, <2>6, <2>7, <2>8, <2>9, <2>10, <2>11, <2>12 DEF UnboundCloneIsDebt
<1> QED BY <1>1, Invariance, PTL

\* The service delivers at least once: whatever evidence a document accepted
\* it accepts again, unchanged, so a redelivered event is never a conflict.
THEOREM RedeliveryNeverConflicts == Spec => RedeliveryIsIdempotent
<1>1. IInv => attempt \in ValidAttempts
  BY DEF IInv, TypeOK, ValidAttempts
<1> DEFINE Again ==
      /\ \A r \in RunnerReferences :
           /\ attempt' \in record_registration(attempt, r) =>
                record_registration(attempt', r) = {attempt'}
           /\ attempt' \in record_runner_ready(attempt, r) =>
                record_runner_ready(attempt', r) = {attempt'}
      /\ \A j \in JobIds :
           /\ attempt' \in record_assigned(attempt, j) =>
                record_assigned(attempt', j) = {attempt'}
           /\ \A r \in RunnerReferences :
                attempt' \in record_running(attempt, r, j) =>
                  record_running(attempt', r, j) = {attempt'}
           /\ \A r \in RunnerReferences \cup {None}, x \in Results :
                attempt' \in record_terminal(attempt, r, j, x) =>
                  record_terminal(attempt', r, j, x) = {attempt'}
<1>2. IInv /\ [Next]_vars => [Again]_vars
  BY <1>1, RegistrationAgain, ReadyAgain, AssignedAgain, RunningAgain, TerminalAgain
<1> QED BY <1>2, Invariance, PTL DEF Spec, RedeliveryIsIdempotent

\* The store's successor test takes its inputs from the candidate and re-runs
\* every public transition: it accepts each of them and refuses exactly the
\* binding of a VM identity, which is the clone transaction's to publish.
THEOREM SuccessorTestAcceptsCalls == Spec => SuccessorTestIsExact
<1>1. IInv /\ [Next]_vars =>
        [is_exact_successor_of(attempt', attempt) <=>
           attempt'.vm_identity = attempt.vm_identity]_attempt
  <2> SUFFICES ASSUME IInv, Next, attempt' # attempt
               PROVE  is_exact_successor_of(attempt', attempt) <=>
                        attempt'.vm_identity = attempt.vm_identity
    BY DEF vars
  <2> DEFINE a == attempt
             b == attempt'
             named == [name |-> b.id, id |-> b.runner_id]
  <2>1. a \in ValidAttempts
    BY DEF IInv, TypeOK, ValidAttempts
  <2>2. b # a
    OBVIOUS
  <2>3. is_exact_successor_of(b, a) => b.vm_identity = a.vm_identity
    BY <2>1, SuccessorAdvances
  <2>4. CASE BindVmIdentity
    <3>1. PICK v \in VmIdentities : b \in bind_vm_identity_after_clone(a, v)
      BY <2>4 DEF BindVmIdentity, Becomes
    <3>2. a.vm_identity = None /\ b \in Published(a, [a EXCEPT !.vm_identity = v])
      BY <3>1 DEF bind_vm_identity_after_clone
    <3>3. b.vm_identity = v
      BY <2>1, <3>2 DEF Published, ValidAttempts, Attempts
    <3> QED BY <2>3, <3>2, <3>3, NoneAssumption
  <2>5. CASE \/ AuthorizeClone \/ RecordCloneStarted \/ BeginUnprovisionedRelease
             \/ CompleteUnprovisioned \/ BeginRegistration \/ RecordJitGenerationStarted
             \/ RecordRunnerStartStarted \/ BeginCleanup
    <3>1. b \in authorize_clone(a) \cup record_clone_started(a)
                \cup begin_unprovisioned_release(a) \cup complete_unprovisioned(a)
                \cup begin_registration(a) \cup record_jit_generation_started(a)
                \cup record_runner_start_started(a) \cup begin_cleanup(a)
      BY <2>5 DEF Becomes, AuthorizeClone, RecordCloneStarted, BeginUnprovisionedRelease,
         CompleteUnprovisioned, BeginRegistration, RecordJitGenerationStarted,
         RecordRunnerStartStarted, BeginCleanup
    <3>2. is_exact_successor_of(b, a)
      BY <3>1 DEF is_exact_successor_of
    <3> QED BY <2>3, <3>2
  <2>6. CASE AdvanceCleanup
    <3>1. PICK p \in Phases : b \in advance_cleanup(a, p)
      BY <2>6 DEF AdvanceCleanup, Becomes
    <3>2. b \in MoveTo(a, p)
      BY <2>2, <3>1 DEF advance_cleanup
    <3>3. b.phase = p
      BY <2>1, <3>2, EvidenceTypes, AdvanceWith DEF MoveTo
    <3>4. is_exact_successor_of(b, a)
      BY <3>1, <3>3 DEF is_exact_successor_of
    <3> QED BY <2>3, <3>4
  <2>7. CASE RecordRegistration \/ RecordRunnerReady
    <3>1. PICK r \in RunnerReferences :
            b \in record_registration(a, r) \cup record_runner_ready(a, r)
      BY <2>7 DEF RecordRegistration, RecordRunnerReady, Becomes
    <3>2. b.runner_id # None /\ r = named
      BY <2>1, <2>2, <3>1, RegistrationIsNamed
    <3>3. is_exact_successor_of(b, a)
      BY <3>1, <3>2 DEF is_exact_successor_of
    <3> QED BY <2>3, <3>3
  <2>8. CASE RecordAssigned
    <3>1. PICK j \in JobIds : b \in record_assigned(a, j)
      BY <2>8 DEF RecordAssigned, Becomes
    <3>2. b.github_job_id = j /\ j # None
      BY <2>1, <2>2, <3>1, AssignedIsNamed
    <3>3. is_exact_successor_of(b, a)
      BY <3>1, <3>2 DEF is_exact_successor_of
    <3> QED BY <2>3, <3>3
  <2>9. CASE RecordRunning
    <3>1. PICK r \in RunnerReferences, j \in JobIds : b \in record_running(a, r, j)
      BY <2>9 DEF RecordRunning, Becomes
    <3>2. b.runner_id # None /\ r = named /\ b.github_job_id = j /\ j # None
      BY <2>1, <2>2, <3>1, RunningIsNamed
    <3>3. is_exact_successor_of(b, a)
      BY <3>1, <3>2 DEF is_exact_successor_of
    <3> QED BY <2>3, <3>3
  <2>10. CASE RecordTerminal
    <3>1. PICK r \in RunnerReferences \cup {None}, j \in JobIds, x \in Results :
            b \in record_terminal(a, r, j, x)
      BY <2>10 DEF RecordTerminal, Becomes
    <3>2. /\ b.github_job_id = j /\ j # None /\ b.result = x /\ x # None
          /\ r # None => b.runner_id # None /\ r = named
      BY <2>1, <2>2, <3>1, TerminalIsNamed
    <3>3. is_exact_successor_of(b, a)
      BY <3>1, <3>2 DEF is_exact_successor_of
    <3> QED BY <2>3, <3>3
  <2> QED
    BY <2>4, <2>5, <2>6, <2>7, <2>8, <2>9, <2>10 DEF Next
<1> QED BY <1>1, Invariance, PTL DEF Spec, SuccessorTestIsExact

-----------------------------------------------------------------------------
(***************************************************************************)
(* The planner.                                                            *)
(***************************************************************************)
\* The observations the planner has accepted before it plans by phase: no
\* conflict, no drift, and a VM bound if its clone has started.
Accepted(in) ==
  /\ in.vm # "Conflicting" /\ in.runner.kind # "Conflicting"
  /\ validate_vm_observation(attempt, in.vm, in.vm_identity)
  /\ validate_runner_observation(attempt, in.runner)
  /\ attempt.phase = "CloneStarted" => attempt.vm_identity # None

\* What an input is made of.
LEMMA InputShape ==
  ASSUME NEW in \in Inputs
  PROVE  /\ in.attempt = attempt
         /\ in.vm \in VmObservations
         /\ in.runner \in RunnerObservations
         /\ in.job_event \in JobEvents \cup {None}
BY DEF Inputs, InputsFor

\* A plan is a refusal to act, the record of a job event, the end of an
\* attempt that lost its capacity, or the plan of the attempt's phase.
LEMMA PlanOrigin ==
  ASSUME NEW in \in Inputs, NEW act \in reconcile_attempt(in)
  PROVE  \/ act.name = "Blocked"
         \/ /\ Accepted(in)
            /\ LET transition == plan_job_event(attempt, in.job_event) IN
               \/ /\ in.job_event \in JobEvents
                  /\ apply_action(attempt, transition) # {attempt}
                  /\ act \in PersistValid(attempt, transition)
               \/ /\ attempt.phase \in PreClone \cup Owned
                  /\ act \in PlanWithoutCapacity(attempt)
               \/ act \in PlanPhase(attempt, in)
BY InputShape DEF reconcile_attempt, Accepted, Blocked

-----------------------------------------------------------------------------
\* The plans that destroy, delete, clone, ask for a secret or give capacity
\* up, each with what the planner saw.
Guarded(in, act) ==
  /\ act.name = "DestroyVm" =>
       attempt.phase \in Cleanup /\ in.vm \in {"Stopped", "Ready"}
  /\ act.name = "DiscardIncompleteVm" =>
       attempt.phase = "CloneStarted" /\ in.vm = "Stopped"
  /\ act.name = "DeleteRunner" =>
       /\ attempt.runner_id # None /\ act.runner = in.runner.runner
       /\ in.runner.kind \notin {"Unknown", "Absent"}
  /\ act.name = "CheckpointAndCloneVm" => attempt.phase = "CloneAuthorized"
  /\ act.name = "CheckpointAndGenerateJit" => ~attempt.jit_generation_started
  /\ act.name = "ReleaseCapacity" =>
       \/ attempt.phase = "UnprovisionedReleasing"
       \/ in.vm \notin {"Unknown", "Stopped", "Ready"} /\ in.runner.kind = "Absent"
  /\ act.name = "Persist" =>
       /\ act.transition.name = "CompleteUnprovisioned" => attempt.phase \in PreClone
       /\ act.transition = [name |-> "AdvanceCleanup", phase |-> "Complete"] =>
            in.vm \notin {"Unknown", "Stopped", "Ready"} /\ in.runner.kind = "Absent"

\* All plans of a set are guarded.
AllGuarded(in, plans) == \A act \in plans : Guarded(in, act)

\* The planner's single actions are guarded, each under the observation it
\* needs.
LEMMA SinglePlans ==
  ASSUME NEW in
  PROVE  /\ \A t : AllGuarded(in, Observe(t))
         /\ \A c : AllGuarded(in, Blocked(c))
         /\ AllGuarded(in, Act("Wait")) /\ AllGuarded(in, Act("NoOp"))
         /\ attempt.phase = "CloneAuthorized" => AllGuarded(in, Act("CheckpointAndCloneVm"))
         /\ ~attempt.jit_generation_started => AllGuarded(in, Act("CheckpointAndGenerateJit"))
         /\ attempt.phase = "CloneStarted" /\ in.vm = "Stopped" =>
              AllGuarded(in, Act("DiscardIncompleteVm"))
         /\ attempt.phase \in Cleanup /\ in.vm \in {"Stopped", "Ready"} =>
              AllGuarded(in, Act("DestroyVm"))
         /\ \/ attempt.phase = "UnprovisionedReleasing"
            \/ in.vm \notin {"Unknown", "Stopped", "Ready"} /\ in.runner.kind = "Absent"
            => AllGuarded(in, Act("ReleaseCapacity"))
         /\ attempt.runner_id # None /\ in.runner.kind \notin {"Unknown", "Absent"} =>
              AllGuarded(in, DeleteRunner(in.runner.runner))
<1> USE DEF AllGuarded, Guarded
<1>1. \A t : AllGuarded(in, Observe(t))
  BY DEF Observe
<1>2. \A c : AllGuarded(in, Blocked(c))
  BY DEF Blocked
<1>3. attempt.runner_id # None /\ in.runner.kind \notin {"Unknown", "Absent"} =>
        AllGuarded(in, DeleteRunner(in.runner.runner))
  BY DEF DeleteRunner
<1>4. \A n : n \notin {"DestroyVm", "DiscardIncompleteVm", "DeleteRunner", "ReleaseCapacity",
                       "CheckpointAndCloneVm", "CheckpointAndGenerateJit", "Persist"} =>
        AllGuarded(in, Act(n))
  BY DEF Act
<1>5. AllGuarded(in, Act("Wait")) /\ AllGuarded(in, Act("NoOp"))
  BY <1>4
<1>6. attempt.phase = "CloneAuthorized" => AllGuarded(in, Act("CheckpointAndCloneVm"))
  BY DEF Act
<1>7. ~attempt.jit_generation_started => AllGuarded(in, Act("CheckpointAndGenerateJit"))
  BY DEF Act
<1>8. attempt.phase = "CloneStarted" /\ in.vm = "Stopped" =>
        AllGuarded(in, Act("DiscardIncompleteVm"))
  BY DEF Act
<1>9. attempt.phase \in Cleanup /\ in.vm \in {"Stopped", "Ready"} =>
        AllGuarded(in, Act("DestroyVm"))
  BY DEF Act
<1>10. \/ attempt.phase = "UnprovisionedReleasing"
       \/ in.vm \notin {"Unknown", "Stopped", "Ready"} /\ in.runner.kind = "Absent"
       => AllGuarded(in, Act("ReleaseCapacity"))
  BY DEF Act
<1> HIDE DEF AllGuarded, Guarded
<1> QED
  BY <1>1, <1>2, <1>3, <1>5, <1>6, <1>7, <1>8, <1>9, <1>10

\* So are the transitions it persists.
LEMMA PersistedPlans ==
  ASSUME NEW in
  PROVE  /\ \A n : n # "CompleteUnprovisioned" /\ n # "AdvanceCleanup" =>
              /\ AllGuarded(in, PersistPhase(n))
              /\ \A t : t.name = n => \A a : AllGuarded(in, PersistValid(a, t))
         /\ attempt.phase \in PreClone => AllGuarded(in, PersistPhase("CompleteUnprovisioned"))
         /\ AllGuarded(in, persist([name |-> "AdvanceCleanup", phase |-> "Deregistering"]))
         /\ AllGuarded(in, persist([name |-> "AdvanceCleanup", phase |-> "Releasing"]))
         /\ in.vm \notin {"Unknown", "Stopped", "Ready"} /\ in.runner.kind = "Absent" =>
              AllGuarded(in, persist([name |-> "AdvanceCleanup", phase |-> "Complete"]))
<1> DEFINE last == [name |-> "AdvanceCleanup", phase |-> "Complete"]
<1>1. ASSUME NEW t, t.name = "CompleteUnprovisioned" => attempt.phase \in PreClone,
             t = last => in.vm \notin {"Unknown", "Stopped", "Ready"} /\ in.runner.kind = "Absent"
      PROVE  AllGuarded(in, persist(t))
  BY <1>1 DEF AllGuarded, Guarded, persist
<1>2. last.name = "AdvanceCleanup" /\ last.phase = "Complete"
  OBVIOUS
<1>3. \A n : [name |-> n].name = n
  OBVIOUS
<1>4. \A p : [name |-> "AdvanceCleanup", phase |-> p].phase = p
             /\ [name |-> "AdvanceCleanup", phase |-> p].name = "AdvanceCleanup"
  OBVIOUS
<1>5. \A a, t : AllGuarded(in, persist(t)) => AllGuarded(in, PersistValid(a, t))
  BY DEF AllGuarded, PersistValid
<1> HIDE DEF last
<1>6. ASSUME NEW n, n # "CompleteUnprovisioned", n # "AdvanceCleanup"
      PROVE  /\ AllGuarded(in, PersistPhase(n))
             /\ \A t : t.name = n => \A a : AllGuarded(in, PersistValid(a, t))
  <2>1. \A t : t.name = n => AllGuarded(in, persist(t))
    BY <1>1, <1>2, <1>6
  <2> QED
    BY <1>3, <1>5, <2>1 DEF PersistPhase
<1>7. attempt.phase \in PreClone => AllGuarded(in, PersistPhase("CompleteUnprovisioned"))
  <2>1. [name |-> "CompleteUnprovisioned"] # last
    BY <1>2, <1>3
  <2> QED
    BY <1>1, <2>1 DEF PersistPhase
<1>8. /\ AllGuarded(in, persist([name |-> "AdvanceCleanup", phase |-> "Deregistering"]))
      /\ AllGuarded(in, persist([name |-> "AdvanceCleanup", phase |-> "Releasing"]))
  BY <1>1, <1>2, <1>4
<1>9. in.vm \notin {"Unknown", "Stopped", "Ready"} /\ in.runner.kind = "Absent" =>
        AllGuarded(in, persist(last))
  BY <1>1, <1>2
<1> QED
  BY <1>6, <1>7, <1>8, <1>9 DEF last

\* The plan of every phase is guarded.
LEMMA PhasePlanIsGuarded ==
  ASSUME NEW in, attempt.phase \in Phases
  PROVE  AllGuarded(in, PlanPhase(attempt, in))
<1> DEFINE cleanup == in.cancellation_requested \/ in.now > attempt.not_after
<1> HIDE DEF cleanup
<1>1. CASE attempt.phase = "Reserved"
  <2>1. PlanPhase(attempt, in) = PlanReserved(in.vm, cleanup)
    BY <1>1 DEF PlanPhase, Cleanup, cleanup
  <2> QED
    BY <2>1, SinglePlans, PersistedPlans DEF PlanReserved
<1>2. CASE attempt.phase = "UnprovisionedReleasing"
  <2>1. PlanPhase(attempt, in) = Act("ReleaseCapacity")
    BY <1>2 DEF PlanPhase, Cleanup
  <2> QED
    BY <1>2, <2>1, SinglePlans
<1>3. CASE attempt.phase = "CloneAuthorized"
  <2>1. PlanPhase(attempt, in) = PlanCloneAuthorized(in.vm, cleanup)
    BY <1>3 DEF PlanPhase, Cleanup, cleanup
  <2> QED
    BY <1>3, <2>1, SinglePlans, PersistedPlans DEF PlanCloneAuthorized
<1>4. CASE attempt.phase = "CloneStarted"
  <2>1. PlanPhase(attempt, in) = PlanCloneStarted(in.vm, cleanup)
    BY <1>4 DEF PlanPhase, Cleanup, cleanup
  <2> QED
    BY <1>4, <2>1, SinglePlans, PersistedPlans DEF PlanCloneStarted
<1>5. CASE attempt.phase \in {"Registering", "Assigned"} /\ ~attempt.runner_start_started
  <2>1. PlanPhase(attempt, in) = PlanHandoff(attempt, in.vm, in.runner, cleanup)
    BY <1>5 DEF PlanPhase, Cleanup, cleanup
  <2>2. AllGuarded(in, PersistValid(attempt, [name |-> "RecordRegistration",
                                              runner |-> in.runner.runner]))
    BY PersistedPlans
  <2> QED
    BY <2>1, <2>2, SinglePlans, PersistedPlans DEF PlanHandoff
<1>6. CASE attempt.phase = "Registering" /\ attempt.runner_start_started
  <2>1. PlanPhase(attempt, in) = PlanStarting(attempt, in.runner, cleanup)
    BY <1>6 DEF PlanPhase, Cleanup, cleanup
  <2>2. AllGuarded(in, PersistValid(attempt, [name |-> "RecordRunnerReady",
                                              runner |-> in.runner.runner]))
    BY PersistedPlans
  <2> QED
    BY <2>1, <2>2, SinglePlans, PersistedPlans DEF PlanStarting
<1>7. CASE \/ attempt.phase \in {"Waiting", "Running"}
           \/ attempt.phase = "Assigned" /\ attempt.runner_start_started
  <2>1. PlanPhase(attempt, in) = PlanServing(attempt, in.vm, in.runner, cleanup)
    BY <1>7 DEF PlanPhase, Cleanup, cleanup
  <2>2. AllGuarded(in, PersistValid(attempt, [name |-> "RecordRunnerReady",
                                              runner |-> in.runner.runner]))
    BY PersistedPlans
  <2> QED
    BY <2>1, <2>2, SinglePlans, PersistedPlans DEF PlanServing
<1>8. CASE attempt.phase = "Terminal"
  <2>1. PlanPhase(attempt, in) = PersistPhase("BeginCleanup")
    BY <1>8 DEF PlanPhase, Cleanup
  <2> QED
    BY <2>1, PersistedPlans
<1>9. CASE attempt.phase \in Cleanup
  <2>1. PlanPhase(attempt, in) = PlanCleanup(attempt, in.vm, in.runner, in.capacity_reserved)
    BY <1>9 DEF PlanPhase, Cleanup
  <2>2. AllGuarded(in, PersistValid(attempt, [name |-> "RecordRegistration",
                                              runner |-> in.runner.runner]))
    BY PersistedPlans
  <2> QED
    BY <1>9, <2>1, <2>2, SinglePlans, PersistedPlans DEF PlanCleanup
<1>10. CASE attempt.phase = "Complete"
  <2>1. PlanPhase(attempt, in) = PlanComplete(in.vm, in.runner, in.capacity_reserved)
    BY <1>10 DEF PlanPhase, Cleanup
  <2> QED
    BY <2>1, SinglePlans DEF PlanComplete
<1> QED
  BY <1>1, <1>2, <1>3, <1>4, <1>5, <1>6, <1>7, <1>8, <1>9, <1>10
     DEF Phases, PreClone, Owned, Cleanup

\* So is every plan.
LEMMA PlanIsGuarded ==
  ASSUME NEW in \in Inputs, NEW act \in reconcile_attempt(in), attempt.phase \in Phases
  PROVE  Guarded(in, act)
<1>1. CASE act.name = "Blocked"
  BY <1>1 DEF Guarded
<1>2. CASE act \in PersistValid(attempt, plan_job_event(attempt, in.job_event))
  <2>1. plan_job_event(attempt, in.job_event).name \in {"RecordRunning", "RecordTerminal"}
    BY DEF plan_job_event
  <2> QED
    BY <1>2, <2>1, PersistedPlans DEF AllGuarded
<1>3. CASE attempt.phase \in PreClone \cup Owned /\ act \in PlanWithoutCapacity(attempt)
  <2>1. AllGuarded(in, PlanWithoutCapacity(attempt))
    BY PersistedPlans DEF PlanWithoutCapacity
  <2> QED
    BY <1>3, <2>1 DEF AllGuarded
<1>4. CASE act \in PlanPhase(attempt, in)
  BY <1>4, PhasePlanIsGuarded DEF AllGuarded
<1> QED
  BY <1>1, <1>2, <1>3, <1>4, PlanOrigin

-----------------------------------------------------------------------------
\* A present VM or runner that was accepted is the attempt's own.
LEMMA AcceptedIsOwned ==
  ASSUME NEW in \in Inputs, Accepted(in)
  PROVE  /\ in.vm \in {"Stopped", "Ready"} /\ attempt.vm_identity # None =>
              in.vm_identity = attempt.vm_identity
         /\ in.runner.kind \notin {"Unknown", "Absent"} /\ attempt.runner_id # None =>
              /\ in.runner.runner.id = attempt.runner_id
              /\ in.runner.runner.name = attempt.id
<1>1. in.vm \in {"Stopped", "Ready"} /\ attempt.vm_identity # None =>
        in.vm_identity = attempt.vm_identity
  BY DEF Accepted, validate_vm_observation
<1>2. in.runner.kind \notin {"Unknown", "Absent"} => RunnerPresent(in.runner)
  BY InputShape DEF Accepted, RunnerObservations, RunnerPresent
<1> QED
  BY <1>1, <1>2 DEF Accepted, validate_runner_observation, validate_runner

\* Whatever was observed, only the attempt's own VM and runner are removed, and
\* neither a clone nor a JIT secret is asked for a second time.
THEOREM PlansNeverTouchOthers == Spec => []PlansStayOwned
<1>1. IInv => PlansStayOwned
  <2> SUFFICES ASSUME IInv, NEW in \in Inputs, NEW act \in reconcile_attempt(in)
               PROVE  /\ act.name \in {"DestroyVm", "DiscardIncompleteVm"} =>
                           /\ attempt.vm_identity # None
                           /\ in.vm_identity = attempt.vm_identity
                      /\ act.name = "DeleteRunner" =>
                           attempt.runner_id = act.runner.id /\ attempt.id = act.runner.name
                      /\ act.name = "CheckpointAndCloneVm" => "CloneStarted" \notin history
                      /\ act.name = "CheckpointAndGenerateJit" =>
                           ~attempt.jit_generation_started
    BY DEF PlansStayOwned
  <2>1. attempt \in ValidAttempts /\ attempt.phase \in Phases
    BY DEF IInv, TypeOK, ValidAttempts, Attempts
  <2>2. Guarded(in, act)
    BY <2>1, PlanIsGuarded
  <2>3. act.name # "Blocked" => Accepted(in)
    BY PlanOrigin
  <2>4. attempt.phase \in Cleanup => attempt.vm_identity # None
    BY <2>1 DEF ValidAttempts, validate, PhaseShape, Cleanup
  <2>5. act.name \in {"DestroyVm", "DiscardIncompleteVm"} =>
          attempt.vm_identity # None /\ in.vm_identity = attempt.vm_identity
    BY <2>2, <2>3, <2>4, AcceptedIsOwned DEF Guarded, Accepted
  <2>6. act.name = "DeleteRunner" =>
          attempt.runner_id = act.runner.id /\ attempt.id = act.runner.name
    BY <2>2, <2>3, AcceptedIsOwned DEF Guarded
  <2>7. attempt.phase = "CloneAuthorized" => "CloneStarted" \notin history
    BY DEF IInv, HistoryFromRevision, has_clone_started_history, Owned
  <2> QED
    BY <2>2, <2>5, <2>6, <2>7 DEF Guarded
<1> QED
  BY <1>1, Invariance, PTL

\* Capacity that may stand behind a VM is given up only when both the VM and
\* the registration were seen to be gone.
THEOREM ReleaseFollowsAbsence == Spec => []ReleaseNeedsAbsence
<1>1. IInv => ReleaseNeedsAbsence
  <2> SUFFICES ASSUME IInv, NEW in \in Inputs, NEW act \in reconcile_attempt(in),
                      "CloneStarted" \in history,
                      \/ act.name = "ReleaseCapacity"
                      \/ act.name = "Persist" /\
                           act.transition \in {[name |-> "CompleteUnprovisioned"],
                                               [name |-> "AdvanceCleanup", phase |-> "Complete"]}
               PROVE  in.vm = "Absent" /\ in.runner.kind = "Absent"
    BY DEF ReleaseNeedsAbsence
  <2>1. attempt \in ValidAttempts /\ attempt.phase \in Phases
    BY DEF IInv, TypeOK, ValidAttempts, Attempts
  <2>2. Guarded(in, act) /\ Accepted(in)
    BY <2>1, PlanIsGuarded, PlanOrigin
  <2>3. attempt.phase \notin PreClone
    BY DEF IInv, HistoryFromRevision, has_clone_started_history, Owned, PreClone
  <2>4. act.transition = [name |-> "CompleteUnprovisioned"] =>
          act.transition.name = "CompleteUnprovisioned"
    OBVIOUS
  <2>5. in.vm \notin {"Unknown", "Stopped", "Ready"} /\ in.runner.kind = "Absent"
    BY <2>2, <2>3, <2>4 DEF Guarded, PreClone
  <2> QED
    BY <2>2, <2>5, InputShape DEF Accepted, VmObservations
<1> QED
  BY <1>1, Invariance, PTL

-----------------------------------------------------------------------------
(***************************************************************************)
(* Plans are executable: every transition the planner persists is accepted *)
(* by the document and changes it.                                         *)
(***************************************************************************)
Changes(transition) == apply_action(attempt, transition) \ {attempt} # {}

\* Every transition of a set of plans changes the document.
AllChange(plans) == \A act \in plans : act.name = "Persist" => Changes(act.transition)

\* Only plans that persist a transition are in question.
LEMMA SinglePlansChange ==
  /\ \A t : AllChange(Observe(t))
  /\ \A c : AllChange(Blocked(c))
  /\ \A r : AllChange(DeleteRunner(r))
  /\ \A n : n # "Persist" => AllChange(Act(n))
  /\ \A t : Changes(t) => AllChange(persist(t))
  /\ \A n : Changes([name |-> n]) => AllChange(PersistPhase(n))
  /\ \A t : (apply_action(attempt, t) # {} => Changes(t)) =>
       AllChange(PersistValid(attempt, t))
<1>1. \A t : AllChange(Observe(t))
  BY DEF AllChange, Observe
<1>2. \A c : AllChange(Blocked(c))
  BY DEF AllChange, Blocked
<1>3. \A r : AllChange(DeleteRunner(r))
  BY DEF AllChange, DeleteRunner
<1>4. \A n : n # "Persist" => AllChange(Act(n))
  BY DEF AllChange, Act
<1>5. \A t : Changes(t) => AllChange(persist(t))
  BY DEF AllChange, persist
<1>6. \A t : (apply_action(attempt, t) # {} => Changes(t)) =>
        AllChange(PersistValid(attempt, t))
  BY DEF AllChange, PersistValid, persist
<1> QED
  BY <1>1, <1>2, <1>3, <1>4, <1>5, <1>6 DEF PersistPhase

\* Which transition a name stands for.
LEMMA ApplyByName ==
  ASSUME NEW a
  PROVE  /\ apply_action(a, [name |-> "AuthorizeClone"]) = authorize_clone(a)
         /\ apply_action(a, [name |-> "BeginUnprovisionedRelease"])
              = begin_unprovisioned_release(a)
         /\ apply_action(a, [name |-> "CompleteUnprovisioned"]) = complete_unprovisioned(a)
         /\ apply_action(a, [name |-> "BeginRegistration"]) = begin_registration(a)
         /\ apply_action(a, [name |-> "BeginCleanup"]) = begin_cleanup(a)
         /\ \A p : apply_action(a, [name |-> "AdvanceCleanup", phase |-> p])
                     = advance_cleanup(a, p)
         /\ \A r : apply_action(a, [name |-> "RecordRegistration", runner |-> r])
                     = record_registration(a, r)
         /\ \A r : apply_action(a, [name |-> "RecordRunnerReady", runner |-> r])
                     = record_runner_ready(a, r)
         /\ \A r, j : apply_action(a, [name |-> "RecordRunning", runner |-> r, job |-> j])
                        = record_running(a, r, j)
         /\ \A r, j, x : apply_action(a, [name |-> "RecordTerminal", runner |-> r,
                                          job |-> j, result |-> x])
                           = record_terminal(a, r, j, x)
BY DEF apply_action

\* Before the clone validation accepts each phase an unprovisioned attempt may
\* move to.
LEMMA EarlyMoveAccepted ==
  ASSUME NEW a \in ValidAttempts, a.phase \in PreClone,
         NEW p \in {"CloneAuthorized", "UnprovisionedReleasing", "Complete"}, p # a.phase,
         p = "CloneAuthorized" => a.revision = 1,
         p = "UnprovisionedReleasing" => a.revision = 1 \/ a.revision = 2
  PROVE  \E b \in advance_with(a, p, None, None, None) : b # a
<1> DEFINE next == [a EXCEPT !.phase = p, !.runner_id = None,
                             !.github_job_id = None, !.result = None]
           b == [next EXCEPT !.revision = a.revision + 1]
<1>1. a \in Attempts /\ NoEvidence(a) /\ a.revision \in {1, 2, 3}
  BY PreCloneShape DEF ValidAttempts
<1>2. /\ b.phase = p /\ b.revision = a.revision + 1 /\ b.vm_identity = a.vm_identity
      /\ b.runner_id = None /\ b.github_job_id = None /\ b.result = None
      /\ b.jit_generation_started = a.jit_generation_started
      /\ b.runner_start_started = a.runner_start_started
  BY <1>1 DEF Attempts
<1>3. NoEvidence(b)
  BY <1>1, <1>2 DEF NoEvidence
<1>4. \/ p = "CloneAuthorized" /\ b.revision = 2
      \/ p = "UnprovisionedReleasing" /\ b.revision \in {2, 3}
      \/ p = "Complete" /\ b.revision \in {2, 3, 4}
  BY <1>1, <1>2
<1>5. validate(b)
  BY <1>2, <1>3, <1>4 DEF validate, EvidenceOrdered, PhaseShape, NoEvidence
<1>6. b.revision <= MaxAttemptRevision
  BY <1>4, RevisionBoundAssumption
<1>7. b \in advance_with(a, p, None, None, None)
  BY <1>5, <1>6 DEF advance_with, Published
<1> QED
  BY <1>2, <1>7

\* A bound clone may always begin its registration.
LEMMA RegistrationAccepted ==
  ASSUME NEW a \in ValidAttempts, a.phase = "CloneStarted", a.vm_identity # None
  PROVE  \E b \in MoveTo(a, "Registering") : b # a
<1> DEFINE next == [a EXCEPT !.phase = "Registering", !.runner_id = a.runner_id,
                             !.github_job_id = a.github_job_id, !.result = a.result]
           b == [next EXCEPT !.revision = a.revision + 1]
<1>1. /\ a \in Attempts /\ a.revision = 4 /\ a.runner_id = None /\ a.github_job_id = None
      /\ a.result = None /\ ~a.jit_generation_started /\ ~a.runner_start_started
  BY CloneStartedShape DEF ValidAttempts
<1>2. /\ b.phase = "Registering" /\ b.revision = 5 /\ b.vm_identity # None
      /\ b.runner_id = None /\ b.github_job_id = None /\ b.result = None
      /\ b.jit_generation_started = FALSE /\ b.runner_start_started = FALSE
  BY <1>1 DEF Attempts
<1>3. validate(b)
  BY <1>2 DEF validate, EvidenceOrdered, PhaseShape, RegisteringShape, Checkpoints
<1>4. b.revision <= MaxAttemptRevision
  BY <1>2, RevisionBoundAssumption
<1>5. b \in MoveTo(a, "Registering")
  BY <1>3, <1>4 DEF MoveTo, advance_with, Published
<1> QED
  BY <1>2, <1>5

\* A job event makes at most one document of a document.
LEMMA EventsAreDeterministic ==
  ASSUME NEW a, NEW r, NEW j, NEW x
  PROVE  /\ \A b, c \in record_running(a, r, j) : b = c
         /\ \A b, c \in record_terminal(a, r, j, x) : b = c
<1>1. \A p, s, k, y : \A b, c \in advance_with(a, p, s, k, y) : b = c
  BY DEF advance_with, Published
<1>2. \A b, c \in record_running(a, r, j) : b = c
  BY <1>1 DEF record_running
<1>3. \A b, c \in record_terminal(a, r, j, x) : b = c
  BY <1>1 DEF record_terminal
<1> QED
  BY <1>2, <1>3

\* The transitions of an attempt that owns no VM yet.
LEMMA EarlyChanges ==
  ASSUME IInv
  PROVE  /\ attempt.phase = "Reserved" => Changes([name |-> "AuthorizeClone"])
         /\ attempt.phase \in {"Reserved", "CloneAuthorized"} =>
              Changes([name |-> "BeginUnprovisionedRelease"])
         /\ attempt.phase \in PreClone => Changes([name |-> "CompleteUnprovisioned"])
<1>1. attempt \in ValidAttempts
  BY DEF IInv, TypeOK, ValidAttempts
<1>2. /\ attempt.phase = "Reserved" => attempt.revision = 1
      /\ attempt.phase = "CloneAuthorized" => attempt.revision = 2
      /\ attempt.phase \in PreClone => NoEvidence(attempt)
  BY <1>1, PreCloneShape DEF ValidAttempts, validate, PhaseShape
<1>3. ASSUME attempt.phase = "Reserved" PROVE Changes([name |-> "AuthorizeClone"])
  <2>1. authorize_clone(attempt) = advance_with(attempt, "CloneAuthorized", None, None, None)
    BY <1>2, <1>3 DEF authorize_clone, advance_phase, MoveTo, NoEvidence, PreClone
  <2>2. \E b \in authorize_clone(attempt) : b # attempt
    BY <1>1, <1>2, <1>3, <2>1, EarlyMoveAccepted DEF PreClone
  <2> QED
    BY <2>2, ApplyByName DEF Changes
<1>4. ASSUME attempt.phase \in {"Reserved", "CloneAuthorized"}
      PROVE  Changes([name |-> "BeginUnprovisionedRelease"])
  <2>1. begin_unprovisioned_release(attempt)
          = advance_with(attempt, "UnprovisionedReleasing", None, None, None)
    BY <1>4 DEF begin_unprovisioned_release
  <2>2. \E b \in begin_unprovisioned_release(attempt) : b # attempt
    BY <1>1, <1>2, <1>4, <2>1, EarlyMoveAccepted DEF PreClone
  <2> QED
    BY <2>2, ApplyByName DEF Changes
<1>5. ASSUME attempt.phase \in PreClone PROVE Changes([name |-> "CompleteUnprovisioned"])
  <2>1. complete_unprovisioned(attempt) = advance_with(attempt, "Complete", None, None, None)
    BY <1>5 DEF complete_unprovisioned
  <2>2. \E b \in complete_unprovisioned(attempt) : b # attempt
    BY <1>1, <1>5, <2>1, EarlyMoveAccepted DEF PreClone
  <2> QED
    BY <2>2, ApplyByName DEF Changes
<1> QED
  BY <1>3, <1>4, <1>5

\* The transitions of an attempt that owns its VM.
LEMMA OwnedChanges ==
  ASSUME IInv, attempt.vm_identity # None
  PROVE  /\ attempt.phase \in Owned => Changes([name |-> "BeginCleanup"])
         /\ attempt.phase = "CloneStarted" => Changes([name |-> "BeginRegistration"])
         /\ \A p : <<attempt.phase, p>> \in CleanupMoves =>
              Changes([name |-> "AdvanceCleanup", phase |-> p])
<1>1. attempt \in ValidAttempts
  BY DEF IInv, TypeOK, ValidAttempts
<1>2. attempt.revision \in Nat /\ Spare(attempt) \in Nat
  BY <1>1, EvidenceTypes DEF Spare
<1>3. ASSUME attempt.phase \in Owned PROVE Changes([name |-> "BeginCleanup"])
  <2>1. attempt.revision >= 4 /\ attempt.revision <= 12
    <3>1. CASE attempt.phase = "Terminal"
      <4>1. 5 <= attempt.revision /\ attempt.revision <= 12
        BY <1>1, <3>1 DEF ValidAttempts, validate, PhaseShape
      <4> QED
        BY <1>2, <4>1
    <3>2. CASE attempt.phase # "Terminal"
      <4>1. \/ attempt.revision = 4 \/ attempt.revision = 5 \/ attempt.revision = 6
            \/ attempt.revision = 7 \/ attempt.revision = 8 \/ attempt.revision = 9
            \/ attempt.revision = 10 \/ attempt.revision = 11
        BY <1>1, <1>3, <3>2, CloneStartedShape, RegisteringShapes, WaitingShapes,
           AssignedShapes, RunningShapes DEF Owned
      <4> QED
        BY <4>1
    <3> QED
      BY <3>1, <3>2
  <2>2. \E b \in MoveTo(attempt, "Destroying") : b.phase = "Destroying"
    BY <1>1, <1>2, <2>1, CleanupMoveAccepted, RevisionBoundAssumption DEF Cleanup
  <2>3. begin_cleanup(attempt) = MoveTo(attempt, "Destroying")
    BY <1>3 DEF begin_cleanup, PreClone, Owned
  <2>4. \E b \in begin_cleanup(attempt) : b # attempt
    BY <1>3, <2>2, <2>3 DEF Owned
  <2> QED
    BY <2>4, ApplyByName DEF Changes
<1>4. ASSUME attempt.phase = "CloneStarted" PROVE Changes([name |-> "BeginRegistration"])
  <2>1. begin_registration(attempt) = MoveTo(attempt, "Registering")
    BY <1>4 DEF begin_registration, advance_phase
  <2>2. \E b \in begin_registration(attempt) : b # attempt
    BY <1>1, <1>4, <2>1, RegistrationAccepted
  <2> QED
    BY <2>2, ApplyByName DEF Changes
<1>5. ASSUME NEW p, <<attempt.phase, p>> \in CleanupMoves
      PROVE  Changes([name |-> "AdvanceCleanup", phase |-> p])
  <2>1. \/ attempt.phase = "Destroying" /\ p = "Deregistering" /\ attempt.revision >= 5
        \/ attempt.phase = "Deregistering" /\ p = "Releasing" /\ attempt.revision >= 6
        \/ attempt.phase = "Releasing" /\ p = "Complete" /\ attempt.revision >= 7
    BY <1>1, <1>5 DEF CleanupMoves, ValidAttempts, validate, PhaseShape
  <2>2. attempt.revision < MaxAttemptRevision
    BY <1>2, <2>1, RevisionBoundAssumption DEF IInv, Budget
  <2>3. \E b \in MoveTo(attempt, p) : b.phase = p
    BY <1>1, <1>2, <2>1, <2>2, CleanupMoveAccepted DEF Cleanup
  <2>4. p # attempt.phase /\ advance_cleanup(attempt, p) = MoveTo(attempt, p)
    BY <1>5, <2>1 DEF advance_cleanup, CleanupMoves
  <2>5. \E b \in advance_cleanup(attempt, p) : b # attempt
    BY <2>3, <2>4
  <2> QED
    BY <2>5, ApplyByName DEF Changes
<1> QED
  BY <1>3, <1>4, <1>5

\* A runner that is recorded for the first time changes the document.
LEMMA RunnerChanges ==
  ASSUME IInv, NEW r \in RunnerReferences
  PROVE  /\ attempt.runner_id = None =>
              AllChange(PersistValid(attempt, [name |-> "RecordRegistration", runner |-> r]))
         /\ attempt.phase = "Registering" =>
              AllChange(PersistValid(attempt, [name |-> "RecordRunnerReady", runner |-> r]))
<1>1. attempt \in ValidAttempts /\ attempt \in Attempts
  BY DEF IInv, TypeOK, ValidAttempts
<1>2. r.id \in Option(RunnerIds) /\ r.id # None
  BY NoneAssumption DEF RunnerReferences, Option
<1>3. /\ attempt.runner_id \in Option(RunnerIds) /\ attempt.phase \in Phases
      /\ attempt.github_job_id \in Option(JobIds) /\ attempt.result \in Option(Results)
      /\ None \in Option(JobIds) /\ None \in Option(Results) /\ "Waiting" \in Phases
  BY <1>1, EvidenceTypes DEF Phases, Owned
<1>4. ASSUME attempt.runner_id = None, NEW b \in record_registration(attempt, r)
      PROVE  b # attempt
  <2>1. b \in advance_with(attempt, attempt.phase, r.id, attempt.github_job_id, attempt.result)
    BY <1>2, <1>4 DEF record_registration
  <2>2. b.runner_id = r.id
    BY <1>1, <1>2, <1>3, <2>1, AdvanceWith
  <2> QED
    BY <1>2, <1>4, <2>2
<1>5. ASSUME attempt.phase = "Registering", NEW b \in record_runner_ready(attempt, r)
      PROVE  b # attempt
  <2>1. b \in advance_with(attempt, "Waiting", r.id, None, None)
    BY <1>5 DEF record_runner_ready
  <2>2. b.phase = "Waiting"
    BY <1>1, <1>2, <1>3, <2>1, AdvanceWith
  <2> QED
    BY <1>5, <2>2
<1>6. attempt.runner_id = None =>
        (apply_action(attempt, [name |-> "RecordRegistration", runner |-> r]) # {} =>
           Changes([name |-> "RecordRegistration", runner |-> r]))
  BY <1>4, ApplyByName DEF Changes
<1>7. attempt.phase = "Registering" =>
        (apply_action(attempt, [name |-> "RecordRunnerReady", runner |-> r]) # {} =>
           Changes([name |-> "RecordRunnerReady", runner |-> r]))
  BY <1>5, ApplyByName DEF Changes
<1> QED
  BY <1>6, <1>7, SinglePlansChange

\* A document past its clone is bound, and a started runner is known.
LEMMA BoundPhases ==
  ASSUME NEW a \in ValidAttempts
  PROVE  /\ a.phase \in (Owned \ {"CloneStarted"}) \cup Cleanup => a.vm_identity # None
         /\ a.phase \in {"Waiting", "Running"} \/ a.runner_start_started => a.runner_id # None
<1>1. a.phase \in (Owned \ {"CloneStarted"}) \cup Cleanup => a.vm_identity # None
  BY DEF ValidAttempts, validate, PhaseShape, Owned, Cleanup
<1>2. a.phase \in {"Waiting", "Running"} => a.runner_id # None
  BY WaitingShapes, RunningShapes
<1>3. a.runner_start_started => a.runner_id # None
  BY DEF ValidAttempts, validate, EvidenceOrdered
<1> QED
  BY <1>1, <1>2, <1>3

\* The plan of every phase can be executed.
LEMMA PhasePlanChanges ==
  ASSUME IInv, NEW in \in Inputs, Accepted(in)
  PROVE  AllChange(PlanPhase(attempt, in))
<1> DEFINE cleanup == in.cancellation_requested \/ in.now > attempt.not_after
<1> HIDE DEF cleanup
<1>0. attempt \in ValidAttempts /\ attempt.phase \in Phases
  BY DEF IInv, TypeOK, ValidAttempts, Attempts
<1>b. attempt.phase \in Owned \cup Cleanup => attempt.vm_identity # None
  BY <1>0, BoundPhases DEF Accepted, Owned
<1>c. attempt.phase \in Owned => AllChange(PersistPhase("BeginCleanup"))
  BY <1>b, OwnedChanges, SinglePlansChange
<1>r. in.runner.kind \notin {"Unknown", "Absent"} => in.runner.runner \in RunnerReferences
  BY InputShape DEF Accepted, RunnerObservations
<1>1. CASE attempt.phase = "Reserved"
  <2>1. PlanPhase(attempt, in) = PlanReserved(in.vm, cleanup)
    BY <1>1 DEF PlanPhase, Cleanup, cleanup
  <2>2. /\ AllChange(PersistPhase("AuthorizeClone"))
        /\ AllChange(PersistPhase("BeginUnprovisionedRelease"))
    BY <1>1, EarlyChanges, SinglePlansChange
  <2> QED
    BY <2>1, <2>2, SinglePlansChange DEF PlanReserved
<1>2. CASE attempt.phase = "UnprovisionedReleasing"
  <2>1. PlanPhase(attempt, in) = Act("ReleaseCapacity")
    BY <1>2 DEF PlanPhase, Cleanup
  <2> QED
    BY <2>1, SinglePlansChange
<1>3. CASE attempt.phase = "CloneAuthorized"
  <2>1. PlanPhase(attempt, in) = PlanCloneAuthorized(in.vm, cleanup)
    BY <1>3 DEF PlanPhase, Cleanup, cleanup
  <2>2. AllChange(PersistPhase("BeginUnprovisionedRelease"))
    BY <1>3, EarlyChanges, SinglePlansChange
  <2> QED
    BY <2>1, <2>2, SinglePlansChange DEF PlanCloneAuthorized
<1>4. CASE attempt.phase = "CloneStarted"
  <2>1. PlanPhase(attempt, in) = PlanCloneStarted(in.vm, cleanup)
    BY <1>4 DEF PlanPhase, Cleanup, cleanup
  <2>2. /\ AllChange(PersistPhase("BeginRegistration"))
        /\ AllChange(PersistPhase("BeginCleanup"))
    BY <1>4, <1>b, <1>c, OwnedChanges, SinglePlansChange DEF Owned
  <2> QED
    BY <2>1, <2>2, SinglePlansChange DEF PlanCloneStarted
<1>5. CASE attempt.phase \in {"Registering", "Assigned"} /\ ~attempt.runner_start_started
  <2>1. PlanPhase(attempt, in) = PlanHandoff(attempt, in.vm, in.runner, cleanup)
    BY <1>5 DEF PlanPhase, Cleanup, cleanup
  <2>2. AllChange(PersistPhase("BeginCleanup"))
    BY <1>5, <1>c DEF Owned
  <2>3. attempt.runner_id = None /\ in.runner.kind \notin {"Unknown", "Absent"} =>
          AllChange(PersistValid(attempt, [name |-> "RecordRegistration",
                                           runner |-> in.runner.runner]))
    BY <1>r, RunnerChanges
  <2> QED
    BY <2>1, <2>2, <2>3, SinglePlansChange DEF PlanHandoff
<1>6. CASE attempt.phase = "Registering" /\ attempt.runner_start_started
  <2>1. PlanPhase(attempt, in) = PlanStarting(attempt, in.runner, cleanup)
    BY <1>6 DEF PlanPhase, Cleanup, cleanup
  <2>2. AllChange(PersistPhase("BeginCleanup"))
    BY <1>6, <1>c DEF Owned
  <2>3. in.runner.kind = "IdleReady" =>
          AllChange(PersistValid(attempt, [name |-> "RecordRunnerReady",
                                           runner |-> in.runner.runner]))
    BY <1>6, <1>r, RunnerChanges
  <2> QED
    BY <2>1, <2>2, <2>3, SinglePlansChange DEF PlanStarting
<1>7. CASE \/ attempt.phase \in {"Waiting", "Running"}
           \/ attempt.phase = "Assigned" /\ attempt.runner_start_started
  <2>1. PlanPhase(attempt, in) = PlanServing(attempt, in.vm, in.runner, cleanup)
    BY <1>7 DEF PlanPhase, Cleanup, cleanup
  <2>2. AllChange(PersistPhase("BeginCleanup")) /\ attempt.runner_id # None
    BY <1>0, <1>7, <1>c, BoundPhases DEF Owned
  <2> QED
    BY <2>1, <2>2, SinglePlansChange DEF PlanServing
<1>8. CASE attempt.phase = "Terminal"
  <2>1. PlanPhase(attempt, in) = PersistPhase("BeginCleanup")
    BY <1>8 DEF PlanPhase, Cleanup
  <2> QED
    BY <1>8, <1>c, <2>1 DEF Owned
<1>9. CASE attempt.phase \in Cleanup
  <2>1. PlanPhase(attempt, in) = PlanCleanup(attempt, in.vm, in.runner, in.capacity_reserved)
    BY <1>9 DEF PlanPhase, Cleanup
  <2>2. \A p : <<attempt.phase, p>> \in CleanupMoves =>
          AllChange(persist([name |-> "AdvanceCleanup", phase |-> p]))
    BY <1>9, <1>b, OwnedChanges, SinglePlansChange
  <2>3. /\ attempt.phase = "Destroying" =>
             AllChange(persist([name |-> "AdvanceCleanup", phase |-> "Deregistering"]))
        /\ attempt.phase = "Deregistering" =>
             AllChange(persist([name |-> "AdvanceCleanup", phase |-> "Releasing"]))
        /\ attempt.phase = "Releasing" =>
             AllChange(persist([name |-> "AdvanceCleanup", phase |-> "Complete"]))
    BY <2>2 DEF CleanupMoves
  <2>4. attempt.runner_id = None /\ in.runner.kind \notin {"Unknown", "Absent"} =>
          AllChange(PersistValid(attempt, [name |-> "RecordRegistration",
                                           runner |-> in.runner.runner]))
    BY <1>r, RunnerChanges
  <2> QED
    BY <1>9, <2>1, <2>3, <2>4, SinglePlansChange DEF PlanCleanup, Cleanup
<1>10. CASE attempt.phase = "Complete"
  <2>1. PlanPhase(attempt, in) = PlanComplete(in.vm, in.runner, in.capacity_reserved)
    BY <1>10 DEF PlanPhase, Cleanup
  <2> QED
    BY <2>1, SinglePlansChange DEF PlanComplete
<1> QED
  BY <1>0, <1>1, <1>2, <1>3, <1>4, <1>5, <1>6, <1>7, <1>8, <1>9, <1>10
     DEF Phases, PreClone, Owned, Cleanup

\* Every transition the planner asks for is accepted by the document it planned
\* from, and changes it: the controller neither spins nor is refused.
THEOREM PlansAlwaysExecute == Spec => []PlansAreExecutable
<1>1. IInv => PlansAreExecutable
  <2> SUFFICES ASSUME IInv, NEW in \in Inputs, NEW act \in reconcile_attempt(in),
                      act.name = "Persist"
               PROVE  Changes(act.transition)
    BY DEF PlansAreExecutable, Changes
  <2> DEFINE transition == plan_job_event(attempt, in.job_event)
  <2> HIDE DEF transition
  <2>1. /\ Accepted(in)
        /\ \/ /\ in.job_event \in JobEvents
              /\ apply_action(attempt, transition) # {attempt}
              /\ act \in PersistValid(attempt, transition)
           \/ attempt.phase \in PreClone \cup Owned /\ act \in PlanWithoutCapacity(attempt)
           \/ act \in PlanPhase(attempt, in)
    BY PlanOrigin DEF transition
  <2>2. CASE /\ in.job_event \in JobEvents
             /\ apply_action(attempt, transition) # {attempt}
             /\ act \in PersistValid(attempt, transition)
    <3>1. act.transition = transition /\ apply_action(attempt, transition) # {}
      BY <2>2 DEF PersistValid, persist
    <3>2. \A b, c \in apply_action(attempt, transition) : b = c
      <4>1. \A r, j, x :
              /\ \A b, c \in apply_action(attempt, [name |-> "RecordRunning", runner |-> r,
                                                    job |-> j]) : b = c
              /\ \A b, c \in apply_action(attempt, [name |-> "RecordTerminal", runner |-> r,
                                                    job |-> j, result |-> x]) : b = c
        <5> TAKE r, j, x
        <5>1. /\ apply_action(attempt, [name |-> "RecordRunning", runner |-> r, job |-> j])
                   = record_running(attempt, r, j)
              /\ apply_action(attempt, [name |-> "RecordTerminal", runner |-> r, job |-> j,
                                        result |-> x])
                   = record_terminal(attempt, r, j, x)
          BY ApplyByName
        <5>2. /\ \A b, c \in record_running(attempt, r, j) : b = c
              /\ \A b, c \in record_terminal(attempt, r, j, x) : b = c
          BY EventsAreDeterministic
        <5> QED
          BY <5>1, <5>2
      <4> QED
        BY <4>1 DEF transition, plan_job_event
    <3> QED
      BY <2>2, <3>1, <3>2 DEF Changes
  <2>3. CASE attempt.phase \in PreClone \cup Owned /\ act \in PlanWithoutCapacity(attempt)
    <3>1. attempt.phase \in PreClone => AllChange(PersistPhase("CompleteUnprovisioned"))
      BY EarlyChanges, SinglePlansChange
    <3>2. attempt.phase \in Owned => AllChange(PersistPhase("BeginCleanup"))
      <4>1. attempt \in ValidAttempts
        BY DEF IInv, TypeOK, ValidAttempts
      <4>2. attempt.phase \in Owned => attempt.vm_identity # None
        BY <2>1, <4>1, BoundPhases DEF Accepted
      <4> QED
        BY <4>2, OwnedChanges, SinglePlansChange
    <3>3. AllChange(PlanWithoutCapacity(attempt))
      BY <2>3, <3>1, <3>2 DEF PlanWithoutCapacity
    <3> QED
      BY <2>3, <3>3 DEF AllChange
  <2>4. CASE act \in PlanPhase(attempt, in)
    BY <2>1, <2>4, PhasePlanChanges DEF AllChange
  <2> QED
    BY <2>1, <2>2, <2>3, <2>4
<1> QED
  BY <1>1, Invariance, PTL
=============================================================================
