-------------------- MODULE MCDisposableWorkerCoordinator --------------------
(***************************************************************************)
(* Instances of the coordinator.  Every attempt identity is derived from   *)
(* its own job.                                                            *)
(***************************************************************************)
EXTENDS DisposableWorkerCoordinator

MCJobOf(id) == id

MCTimes == 0..(MaxTime + Cardinality(AttemptIds) * (JobMaxMillis + 2))

MCSymmetry == Permutations(VmIdentities) \cup Permutations(RunnerIds)
              \cup Permutations(AttemptIds)
=============================================================================
