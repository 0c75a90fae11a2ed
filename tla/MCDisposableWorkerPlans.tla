----------------------- MODULE MCDisposableWorkerPlans -----------------------
(***************************************************************************)
(* One attempt, two of everything it could be confused about: a second     *)
(* attempt's runner name, a second VM, runner id, job and result.          *)
(***************************************************************************)
EXTENDS DisposableWorkerPlans

MCSymmetry == Permutations(VmIdentities) \cup Permutations(RunnerIds)
              \cup Permutations(JobIds)
=============================================================================
