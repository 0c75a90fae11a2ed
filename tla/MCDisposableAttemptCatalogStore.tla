------------------- MODULE MCDisposableAttemptCatalogStore -------------------
(***************************************************************************)
(* Three attempts through a history of one: the third retirement crosses   *)
(* the eviction boundary a second time.                                    *)
(***************************************************************************)
EXTENDS DisposableAttemptCatalogStore

MCSymmetry == Permutations(AttemptIds) \cup Permutations(VmIdentities)
=============================================================================
