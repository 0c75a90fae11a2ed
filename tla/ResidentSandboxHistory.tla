------------------------ MODULE ResidentSandboxHistory ------------------------
(***************************************************************************)
(* What the resident sandbox store promises: one catalog, absent until it  *)
(* is created empty, that changes only by whole legal calls, one at a time *)
(* and never back.  What a legal call makes of a catalog is a parameter.   *)
(***************************************************************************)
CONSTANTS
  None,
  empty,         \* the catalog a store is created with
  Successors(_)  \* every catalog one call makes of another

VARIABLE catalog

Init == catalog = None

Create == catalog = None /\ catalog' = empty

Advance == catalog # None /\ catalog' \in Successors(catalog)

Next == Create \/ Advance

Spec == Init /\ [][Next]_catalog

=============================================================================
