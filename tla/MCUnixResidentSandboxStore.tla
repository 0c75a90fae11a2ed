---------------------- MODULE MCUnixResidentSandboxStore ----------------------
(***************************************************************************)
(* Two clients, two generations of one lineage or one of each of two, and  *)
(* two operations of a generation.                                         *)
(***************************************************************************)
EXTENDS UnixResidentSandboxStore, TLC

MCConfigs == {[name |-> "plain", disk_source |-> None]}
MCSymmetry == Permutations(Clients) \cup Permutations(Inodes) \cup Permutations(RequestIds)
              \cup Permutations(Lineages)
=============================================================================
