------------------------- MODULE LocalInstallHistory -------------------------
(***************************************************************************)
(* What a local installation promises: generations succeed one another,    *)
(* none is skipped or taken back, and a receipt names the installed one.   *)
(***************************************************************************)
EXTENDS Sequences

CONSTANT Builds

VARIABLES
  installed, \* the builds accepted so far, in order
  reported   \* the generation of the last receipt

vars == <<installed, reported>>

Init == installed = <<>> /\ reported = <<>>

Install ==
  /\ installed' \in {Append(installed, b) : b \in Builds}
  /\ UNCHANGED reported

Report == reported' = installed /\ UNCHANGED installed

Next == Install \/ Report

Spec == Init /\ [][Next]_vars
=============================================================================
