-------------------- MODULE MCLocalInstallGenerationStore --------------------
(***************************************************************************)
(* Three generations in a row, so that the first one is retired, and a     *)
(* rival of the first.                                                     *)
(***************************************************************************)
EXTENDS LocalInstallGenerationStore, TLC

CONSTANTS b1, b2

MCGenerations == {<<b1>>, <<b2>>, <<b1, b1>>, <<b1, b1, b1>>}

\* Launchers of the generation that two others supersede.
MCFirst == {<<b1>>}

MCSymmetry == Permutations(Operations)
=============================================================================
