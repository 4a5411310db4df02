---------------------------- MODULE MCBranchRegistry ----------------------------
(***************************************************************************)
(* Small instances of BranchRegistry.                                      *)
(***************************************************************************)
EXTENDS BranchRegistry, TLC

CONSTANTS main, b1, b2, h1, h2, h3

Symmetry == Permutations({b1, b2}) \cup Permutations(Handlers)
===============================================================================
