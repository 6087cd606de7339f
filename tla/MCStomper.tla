----------------------------- MODULE MCStomper -----------------------------
(***************************************************************************)
(* An instance of the command-line client for TLC.                         *)
(***************************************************************************)
EXTENDS Stomper, TLC

Symmetry == Permutations(Aliases)
=============================================================================
