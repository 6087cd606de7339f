------------------------------ MODULE MCServer ------------------------------
(***************************************************************************)
(* Instances of the server for TLC.                                      *)
(***************************************************************************)
EXTENDS Server, TLC

Symmetry == Permutations(Sessions)

\* Heart-beat headers: none to be sent, and one interval longer, one shorter than ours.
MCHbHeaders == {<<1, 0>>, <<3, 1>>}
=============================================================================
