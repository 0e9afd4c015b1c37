---------------------------- MODULE MCClientPolicy ----------------------------
(***************************************************************************)
(* Small instance of ClientPolicy for TLC.                                 *)
(***************************************************************************)
EXTENDS ClientPolicy, TLC

Symmetry == Permutations(Call)

=============================================================================
