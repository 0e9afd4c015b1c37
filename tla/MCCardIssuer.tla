----------------------------- MODULE MCCardIssuer -----------------------------
(***************************************************************************)
(* Small instance of CardIssuer for TLC, and the mutants of its operators. *)
(***************************************************************************)
EXTENDS CardIssuer
=============================================================================
