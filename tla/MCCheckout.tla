------------------------------ MODULE MCCheckout ------------------------------
(***************************************************************************)
(* Small instances of Checkout for TLC.                                    *)
(***************************************************************************)
EXTENDS Checkout, TLC

\* The runs of the flows are interchangeable.
TaskSymmetry == Permutations(Task)

=============================================================================
