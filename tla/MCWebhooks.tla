------------------------------ MODULE MCWebhooks ------------------------------
(***************************************************************************)
(* Small instances of Webhooks for TLC.                                    *)
(***************************************************************************)
EXTENDS Webhooks

=============================================================================
