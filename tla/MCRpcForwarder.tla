---------------------------- MODULE MCRpcForwarder ----------------------------
(***************************************************************************)
(* Small instances of RpcForwarder for TLC.                                *)
(***************************************************************************)
EXTENDS RpcForwarder

=============================================================================
