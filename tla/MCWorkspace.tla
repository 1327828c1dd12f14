---------------------------- MODULE MCWorkspace ----------------------------
(* One workflow's workspace and containers, with two processes, for TLC. *)
EXTENDS Workspace
=============================================================================
