---------------------------- MODULE MCSSHRunner ----------------------------
(* Model checking SSHRunner: callers that share a host, through a bastion. *)
EXTENDS SSHRunner
=============================================================================
