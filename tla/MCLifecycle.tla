---------------------------- MODULE MCLifecycle -----------------------------
(* Model-checking instance of DaemonLifecycle; constants in the .cfg.      *)
EXTENDS DaemonLifecycle
=============================================================================
