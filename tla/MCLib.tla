------------------------------- MODULE MCLib --------------------------------
(* Model-checking instance of LibMmlcd; the constants are in the .cfg.     *)
EXTENDS LibMmlcd
=============================================================================
