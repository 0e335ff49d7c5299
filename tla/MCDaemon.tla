------------------------------ MODULE MCDaemon ------------------------------
(* Model-checking instances of MmlcdDaemon; the constants are in the .cfg. *)
EXTENDS MmlcdDaemon, TLC

ConnSymmetry == Permutations(Conns)
=============================================================================
