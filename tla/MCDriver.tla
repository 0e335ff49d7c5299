------------------------------ MODULE MCDriver ------------------------------
(* Model-checking instances of MmlcdDriver; the constants are in the .cfg. *)
EXTENDS MmlcdDriver, TLC

DriverSymmetry == Permutations(Devs) \cup Permutations(Files)
=============================================================================
