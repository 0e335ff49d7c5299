-------------------------------- MODULE MCUsb -------------------------------
(* Model-checking instance of UsbPath; the constants are in the .cfg.      *)
EXTENDS UsbPath
=============================================================================
