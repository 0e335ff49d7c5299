------------------------------- MODULE MCLcd --------------------------------
(* Model-checking instance of Mmlcdctl.                                    *)
EXTENDS Mmlcdctl

\* A text longer than the display is wide, and one of two characters whose
\* codes are instructions when RS is low: 0x01 (clear), 0x28 (function set).
MCTexts == {<<65, 66, 67, 68>>, <<1, 40>>}

MCWords == {"print", "c", "bl", "gb", "other"}
=============================================================================
