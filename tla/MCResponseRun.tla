--------------------------- MODULE MCResponseRun ---------------------------
(* Instances of ResponseRun for TLC.  Its parameters are numbers and a flag, so *)
(* every cfg names them directly; nothing is symmetric.                        *)
EXTENDS ResponseRun
=============================================================================
