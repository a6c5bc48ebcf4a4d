--------------------------- MODULE MCDiagConsole ---------------------------
(* Instances of DiagConsole for TLC.  Swapping the workers changes nothing *)
(* any of the properties can see.                                          *)
EXTENDS DiagConsole, TLC

WorkerSymmetry == Permutations(Workers)
=============================================================================
