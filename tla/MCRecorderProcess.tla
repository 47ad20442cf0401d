------------------------- MODULE MCRecorderProcess -------------------------
(* The numbers of the unit file and of the code, in units of 30 seconds,   *)
(* what is not a whole number of them rounded up.                          *)
EXTENDS RecorderProcess

RetryDelaysDef == <<1, 1, 1, 2, 2>>
=============================================================================
