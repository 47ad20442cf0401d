------------------------- MODULE MCReceiverManager -------------------------
(* A source with a band below and one above the Nyquist rate of a low-rate *)
(* front end.                                                              *)
EXTENDS ReceiverManager

FrequenciesDef == <<"20m", "10m">>
GroupOfDef == [g \in Gens |-> IF g = 3 THEN "other" ELSE "own"]
=============================================================================
