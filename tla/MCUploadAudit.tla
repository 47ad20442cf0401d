--------------------------- MODULE MCUploadAudit ---------------------------
(* Two receivers hear the same spot: their rows have one key.              *)
EXTENDS UploadAudit, TLC

CONSTANTS a, b
SharedKey   == a :> "k" @@ b :> "k"
DistinctKey == a :> "k" @@ b :> "l"
=============================================================================
