----------------------------- MODULE MCUploader -----------------------------
(***************************************************************************)
(* Uploader for TLC: a home receiver and one that falls silent.            *)
(***************************************************************************)
EXTENDS Uploader

HomeCommitsOn == [r \in Receivers |-> IF r = Home THEN 3 ELSE 1]
=============================================================================
