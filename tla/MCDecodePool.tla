---------------------------- MODULE MCDecodePool ----------------------------
(* Small instances of DecodePool: a W2, an F15 and an F30 job.      *)
EXTENDS DecodePool

MCPeriod == [j \in Jobs |-> CASE j = "f15" -> 900
                              [] j = "f30" -> 1800
                              [] OTHER     -> 120]
=============================================================================
