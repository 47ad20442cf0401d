---------------------------- MODULE AuditLedger ----------------------------
(***************************************************************************)
(* What the wsprnet audit promises to those who read its report            *)
(* (wsprnet_audit.py): each spot that was shipped is in flight until it is *)
(* verified or given up as lost.  Verified is said only of spots that      *)
(* wsprnet.org has indexed and is never taken back; a spot given up may    *)
(* still turn up, and is told from one that was never in doubt; a verdict  *)
(* is forgotten with its spot.                                             *)
(***************************************************************************)
CONSTANT Spots

VARIABLES verdict, indexed

vars == <<verdict, indexed>>

Verdicts == {"none", "in flight", "verified", "lost", "found late"}

TypeOK == verdict \in [Spots -> Verdicts] /\ indexed \subseteq Spots

Init == verdict = [s \in Spots |-> "none"] /\ indexed = {}

(* The spots of S come to a verdict, each from one the change knows of.    *)
Judge(S, change) ==
  /\ \A s \in S : verdict[s] \in DOMAIN change
  /\ verdict' = [s \in Spots |-> IF s \in S THEN change[verdict[s]] ELSE verdict[s]]
  /\ UNCHANGED indexed

Ship(S)   == Judge(S, [v \in {"none"} |-> "in flight"])
Verify(S) ==
  /\ S \subseteq indexed
  /\ Judge(S, [v \in {"in flight", "lost"} |-> IF v = "lost" THEN "found late" ELSE "verified"])
Lose(S)   == Judge(S, [v \in {"in flight"} |-> "lost"])
Forget(S) == Judge(S, [v \in Verdicts |-> "none"])

Index(S) == indexed' = indexed \cup S /\ UNCHANGED verdict

Next == \E S \in SUBSET Spots : Ship(S) \/ Verify(S) \/ Lose(S) \/ Forget(S) \/ Index(S)

Spec == Init /\ [][Next]_vars

(* What is reported as verified has reached wsprnet.org.                   *)
VerifiedIndexed ==
  \A s \in Spots : verdict[s] \in {"verified", "found late"} => s \in indexed
=============================================================================
