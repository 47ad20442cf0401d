------------------------- MODULE UploadAuditProofs -------------------------
(***************************************************************************)
(* Proofs about UploadAudit for any rows, reporters, keys and times: its   *)
(* type, that its audit table implements the ledger of AuditLedger, and    *)
(* that the verifier deletes nothing early.                                *)
(***************************************************************************)
EXTENDS UploadAudit, TLAPS

(* The keys the verifier carries from its fetch, the rows from its flush   *)
(* to its marks and the rows the mirror had are those of indexed rows.     *)
SeenIndexed ==
  \A k \in verifier.seen : \E r \in Mine \cap index : KeyOf[r] = k
MatchedIndexed == verifier.matched \subseteq Mine \cap index
FoundIndexed   == backstop.found \subseteq index

AuditInv == TypeOK /\ SeenIndexed /\ MatchedIndexed /\ FoundIndexed

(* One row of a reporter has a key, so what the verifier matches in its    *)
(* own rows is what wsprnet.org listed.                                    *)
LEMMA MatchingIndexed ==
  ASSUME TypeOK, SeenIndexed
  PROVE  Matching(verifier.seen) \subseteq Mine \cap index
<1> SUFFICES ASSUME NEW r \in Matching(verifier.seen)
             PROVE  r \in Mine /\ r \in index
  OBVIOUS
<1>1. r \in Mine /\ KeyOf[r] \in verifier.seen
  BY DEF Matching
<1>2. PICK s \in Mine \cap index : KeyOf[s] = KeyOf[r]
  BY <1>1 DEF SeenIndexed
<1>3. r \in Rows /\ s \in Rows
  BY <1>1, <1>2, ConstantsAssumption DEF ConstantsAssumption
<1>4. r = s
  BY <1>1, <1>2, <1>3, ConstantsAssumption DEF ConstantsAssumption
<1> QED  BY <1>1, <1>2, <1>4

(* What a tick makes of an age is an age, and nothing becomes known by it. *)
LEMMA OlderIsAge ==
  ASSUME NEW n \in Ages \cup {Off}
  PROVE  /\ Older(n) \in Ages \cup {Off}
         /\ Older(n) = Off <=> n = Off
         /\ n # Off => Older(n) \in Nat /\ n \in Nat /\ Older(n) >= n
BY ConstantsAssumption DEF Older, Ages, ConstantsAssumption

LEMMA AuditInvInit == Init => AuditInv
BY ConstantsAssumption
   DEF Init, AuditInv, TypeOK, SeenIndexed, MatchedIndexed, FoundIndexed, world, Unheard,
       Idle, Resting, Ages, Keys, ConstantsAssumption

LEMMA MarksTyped ==
  ASSUME TypeOK, NEW R, MarkVerified(R) \/ MarkDropped(R)
  PROVE  /\ audit' \in [Rows -> [up : Ages \cup {Off}, verified : BOOLEAN, dropped : BOOLEAN]]
         /\ \A r \in Rows : audit'[r].up = Off => audit'[r] = Unheard
<1>1. CASE MarkVerified(R)
  BY <1>1 DEF TypeOK, MarkVerified, Known, Unheard
<1>2. CASE MarkDropped(R)
  BY <1>2 DEF TypeOK, MarkDropped, Droppable, Known, Unheard
<1> QED  BY <1>1, <1>2

(* Every action keeps the invariant.                                       *)
LEMMA AuditInvStep == AuditInv /\ [Next]_vars => AuditInv'
<1> SUFFICES ASSUME AuditInv, [Next]_vars
             PROVE  AuditInv'
  OBVIOUS
<1> USE DEF AuditInv, SeenIndexed, MatchedIndexed, FoundIndexed
<1>0. Mine \subseteq Rows /\ 0 \in Ages /\ TypeOK
  BY ConstantsAssumption DEF ConstantsAssumption, Ages
<1>1. ASSUME NEW r \in Rows, Queue(r)
      PROVE  AuditInv'
  <2>1. 0 # Off
    BY ConstantsAssumption DEF ConstantsAssumption
  <2> QED  BY <1>0, <1>1, <2>1 DEF Queue, TypeOK, Ages, Unheard
<1>2. ASSUME NEW r \in Rows, Tar(r)
      PROVE  AuditInv'
  BY <1>0, <1>2 DEF Tar, TypeOK, Unheard
<1>3. ASSUME NEW r \in Mine, Send(r)
      PROVE  AuditInv'
  BY <1>0, <1>3 DEF Send, TypeOK, Unheard
<1>4. ASSUME NEW r \in Mine, Indexed(r)
      PROVE  AuditInv'
  BY <1>0, <1>4 DEF Indexed, TypeOK, Unheard
<1>5. ASSUME NEW r \in Mine, Acked(r)
      PROVE  AuditInv'
  <2>1. 0 # Off
    BY ConstantsAssumption DEF ConstantsAssumption
  <2>2. audit' \in [Rows -> [up : Ages \cup {Off}, verified : BOOLEAN, dropped : BOOLEAN]]
    BY <1>0, <1>5 DEF Acked, TypeOK
  <2>3. \A s \in Rows : audit'[s].up = Off => audit'[s] = Unheard
    BY <1>0, <1>5, <2>1 DEF Acked, TypeOK
  <2>4. post' \in [Rows -> {"no", "sent", "acked"}]
    BY <1>0, <1>5 DEF Acked, TypeOK
  <2> QED  BY <1>0, <1>5, <2>2, <2>3, <2>4 DEF Acked, TypeOK
<1>6. ASSUME NEW r \in Mine, Failed(r)
      PROVE  AuditInv'
  BY <1>0, <1>6 DEF Failed, TypeOK, Unheard
<1>7. ASSUME Fetch
      PROVE  AuditInv'
  <2>1. verifier'.seen \subseteq Keys
    BY <1>0, <1>7 DEF Fetch, Idle, Keys, TypeOK
  <2> QED  BY <1>0, <1>7, <2>1 DEF Fetch, Idle, TypeOK, Unheard, world
<1>8. ASSUME Flush
      PROVE  AuditInv'
  BY <1>0, <1>8, MatchingIndexed DEF Flush, TypeOK, Unheard
<1>9. ASSUME DropOld
      PROVE  AuditInv'
  BY <1>0, <1>9 DEF DropOld, Old, TypeOK, Unheard
<1>10. ASSUME VerifierMarks
       PROVE  AuditInv'
  <2>1. PICK R : MarkVerified(R) \/ MarkDropped(R)
    BY <1>10 DEF VerifierMarks
  <2> QED  BY <1>0, <1>10, <2>1, MarksTyped DEF VerifierMarks, Done, Idle, TypeOK, world, Unheard
<1>11. ASSUME Load
       PROVE  AuditInv'
  BY <1>0, <1>11 DEF Load, Resting, TypeOK, world, Unheard
<1>12. ASSUME Ask
       PROVE  AuditInv'
  <2>1. CASE backstop' = Done(Resting)
    BY <1>0, <1>12, <2>1 DEF Ask, Done, Resting, TypeOK, world, Unheard
  <2>2. CASE backstop' = [backstop EXCEPT !.pc = "answered",
                            !.found = {r \in backstop.candidates \cap index : InSpan(r)}]
    <3>1. /\ backstop'.found = {r \in backstop.candidates \cap index : InSpan(r)}
          /\ backstop' = [pc |-> "answered", candidates |-> backstop.candidates,
                          found |-> backstop'.found]
      BY <1>0, <2>2 DEF TypeOK
    <3> QED  BY <1>0, <1>12, <3>1 DEF Ask, TypeOK, world, Unheard
  <2> QED  BY <1>12, <2>1, <2>2 DEF Ask
<1>13. ASSUME BackstopMarks
       PROVE  AuditInv'
  <2>1. PICK R : MarkVerified(R) \/ MarkDropped(R)
    BY <1>13 DEF BackstopMarks
  <2> QED  BY <1>0, <1>13, <2>1, MarksTyped DEF BackstopMarks, Done, Resting, TypeOK, world, Unheard
<1>14. ASSUME Prune
       PROVE  AuditInv'
  BY <1>0, <1>14 DEF Prune, Known, TypeOK, world, Unheard
<1>15. ASSUME Restart
       PROVE  AuditInv'
  BY <1>0, <1>15, ConstantsAssumption
     DEF Restart, Idle, Resting, TypeOK, Unheard, ConstantsAssumption
<1>16. ASSUME Tick
       PROVE  AuditInv'
  <2>1. \A r \in Rows : Older(age[r]) \in Ages \cup {Off} /\ (Older(age[r]) = Off <=> age[r] = Off)
    BY <1>0, OlderIsAge DEF TypeOK
  <2>2. \A r \in Rows : Older(audit[r].up) \in Ages \cup {Off}
                        /\ (Older(audit[r].up) = Off <=> audit[r].up = Off)
    BY <1>0, OlderIsAge DEF TypeOK
  <2>3. /\ audit' \in [Rows -> [up : Ages \cup {Off}, verified : BOOLEAN, dropped : BOOLEAN]]
        /\ \A r \in Rows : audit'[r].up = Off => audit'[r] = Unheard
    <3>1. \A r \in Rows : audit'[r] = [up |-> Older(audit[r].up),
                                     verified |-> audit[r].verified, dropped |-> audit[r].dropped]
      BY <1>0, <1>16 DEF Tick, TypeOK
    <3>2. audit' = [r \in Rows |-> audit'[r]]
      BY <1>16 DEF Tick
    <3>3. \A r \in Rows : audit'[r].up = Older(audit[r].up)
      BY <1>0, <1>16 DEF Tick, TypeOK
    <3>4. ASSUME NEW r \in Rows, audit'[r].up = Off
          PROVE  audit'[r] = Unheard
      <4>1. audit[r].up = Off /\ Older(audit[r].up) = Off
        BY <2>2, <3>4, <3>3
      <4>2. audit[r] = Unheard
        BY <1>0, <4>1 DEF TypeOK
      <4> QED  BY <3>1, <4>1, <4>2 DEF Unheard
    <3> QED  BY <1>0, <2>2, <3>1, <3>2, <3>4 DEF TypeOK
  <2>4. age' \in [Rows -> Ages \cup {Off}]
    BY <1>16, <2>1 DEF Tick
  <2>5. queue' \subseteq {r \in Rows : age'[r] # Off}
    BY <1>0, <1>16, <2>1 DEF Tick, TypeOK
  <2>6. verifier' = Idle /\ backstop' = Resting
    BY <1>16 DEF Tick
  <2>7. UNCHANGED <<queue, tarred, post, index, restarts>>
    BY <1>16 DEF Tick
  <2>8. verifier'.seen = {} /\ verifier'.matched = {} /\ backstop'.found = {}
    BY <2>6 DEF Idle, Resting
  <2>9. TypeOK'
    BY <1>0, <2>3, <2>4, <2>5, <2>6, <2>7 DEF Idle, Resting, TypeOK
  <2> QED  BY <2>8, <2>9
<1>17. CASE UNCHANGED vars
  BY <1>0, <1>17 DEF vars, world, TypeOK, Unheard
<1> QED
  BY <1>1, <1>2, <1>3, <1>4, <1>5, <1>6, <1>7, <1>8, <1>9, <1>10, <1>11, <1>12, <1>13,
     <1>14, <1>15, <1>16, <1>17
     DEF Next, Verifier, Backstop

LEMMA AuditInvAlways == Spec => []AuditInv
<1> QED  BY AuditInvInit, AuditInvStep, PTL DEF Spec

(* What is kept about the rows, the passes and the audit table is of its   *)
(* type in every reachable state.                                          *)
THEOREM TypeCorrect == Spec => []TypeOK
<1>1. AuditInv => TypeOK
  BY DEF AuditInv
<1> QED  BY <1>1, AuditInvAlways, PTL

-----------------------------------------------------------------------------
(* The verdict on a row of the audit table, and that its cases are         *)
(* disjoint and exhaustive.                                                *)
AuditRows == [up : Ages \cup {Off}, verified : BOOLEAN, dropped : BOOLEAN]

VerdictOf(a) ==
  CASE ~(a.up # Off) -> "none"
    [] a.verified -> IF a.dropped THEN "found late" ELSE "verified"
    [] OTHER -> IF a.dropped THEN "lost" ELSE "in flight"

LEMMA VerdictCases ==
  ASSUME NEW a \in AuditRows, a.up = Off => a = Unheard
  PROVE  /\ a.up = Off => VerdictOf(a) = "none"
         /\ a.up # Off /\ a.verified = TRUE /\ a.dropped = TRUE => VerdictOf(a) = "found late"
         /\ a.up # Off /\ a.verified = TRUE /\ a.dropped = FALSE => VerdictOf(a) = "verified"
         /\ a.up # Off /\ a.verified = FALSE /\ a.dropped = TRUE => VerdictOf(a) = "lost"
         /\ a.up # Off /\ a.verified = FALSE /\ a.dropped = FALSE => VerdictOf(a) = "in flight"
         /\ VerdictOf(a) \in {"none", "in flight", "verified", "lost", "found late"}
<1>1. a.verified \in BOOLEAN /\ a.dropped \in BOOLEAN
  BY DEF AuditRows
<1>2. a.up = Off => a.verified = FALSE
  BY DEF Unheard
<1>3. CASE a.up = Off
  BY <1>2, <1>3 DEF VerdictOf
<1>4. CASE a.up # Off /\ a.verified = TRUE /\ a.dropped = TRUE
  BY <1>4 DEF VerdictOf
<1>5. CASE a.up # Off /\ a.verified = TRUE /\ a.dropped = FALSE
  BY <1>5 DEF VerdictOf
<1>6. CASE a.up # Off /\ a.verified = FALSE /\ a.dropped = TRUE
  BY <1>6 DEF VerdictOf
<1>7. CASE a.up # Off /\ a.verified = FALSE /\ a.dropped = FALSE
  BY <1>7 DEF VerdictOf
<1> QED  BY <1>1, <1>3, <1>4, <1>5, <1>6, <1>7

(* The state function the refinement maps the ledger's verdicts to.        *)
VerdictMap == [r \in Rows |-> Verdict(r)]

LEMMA VerdictMapOf == VerdictMap = [r \in Rows |-> VerdictOf(audit[r])]
BY DEF VerdictMap, Verdict, VerdictOf, Known

LEMMA VerdictMapOfNext == VerdictMap' = [r \in Rows |-> VerdictOf(audit'[r])]
BY DEF VerdictMap, Verdict, VerdictOf, Known

(* A change of the audit table row by row, to what the ledger's change of  *)
(* the verdicts of S makes of them, judges S.                              *)
LEMMA JudgeRows ==
  ASSUME NEW S \in SUBSET Rows, NEW change, index' = index,
         \A r \in S : /\ VerdictOf(audit[r]) \in DOMAIN change
                      /\ VerdictOf(audit'[r]) = change[VerdictOf(audit[r])],
         \A r \in Rows \ S : VerdictOf(audit'[r]) = VerdictOf(audit[r])
  PROVE  Ledger!Judge(S, change)
<1>1. \A r \in Rows : VerdictMap[r] = VerdictOf(audit[r])
  BY VerdictMapOf
<1>2. VerdictMap' = [r \in Rows |-> IF r \in S THEN change[VerdictMap[r]] ELSE VerdictMap[r]]
  BY <1>1, VerdictMapOfNext
<1>3. \A r \in S : VerdictMap[r] \in DOMAIN change
  BY <1>1
<1> QED  BY <1>2, <1>3 DEF Ledger!Judge, VerdictMap

LEMMA SameVerdicts ==
  ASSUME index' = index, \A r \in Rows : VerdictOf(audit'[r]) = VerdictOf(audit[r])
  PROVE  UNCHANGED Ledger!vars
<1>1. VerdictMap' = VerdictMap
  BY VerdictMapOf, VerdictMapOfNext
<1> QED  BY <1>1 DEF Ledger!vars, VerdictMap

(* mark_verified verifies those of its rows that are in flight or lost.    *)
LEMMA MarkVerifiedVerifies ==
  ASSUME TypeOK, TypeOK', NEW R \in SUBSET index, MarkVerified(R), index' = index
  PROVE  \E S \in SUBSET Rows : Ledger!Verify(S)
<1> DEFINE S == {r \in Rows \cap R : Known(r) /\ audit[r].verified = FALSE}
           change == [v \in {"in flight", "lost"} |-> IF v = "lost" THEN "found late" ELSE "verified"]
<1>1. \A r \in Rows : /\ audit[r] \in AuditRows /\ (audit[r].up = Off => audit[r] = Unheard)
                      /\ audit[r].verified \in BOOLEAN /\ audit[r].dropped \in BOOLEAN
  BY DEF TypeOK, AuditRows
<1>2. \A r \in Rows : audit'[r] \in AuditRows /\ (audit'[r].up = Off => audit'[r] = Unheard)
  BY DEF TypeOK, AuditRows
<1>3. ASSUME NEW r \in S
      PROVE  /\ VerdictOf(audit[r]) \in DOMAIN change
             /\ VerdictOf(audit'[r]) = change[VerdictOf(audit[r])]
  <2>1. audit'[r] = [up |-> audit[r].up, verified |-> TRUE, dropped |-> audit[r].dropped]
    BY <1>1 DEF MarkVerified, AuditRows
  <2>2. audit[r].up # Off /\ audit[r].verified = FALSE
    BY DEF Known
  <2>3. CASE audit[r].dropped = TRUE
    <3>1. VerdictOf(audit[r]) = "lost"
      BY <1>1, <2>2, <2>3, VerdictCases
    <3>2. VerdictOf(audit'[r]) = "found late"
      BY <1>2, <2>1, <2>2, <2>3, VerdictCases
    <3> QED  BY <3>1, <3>2
  <2>4. CASE audit[r].dropped = FALSE
    <3>1. VerdictOf(audit[r]) = "in flight"
      BY <1>1, <2>2, <2>4, VerdictCases
    <3>2. VerdictOf(audit'[r]) = "verified"
      BY <1>2, <2>1, <2>2, <2>4, VerdictCases
    <3> QED  BY <3>1, <3>2
  <2> QED  BY <1>1, <2>3, <2>4
<1>4. ASSUME NEW r \in Rows \ S
      PROVE  VerdictOf(audit'[r]) = VerdictOf(audit[r])
  <2>1. audit'[r] = audit[r]
    <3>1. CASE r \in R /\ Known(r)
      <4>1. audit[r].verified = TRUE
        BY <1>1, <3>1
      <4> QED  BY <1>1, <3>1, <4>1 DEF MarkVerified, AuditRows
    <3>2. CASE ~(r \in R /\ Known(r))
      BY <3>2 DEF MarkVerified
    <3> QED  BY <3>1, <3>2
  <2> QED  BY <2>1
<1>5. Ledger!Judge(S, change)
  <2> HIDE DEF S, change
  <2>1. S \in SUBSET Rows
    BY DEF S
  <2> QED  BY <1>3, <1>4, <2>1, JudgeRows
<1> QED  BY <1>5 DEF Ledger!Verify

(* mark_dropped gives up what is in flight, and nothing else.              *)
LEMMA MarkDroppedLoses ==
  ASSUME TypeOK, TypeOK', NEW R, MarkDropped(R), index' = index
  PROVE  \E S \in SUBSET Rows : Ledger!Lose(S)
<1> DEFINE S == {r \in Rows \cap R : Droppable(r)}
           change == [v \in {"in flight"} |-> "lost"]
<1>1. \A r \in Rows : /\ audit[r] \in AuditRows /\ (audit[r].up = Off => audit[r] = Unheard)
                      /\ audit[r].verified \in BOOLEAN /\ audit[r].dropped \in BOOLEAN
  BY DEF TypeOK, AuditRows
<1>2. \A r \in Rows : audit'[r] \in AuditRows /\ (audit'[r].up = Off => audit'[r] = Unheard)
  BY DEF TypeOK, AuditRows
<1>3. ASSUME NEW r \in S
      PROVE  /\ VerdictOf(audit[r]) \in DOMAIN change
             /\ VerdictOf(audit'[r]) = change[VerdictOf(audit[r])]
  <2>1. audit'[r] = [up |-> audit[r].up, verified |-> audit[r].verified, dropped |-> TRUE]
    BY <1>1 DEF MarkDropped, AuditRows
  <2>2. audit[r].up # Off /\ audit[r].verified = FALSE /\ audit[r].dropped = FALSE
    BY <1>1 DEF Droppable, Known
  <2>3. VerdictOf(audit[r]) = "in flight"
    BY <1>1, <2>2, VerdictCases
  <2>4. VerdictOf(audit'[r]) = "lost"
    BY <1>2, <2>1, <2>2, VerdictCases
  <2> QED  BY <2>3, <2>4
<1>4. ASSUME NEW r \in Rows \ S
      PROVE  VerdictOf(audit'[r]) = VerdictOf(audit[r])
  <2>1. audit'[r] = audit[r]
    BY DEF MarkDropped
  <2> QED  BY <2>1
<1>5. Ledger!Judge(S, change)
  <2> HIDE DEF S, change
  <2>1. S \in SUBSET Rows
    BY DEF S
  <2> QED  BY <1>3, <1>4, <2>1, JudgeRows
<1> QED  BY <1>5 DEF Ledger!Lose

(* record_batch ships a row that the table does not know.                  *)
LEMMA AckedShips ==
  ASSUME TypeOK, TypeOK', NEW r \in Rows, Acked(r), audit[r].up = Off
  PROVE  Ledger!Ship({r})
<1> DEFINE change == [v \in {"none"} |-> "in flight"]
<1>1. \A s \in Rows : audit[s] \in AuditRows /\ (audit[s].up = Off => audit[s] = Unheard)
  BY DEF TypeOK, AuditRows
<1>2. \A s \in Rows : audit'[s] \in AuditRows /\ (audit'[s].up = Off => audit'[s] = Unheard)
  BY DEF TypeOK, AuditRows
<1>3. VerdictOf(audit[r]) = "none"
  BY <1>1, VerdictCases
<1>4. 0 # Off
  BY ConstantsAssumption DEF ConstantsAssumption
<1>5. audit[r] = Unheard
  BY <1>1
<1>6. audit' = [audit EXCEPT ![r].up = 0]
  BY DEF Acked
<1>7. VerdictOf(audit'[r]) = "in flight"
  <2>1. /\ audit'[r].up = 0
        /\ audit'[r].verified = audit[r].verified
        /\ audit'[r].dropped = audit[r].dropped
    BY <1>1, <1>6 DEF TypeOK, AuditRows
  <2>2. audit'[r].up # Off /\ audit'[r].verified = FALSE /\ audit'[r].dropped = FALSE
    BY <1>4, <1>5, <2>1 DEF Unheard
  <2> QED  BY <1>2, <2>2, VerdictCases
<1>8. \A s \in Rows \ {r} : VerdictOf(audit'[s]) = VerdictOf(audit[s])
  <2>1. \A s \in Rows \ {r} : audit'[s] = audit[s]
    BY DEF Acked, TypeOK
  <2> QED  BY <2>1
<1>9. Ledger!Judge({r}, change)
  <2>1. /\ VerdictOf(audit[r]) \in DOMAIN change
        /\ VerdictOf(audit'[r]) = change[VerdictOf(audit[r])]
    BY <1>3, <1>7
  <2>2. {r} \in SUBSET Rows /\ index' = index
    BY DEF Acked
  <2> HIDE DEF change
  <2> QED  BY <1>8, <2>1, <2>2, JudgeRows
<1> QED  BY <1>9 DEF Ledger!Ship

(* prune forgets the rows that are old.                                    *)
LEMMA PruneForgets ==
  ASSUME TypeOK, TypeOK', Prune
  PROVE  \E S \in SUBSET Rows : Ledger!Forget(S)
<1> DEFINE S == {r \in Rows : Known(r) /\ audit[r].up > Retention}
           change == [v \in Ledger!Verdicts |-> "none"]
<1>1. \A r \in Rows : audit[r] \in AuditRows /\ (audit[r].up = Off => audit[r] = Unheard)
  BY DEF TypeOK, AuditRows
<1>2. \A r \in Rows : audit'[r] \in AuditRows /\ (audit'[r].up = Off => audit'[r] = Unheard)
  BY DEF TypeOK, AuditRows
<1>3. ASSUME NEW r \in S
      PROVE  /\ VerdictOf(audit[r]) \in DOMAIN change
             /\ VerdictOf(audit'[r]) = change[VerdictOf(audit[r])]
  <2>1. audit'[r].up = Off
    BY DEF Prune, Unheard
  <2>2. VerdictOf(audit'[r]) = "none"
    BY <1>2, <2>1, VerdictCases
  <2>3. VerdictOf(audit[r]) \in Ledger!Verdicts
    BY <1>1, VerdictCases DEF Ledger!Verdicts
  <2> QED  BY <2>2, <2>3
<1>4. ASSUME NEW r \in Rows \ S
      PROVE  VerdictOf(audit'[r]) = VerdictOf(audit[r])
  <2>1. audit'[r] = audit[r]
    BY DEF Prune
  <2> QED  BY <2>1
<1>5. Ledger!Judge(S, change)
  <2>1. S \in SUBSET Rows /\ index' = index
    BY DEF Prune, world
  <2> HIDE DEF S, change
  <2> QED  BY <1>3, <1>4, <2>1, JudgeRows
<1> QED  BY <1>5 DEF Ledger!Forget

(* Time makes the rows older and changes no verdict.                       *)
LEMMA TickKeepsVerdicts ==
  ASSUME TypeOK, TypeOK', Tick
  PROVE  UNCHANGED Ledger!vars
<1>1. \A r \in Rows : audit[r] \in AuditRows /\ (audit[r].up = Off => audit[r] = Unheard)
  BY DEF TypeOK, AuditRows
<1>2. \A r \in Rows : audit'[r] \in AuditRows /\ (audit'[r].up = Off => audit'[r] = Unheard)
  BY DEF TypeOK, AuditRows
<1>3. \A r \in Rows : /\ audit'[r].up = Older(audit[r].up)
                      /\ audit'[r].verified = audit[r].verified
                      /\ audit'[r].dropped = audit[r].dropped
  BY <1>1 DEF Tick, AuditRows
<1>4. \A r \in Rows : audit'[r].up = Off <=> audit[r].up = Off
  BY <1>1, <1>3, OlderIsAge DEF AuditRows
<1>5. ASSUME NEW r \in Rows
      PROVE  VerdictOf(audit'[r]) = VerdictOf(audit[r])
  <2>1. audit[r].verified \in BOOLEAN /\ audit[r].dropped \in BOOLEAN
    BY <1>1 DEF AuditRows
  <2>2. CASE audit[r].up = Off
    <3>1. VerdictOf(audit[r]) = "none"
      BY <1>1, <2>2, VerdictCases
    <3>2. VerdictOf(audit'[r]) = "none"
      BY <1>2, <1>4, <2>2, VerdictCases
    <3> QED  BY <3>1, <3>2
  <2>3. CASE audit[r].up # Off
    <3>1. audit'[r].up # Off
      BY <1>4, <2>3
    <3>2. CASE audit[r].verified = TRUE /\ audit[r].dropped = TRUE
      <4>1. VerdictOf(audit[r]) = "found late"
        BY <1>1, <2>3, <3>2, VerdictCases
      <4>2. VerdictOf(audit'[r]) = "found late"
        BY <1>2, <1>3, <3>1, <3>2, VerdictCases
      <4> QED  BY <4>1, <4>2
    <3>3. CASE audit[r].verified = TRUE /\ audit[r].dropped = FALSE
      <4>1. VerdictOf(audit[r]) = "verified"
        BY <1>1, <2>3, <3>3, VerdictCases
      <4>2. VerdictOf(audit'[r]) = "verified"
        BY <1>2, <1>3, <3>1, <3>3, VerdictCases
      <4> QED  BY <4>1, <4>2
    <3>4. CASE audit[r].verified = FALSE /\ audit[r].dropped = TRUE
      <4>1. VerdictOf(audit[r]) = "lost"
        BY <1>1, <2>3, <3>4, VerdictCases
      <4>2. VerdictOf(audit'[r]) = "lost"
        BY <1>2, <1>3, <3>1, <3>4, VerdictCases
      <4> QED  BY <4>1, <4>2
    <3>5. CASE audit[r].verified = FALSE /\ audit[r].dropped = FALSE
      <4>1. VerdictOf(audit[r]) = "in flight"
        BY <1>1, <2>3, <3>5, VerdictCases
      <4>2. VerdictOf(audit'[r]) = "in flight"
        BY <1>2, <1>3, <3>1, <3>5, VerdictCases
      <4> QED  BY <4>1, <4>2
    <3> QED  BY <2>1, <3>2, <3>3, <3>4, <3>5
  <2> QED  BY <2>2, <2>3
<1> QED  BY <1>5, SameVerdicts DEF Tick

LEMMA LedgerInit == Init => Ledger!Init
<1> SUFFICES ASSUME Init
             PROVE  Ledger!Init
  OBVIOUS
<1>1. TypeOK
  BY AuditInvInit DEF AuditInv
<1>2. \A r \in Rows : audit[r] = Unheard
  BY DEF Init
<1>3. ASSUME NEW r \in Rows
      PROVE  VerdictOf(audit[r]) = "none"
  <2>1. audit[r] \in AuditRows
    BY <1>1 DEF TypeOK, AuditRows
  <2>2. audit[r] = Unheard
    BY <1>2
  <2>3. audit[r].up = Off
    BY <2>2 DEF Unheard
  <2> QED  BY <2>1, <2>2, <2>3, VerdictCases
<1>4. VerdictMap = [r \in Rows |-> "none"]
  BY <1>3, VerdictMapOf
<1>5. index = {}
  BY DEF Init
<1> QED  BY <1>4, <1>5 DEF Ledger!Init, VerdictMap

(* Every step is one of the ledger, or none.                               *)
LEMMA LedgerStep ==
  ASSUME AuditInv, AuditInv', [Next]_vars
  PROVE  [Ledger!Next]_(Ledger!vars)
<1> USE DEF AuditInv
<1>0. Mine \subseteq Rows
  BY ConstantsAssumption DEF ConstantsAssumption
<1>1. CASE UNCHANGED <<audit, index>>
  BY <1>1, SameVerdicts
<1>2. ASSUME NEW r \in Mine, Indexed(r)
      PROVE  Ledger!Next
  <2>1. VerdictMap' = VerdictMap
    BY <1>2, VerdictMapOf, VerdictMapOfNext DEF Indexed
  <2>2. Ledger!Index({r})
    BY <1>2, <2>1 DEF Ledger!Index, Indexed, VerdictMap
  <2>3. {r} \in SUBSET Rows
    BY <1>0
  <2> QED  BY <2>2, <2>3 DEF Ledger!Next
<1>3. ASSUME NEW r \in Mine, Acked(r)
      PROVE  [Ledger!Next]_(Ledger!vars)
  <2>1. CASE audit[r].up = Off
    <3>1. Ledger!Ship({r})
      BY <1>0, <1>3, <2>1, AckedShips
    <3> QED  BY <1>0, <3>1 DEF Ledger!Next
  <2>2. CASE audit[r].up # Off
    BY <1>3, <2>2, SameVerdicts DEF Acked
  <2> QED  BY <2>1, <2>2
<1>4. ASSUME VerifierMarks
      PROVE  Ledger!Next
  <2>1. index' = index /\ verifier.matched \in SUBSET index
    BY <1>4 DEF VerifierMarks, world, MatchedIndexed
  <2>2. CASE MarkVerified(verifier.matched)
    BY <2>1, <2>2, MarkVerifiedVerifies DEF Ledger!Next
  <2>3. CASE MarkDropped(verifier.old)
    BY <2>1, <2>3, MarkDroppedLoses DEF Ledger!Next
  <2> QED  BY <1>4, <2>2, <2>3 DEF VerifierMarks
<1>5. ASSUME BackstopMarks
      PROVE  Ledger!Next
  <2>1. index' = index /\ backstop.found \in SUBSET index
    BY <1>5 DEF BackstopMarks, world, FoundIndexed
  <2>2. CASE MarkVerified(backstop.found)
    BY <2>1, <2>2, MarkVerifiedVerifies DEF Ledger!Next
  <2>3. CASE MarkDropped(Lost)
    BY <2>1, <2>3, MarkDroppedLoses DEF Ledger!Next
  <2> QED  BY <1>5, <2>2, <2>3 DEF BackstopMarks
<1>6. ASSUME Prune
      PROVE  Ledger!Next
  BY <1>6, PruneForgets DEF Ledger!Next
<1>7. ASSUME Tick
      PROVE  UNCHANGED Ledger!vars
  BY <1>7, TickKeepsVerdicts
<1>8. ASSUME \/ \E r \in Rows : Queue(r) \/ Tar(r)
             \/ \E r \in Mine : Send(r) \/ Failed(r)
             \/ Fetch \/ Flush \/ DropOld \/ Load \/ Ask \/ Restart
      PROVE  UNCHANGED <<audit, index>>
  BY <1>8 DEF Queue, Tar, Send, Failed, Fetch, Flush, DropOld, Load, Ask, Restart, world
<1>9. CASE UNCHANGED vars
  BY <1>1, <1>9 DEF vars, world
<1> QED
  BY <1>1, <1>2, <1>3, <1>4, <1>5, <1>6, <1>7, <1>8, <1>9 DEF Next, Verifier, Backstop

(* The audit table implements the ledger: however the pump, the verifier,  *)
(* the backstop and a restart meet, nothing verified is ever given up, and *)
(* only what wsprnet.org has indexed is verified (wsprnet_audit.py:495).   *)
THEOREM TableIsLedger == Spec => AuditRefines
<1>1. AuditInv /\ AuditInv' /\ [Next]_vars => [Ledger!Next]_(Ledger!vars)
  BY LedgerStep
<1> QED  BY <1>1, LedgerInit, AuditInvAlways, PTL DEF Spec, AuditRefines, Ledger!Spec

-----------------------------------------------------------------------------
(* The verifier takes no other's rows from the queue, and of its own none  *)
(* that is young and not indexed (wsprnet_verifier.py:170).                *)
THEOREM NothingDeletedEarly == Spec => []NoEarlyDelete
<1>1. Init => NoEarlyDelete
  BY DEF Init, NoEarlyDelete, world
<1>2. AuditInv /\ NoEarlyDelete /\ [Next]_vars => NoEarlyDelete'
  <2> SUFFICES ASSUME AuditInv, NoEarlyDelete, [Next]_vars
               PROVE  NoEarlyDelete'
    OBVIOUS
  <2>0. TypeOK /\ SeenIndexed /\ DropAfter \in Nat
    BY ConstantsAssumption DEF AuditInv, ConstantsAssumption
  <2>1. ASSUME NEW r \in Rows, Queue(r)
        PROVE  NoEarlyDelete'
    BY <2>0, <2>1 DEF Queue, TypeOK, NoEarlyDelete
  <2>2. ASSUME NEW r \in Mine, Indexed(r)
        PROVE  NoEarlyDelete'
    BY <2>2 DEF Indexed, NoEarlyDelete
  <2>3. ASSUME Flush
        PROVE  NoEarlyDelete'
    BY <2>0, <2>3, MatchingIndexed DEF Flush, NoEarlyDelete
  <2>4. ASSUME DropOld
        PROVE  NoEarlyDelete'
    BY <2>4 DEF DropOld, Old, NoEarlyDelete
  <2>5. ASSUME Tick
        PROVE  NoEarlyDelete'
    <3> SUFFICES ASSUME NEW r \in Rows, age'[r] # Off, r \notin queue'
                 PROVE  r \in Mine /\ (r \in index' \/ age'[r] > DropAfter)
      BY DEF NoEarlyDelete
    <3>1. age'[r] = Older(age[r]) /\ age[r] \in Ages \cup {Off}
      BY <2>0, <2>5 DEF Tick, TypeOK
    <3>2. age[r] # Off /\ age[r] \in Nat /\ age'[r] \in Nat /\ age'[r] >= age[r]
      BY <3>1, OlderIsAge
    <3>3. r \in Mine /\ (r \in index \/ age[r] > DropAfter)
      BY <2>5, <3>2 DEF Tick, NoEarlyDelete
    <3> QED  BY <2>0, <2>5, <3>2, <3>3 DEF Tick
  <2>6. ASSUME \/ \E r \in Rows : Tar(r)
               \/ \E r \in Mine : Send(r) \/ Acked(r) \/ Failed(r)
               \/ Fetch \/ VerifierMarks \/ Load \/ Backstop \/ Prune \/ Restart
               \/ UNCHANGED vars
        PROVE  UNCHANGED <<age, queue, index>>
    BY <2>6 DEF Tar, Send, Acked, Failed, Fetch, VerifierMarks, Load, Backstop, Ask,
                BackstopMarks, Prune, Restart, vars, world
  <2> QED
    BY <2>1, <2>2, <2>3, <2>4, <2>5, <2>6 DEF Next, Verifier, NoEarlyDelete
<1> QED  BY <1>1, <1>2, AuditInvAlways, PTL DEF Spec

-----------------------------------------------------------------------------
(* A mark is of what was seen in the index.                                *)
VerifiedRows == \A r \in Rows : audit[r].verified = TRUE => r \in index

LEMMA MarkVerifiedTruthful ==
  ASSUME TypeOK, VerifiedRows, NEW R \in SUBSET index, MarkVerified(R), index' = index
  PROVE  VerifiedRows'
BY DEF TypeOK, VerifiedRows, MarkVerified

LEMMA MarkDroppedTruthful ==
  ASSUME TypeOK, VerifiedRows, NEW R, MarkDropped(R), index' = index
  PROVE  VerifiedRows'
BY DEF TypeOK, VerifiedRows, MarkDropped

(* What the audit reports as verified has reached wsprnet.org, as the      *)
(* ledger promises to its readers (wsprnet_audit.py:495).                  *)
THEOREM VerdictsTruthful == Spec => []Ledger!VerifiedIndexed
<1>1. Init => VerifiedRows
  BY DEF Init, VerifiedRows, Unheard
<1>2. AuditInv /\ VerifiedRows /\ [Next]_vars => VerifiedRows'
  <2> SUFFICES ASSUME AuditInv, VerifiedRows, [Next]_vars
               PROVE  VerifiedRows'
    OBVIOUS
  <2>0. TypeOK /\ Mine \subseteq Rows
    BY ConstantsAssumption DEF AuditInv, ConstantsAssumption
  <2>1. CASE VerifierMarks
    BY <2>0, <2>1, MarkVerifiedTruthful, MarkDroppedTruthful
       DEF VerifierMarks, AuditInv, MatchedIndexed, world
  <2>2. CASE BackstopMarks
    BY <2>0, <2>2, MarkVerifiedTruthful, MarkDroppedTruthful
       DEF BackstopMarks, AuditInv, FoundIndexed, world
  <2>3. ASSUME NEW r \in Mine, Indexed(r) \/ Acked(r)
        PROVE  VerifiedRows'
    BY <2>0, <2>3 DEF Indexed, Acked, VerifiedRows, TypeOK
  <2>4. CASE Prune
    BY <2>4 DEF Prune, VerifiedRows, Unheard, world
  <2>5. CASE Tick
    BY <2>0, <2>5 DEF Tick, VerifiedRows, TypeOK
  <2>6. ASSUME \/ \E r \in Rows : Queue(r) \/ Tar(r)
               \/ \E r \in Mine : Send(r) \/ Failed(r)
               \/ Fetch \/ Flush \/ DropOld \/ Load \/ Ask \/ Restart \/ UNCHANGED vars
        PROVE  UNCHANGED <<audit, index>>
    BY <2>6 DEF Queue, Tar, Send, Failed, Fetch, Flush, DropOld, Load, Ask, Restart, vars, world
  <2> QED
    BY <2>1, <2>2, <2>3, <2>4, <2>5, <2>6 DEF Next, Verifier, Backstop, VerifiedRows
<1>3. AuditInv /\ VerifiedRows => Ledger!VerifiedIndexed
  <2> SUFFICES ASSUME AuditInv, VerifiedRows, NEW r \in Rows,
                      VerdictMap[r] \in {"verified", "found late"}
               PROVE  r \in index
    BY DEF Ledger!VerifiedIndexed, VerdictMap
  <2>1. /\ audit[r] \in AuditRows /\ (audit[r].up = Off => audit[r] = Unheard)
        /\ audit[r].verified \in BOOLEAN /\ audit[r].dropped \in BOOLEAN
    BY DEF AuditInv, TypeOK, AuditRows
  <2>2. VerdictOf(audit[r]) \in {"verified", "found late"}
    BY VerdictMapOf
  <2>3. audit[r].verified = TRUE
    <3>1. CASE audit[r].up = Off
      BY <2>1, <2>2, <3>1, VerdictCases
    <3>2. CASE audit[r].up # Off /\ audit[r].verified = FALSE /\ audit[r].dropped = TRUE
      BY <2>1, <2>2, <3>2, VerdictCases
    <3>3. CASE audit[r].up # Off /\ audit[r].verified = FALSE /\ audit[r].dropped = FALSE
      BY <2>1, <2>2, <3>3, VerdictCases
    <3> QED  BY <2>1, <3>1, <3>2, <3>3
  <2> QED  BY <2>3 DEF VerifiedRows
<1> QED  BY <1>1, <1>2, <1>3, AuditInvAlways, PTL DEF Spec
=============================================================================
