---------------------------- MODULE UploadAudit ----------------------------
(***************************************************************************)
(* What becomes of the rows of the upload queue (sink.db) that two         *)
(* receivers share: the pump ships them to wsprdaemon.org and posts them   *)
(* to wsprnet.org, whose index fills when it likes; one receiver's         *)
(* verifier (wsprnet_verifier.py) deletes what it finds there and what has *)
(* grown old; its mirror backstop (wsprnet_mirror_backstop.py) looks for   *)
(* what is left unresolved; and the audit table (wsprnet_audit.py) keeps   *)
(* their verdicts.  Every transaction on the database is a step.  A row    *)
(* stands for its spot as well; time passes in steps between passes.       *)
(***************************************************************************)
EXTENDS Naturals, FiniteSets

CONSTANTS
  Rows,
  Mine,        (* those of the verifier's reporter                         *)
  KeyOf,       (* time, call and frequency; one row per key and reporter   *)
  Window,      (* VERIFY_WINDOW_MIN                                        *)
  DropAfter,   (* DROP_AFTER_SEC                                           *)
  MinAge, LossAfter, MaxSpan,  (* of the backstop                          *)
  Retention,   (* DEFAULT_RETENTION_HOURS                                  *)
  MaxAge,      (* ages count up to here                                    *)
  MaxRestarts, (* bound on passes cut short                                *)
  Verifying,   (* WD_VERIFY_FLUSH                                          *)
  Off

ASSUME ConstantsAssumption ==
  /\ Mine \subseteq Rows /\ KeyOf \in [Rows -> {KeyOf[r] : r \in Rows}]
  /\ \A r, s \in Rows : KeyOf[r] = KeyOf[s] /\ (r \in Mine <=> s \in Mine) => r = s
  /\ {Window, DropAfter, MinAge, LossAfter, MaxSpan, Retention, MaxAge,
      MaxRestarts} \subseteq Nat
  /\ Window < MaxAge /\ DropAfter < MaxAge /\ LossAfter <= MaxAge /\ Retention < MaxAge
  /\ Verifying \in BOOLEAN /\ Off \notin Nat

VARIABLES
  age,       (* of each row since it was queued, Off before                *)
  queue,     (* pending_uploads                                            *)
  tarred,    (* rows wsprdaemon.org has                                    *)
  post,      (* each row's way to wsprnet.org                              *)
  index,     (* rows wsprnet.org has indexed                               *)
  audit,     (* wsprnet_audit: age since uploaded_at, verified, dropped    *)
  verifier,  (* where its pass is, the keys it saw and the rows to mark    *)
  backstop,  (* where its pass is, its candidates and what the mirror had  *)
  restarts

world == <<age, queue, tarred, post, index>>
vars  == <<world, audit, verifier, backstop, restarts>>

Keys == {KeyOf[r] : r \in Rows}
Ages == 0 .. MaxAge
Unheard  == [up |-> Off, verified |-> FALSE, dropped |-> FALSE]
Idle     == [pc |-> "idle", seen |-> {}, matched |-> {}, old |-> {}]
Resting  == [pc |-> "idle", candidates |-> {}, found |-> {}]
Done(pass) == [pass EXCEPT !.pc = "done"]

TypeOK ==
  /\ age \in [Rows -> Ages \cup {Off}]
  /\ queue \subseteq {r \in Rows : age[r] # Off}
  /\ tarred \subseteq Rows /\ index \subseteq Rows
  /\ post \in [Rows -> {"no", "sent", "acked"}]
  /\ audit \in [Rows -> [up : Ages \cup {Off}, verified : BOOLEAN, dropped : BOOLEAN]]
  /\ \A r \in Rows : audit[r].up = Off => audit[r] = Unheard
  /\ verifier \in [pc : {"idle", "fetched", "flushed", "expired", "marked", "done"},
                   seen : SUBSET Keys, matched : SUBSET Rows, old : SUBSET Rows]
  /\ backstop \in [pc : {"idle", "loaded", "answered", "marked", "done"},
                   candidates : SUBSET Rows, found : SUBSET Rows]
  /\ restarts \in 0 .. MaxRestarts

Init ==
  /\ age = [r \in Rows |-> Off] /\ queue = {} /\ tarred = {}
  /\ post = [r \in Rows |-> "no"] /\ index = {}
  /\ audit = [r \in Rows |-> Unheard]
  /\ verifier = Idle /\ backstop = Resting /\ restarts = 0

-----------------------------------------------------------------------------
(* A recorder queues a row; the pump ships it in a tar and posts it.  How  *)
(* the rows of others are posted makes no difference to this reporter.     *)
Queue(r) ==
  /\ age[r] = Off /\ age' = [age EXCEPT ![r] = 0] /\ queue' = queue \cup {r}
  /\ UNCHANGED <<tarred, post, index, audit, verifier, backstop, restarts>>

Tar(r) ==
  /\ r \in queue \ tarred /\ tarred' = tarred \cup {r}
  /\ UNCHANGED <<age, queue, post, index, audit, verifier, backstop, restarts>>

Send(r) ==
  /\ r \in queue /\ post[r] = "no" /\ post' = [post EXCEPT ![r] = "sent"]
  /\ UNCHANGED <<age, queue, tarred, index, audit, verifier, backstop, restarts>>

(* wsprnet.org, long before or after it answers; after it has said failed, *)
(* only once the row is sent again.                                        *)
Indexed(r) ==
  /\ post[r] # "no" /\ r \notin index /\ index' = index \cup {r}
  /\ UNCHANGED <<age, queue, tarred, post, audit, verifier, backstop, restarts>>

(* record_batch, of _on_batch_outcome; a row that is there is left alone.  *)
Acked(r) ==
  /\ post[r] = "sent" /\ post' = [post EXCEPT ![r] = "acked"]
  /\ audit' = IF audit[r].up = Off THEN [audit EXCEPT ![r].up = 0] ELSE audit
  /\ UNCHANGED <<age, queue, tarred, index, verifier, backstop, restarts>>

Failed(r) ==
  /\ post[r] = "sent" /\ post' = [post EXCEPT ![r] = "no"]
  /\ UNCHANGED <<age, queue, tarred, index, audit, verifier, backstop, restarts>>

-----------------------------------------------------------------------------
(* mark_verified and mark_dropped, each a transaction.                     *)
Known(r) == audit[r].up # Off

MarkVerified(R) ==
  audit' = [r \in Rows |-> IF r \in R /\ Known(r) THEN [audit[r] EXCEPT !.verified = TRUE] ELSE audit[r]]

DroppableAny(r) == Known(r) /\ ~audit[r].dropped
Droppable(r)    == Known(r) /\ ~audit[r].verified /\ ~audit[r].dropped

MarkDropped(R) ==
  audit' = [r \in Rows |-> IF r \in R /\ Droppable(r) THEN [audit[r] EXCEPT !.dropped = TRUE] ELSE audit[r]]

-----------------------------------------------------------------------------
(* _verify_and_flush.  The page lists the reporter's spots of the last     *)
(* hour; a fetch that fails ends the pass.                                 *)
Fetch ==
  /\ Verifying /\ verifier.pc = "idle"
  /\ verifier' = [Idle EXCEPT !.pc = "fetched",
                              !.seen = {KeyOf[r] : r \in {s \in Mine \cap index : age[s] <= Window}}]
  /\ UNCHANGED <<world, audit, backstop, restarts>>

(* _matching_rowids, then _delete_by_rowids.                               *)
MatchingAll(keys) == {r \in queue : KeyOf[r] \in keys}
Matching(keys)    == {r \in queue \cap Mine : KeyOf[r] \in keys}

Flush ==
  /\ verifier.pc = "fetched"
  /\ LET matched == Matching(verifier.seen)
     IN  /\ queue' = queue \ matched
         /\ verifier' = [verifier EXCEPT !.pc = "flushed", !.seen = {}, !.matched = matched]
  /\ UNCHANGED <<age, tarred, post, index, audit, backstop, restarts>>

(* _drop_old_unverified.                                                   *)
NoneOld == {}
Old == {r \in queue \cap Mine : age[r] > DropAfter}

DropOld ==
  /\ verifier.pc = "flushed"
  /\ queue' = queue \ Old
  /\ verifier' = [verifier EXCEPT !.pc = "expired", !.old = Old]
  /\ UNCHANGED <<age, tarred, post, index, audit, backstop, restarts>>

VerifierMarks ==
  \/ /\ verifier.pc = "expired" /\ verifier' = [verifier EXCEPT !.pc = "marked", !.matched = {}]
     /\ MarkVerified(verifier.matched) /\ UNCHANGED <<world, backstop, restarts>>
  \/ /\ verifier.pc = "marked" /\ verifier' = Done(Idle)
     /\ MarkDropped(verifier.old) /\ UNCHANGED <<world, backstop, restarts>>

-----------------------------------------------------------------------------
(* _load_candidates.                                                       *)
Unresolved(r) == Known(r) /\ ~audit[r].verified /\ ~audit[r].dropped

Load ==
  /\ backstop.pc = "idle"
  /\ \E r \in Mine : Unresolved(r) /\ audit[r].up >= MinAge
  /\ backstop' = [Resting EXCEPT !.pc = "loaded",
                    !.candidates = {r \in Mine : Unresolved(r) /\ audit[r].up >= MinAge}]
  /\ UNCHANGED <<world, audit, verifier, restarts>>

(* The mirror is asked for the time span of the candidates, clamped from   *)
(* its newest back.  If no mirror answers, nothing is said of any of them. *)
InSpan(r) == \E newest \in backstop.candidates :
  /\ \A c \in backstop.candidates : age[newest] <= age[c]
  /\ age[r] <= age[newest] + MaxSpan

Ask ==
  /\ backstop.pc = "loaded"
  /\ \/ backstop' = [backstop EXCEPT !.pc = "answered",
                                     !.found = {r \in backstop.candidates \cap index : InSpan(r)}]
     \/ backstop' = Done(Resting)
  /\ UNCHANGED <<world, audit, verifier, restarts>>

NeverLost == {}
Lost == {r \in backstop.candidates \ backstop.found : age[r] >= LossAfter}

BackstopMarks ==
  \/ /\ backstop.pc = "answered" /\ backstop' = [backstop EXCEPT !.pc = "marked"]
     /\ MarkVerified(backstop.found) /\ UNCHANGED <<world, verifier, restarts>>
  \/ /\ backstop.pc = "marked" /\ backstop' = Done(Resting)
     /\ MarkDropped(Lost) /\ UNCHANGED <<world, verifier, restarts>>

-----------------------------------------------------------------------------
(* prune, of either thread.                                                *)
Prune ==
  /\ \E r \in Rows : Known(r) /\ audit[r].up > Retention
  /\ audit' = [r \in Rows |-> IF Known(r) /\ audit[r].up > Retention THEN Unheard ELSE audit[r]]
  /\ UNCHANGED <<world, verifier, backstop, restarts>>

(* The process ends in the middle of either pass and is started again.     *)
Restart ==
  /\ {verifier.pc, backstop.pc} \ {"idle", "done"} # {}
  /\ restarts < MaxRestarts /\ restarts' = restarts + 1
  /\ verifier' = Idle /\ backstop' = Resting
  /\ post' = [r \in Rows |-> IF post[r] = "sent" THEN "no" ELSE post[r]]
  /\ UNCHANGED <<age, queue, tarred, index, audit>>

(* A pass is short against the times it compares, and a thread that made   *)
(* one waits for the next interval.                                        *)
Older(n) == IF n = Off \/ n = MaxAge THEN n ELSE n + 1

Tick ==
  /\ verifier.pc \in {"idle", "done"} /\ verifier' = Idle
  /\ backstop.pc \in {"idle", "done"} /\ backstop' = Resting
  /\ age' = [r \in Rows |-> Older(age[r])]
  /\ audit' = [r \in Rows |-> [audit[r] EXCEPT !.up = Older(@)]]
  /\ UNCHANGED <<queue, tarred, post, index, restarts>>

Verifier == Flush \/ DropOld \/ VerifierMarks
Backstop == Ask \/ BackstopMarks

Next ==
  \/ \E r \in Rows : Queue(r) \/ Tar(r)
  \/ \E r \in Mine : Send(r) \/ Indexed(r) \/ Acked(r) \/ Failed(r)
  \/ Fetch \/ Verifier \/ Load \/ Backstop \/ Prune \/ Restart \/ Tick

Spec == Init /\ [][Next]_vars

(* Time passes, passes begin and come to their end; now and again the      *)
(* servers do answer.                                                      *)
FairSpec ==
  /\ Spec
  /\ WF_vars(Tick) /\ WF_vars(Verifier) /\ WF_vars(Backstop)
  /\ SF_vars(Fetch) /\ SF_vars(Load) /\ SF_vars(Ask /\ backstop'.pc = "answered")

-----------------------------------------------------------------------------
(* The ledger the audit table keeps.                                       *)
Verdict(r) ==
  CASE ~Known(r) -> "none"
    [] audit[r].verified -> IF audit[r].dropped THEN "found late" ELSE "verified"
    [] OTHER -> IF audit[r].dropped THEN "lost" ELSE "in flight"

Ledger == INSTANCE AuditLedger
            WITH Spots <- Rows, verdict <- [r \in Rows |-> Verdict(r)], indexed <- index

(* However the verifier, the backstop, the pump and a restart meet, the    *)
(* table is a ledger: nothing verified is ever given up, and only what     *)
(* wsprnet.org has indexed is verified (wsprnet_audit.py:495).             *)
AuditRefines == Ledger!Spec

(* A receiver's verifier takes no other's rows from the queue, and of its  *)
(* own none that is young and not indexed (wsprnet_verifier.py:170).       *)
NoEarlyDelete ==
  \A r \in Rows : age[r] # Off /\ r \notin queue =>
    r \in Mine /\ (r \in index \/ age[r] > DropAfter)

(* The verifier keeps its part of the queue bounded (wsprnet_verifier.py:  *)
(* 221): no row of its own stays for ever.                                 *)
RowsLeave ==
  \A r \in Mine : Verifying /\ r \in queue ~> r \notin queue

(* No spot stays in flight for ever (wsprnet_mirror_backstop.py:17): it is *)
(* verified, given up, or pruned with its row's age.                       *)
VerdictsCome ==
  \A r \in Mine : Unresolved(r) ~> ~Unresolved(r)

(* "Race-delete would starve the other pipeline" (hs_uploader_shim.py:     *)
(* 1100): a row that left the queue has reached wsprdaemon.org as well.    *)
(* Does not hold, the verifier deletes what wsprnet.org has.               *)
BothServed ==
  \A r \in Rows : age[r] # Off /\ r \notin queue => r \in tarred

(* What is dropped as old was "either accepted-but-out-of-window or        *)
(* rejected" (wsprnet_verifier.py:74).  Does not hold after an outage.     *)
DroppedWasPosted ==
  \A r \in Rows : age[r] # Off /\ r \notin queue => post[r] # "no"

(* "Confirmed losses, genuinely never indexed by wsprnet"                  *)
(* (wsprnet_mirror_backstop.py:34).  Does not hold: the verifier gives up  *)
(* what it cannot see, and the backstop condemns what it did not ask for.  *)
LostNotIndexed ==
  \A r \in Rows : Verdict(r) = "lost" => r \notin index
=============================================================================
